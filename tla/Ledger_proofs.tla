---------------------------- MODULE Ledger_proofs ----------------------------
(***************************************************************************)
(* Ledger keeps the day's hours, the caps of the apps and the asks of      *)
(* AskBook, for any number of tokens, keys, asks, amounts and stops.       *)
(*                                                                         *)
(* Everything hangs on what the statements still to come may be (Rest):    *)
(* which of them stand together, and what they have in common with the     *)
(* rows when they are reached.                                             *)
(***************************************************************************)
EXTENDS Ledger, SequenceTheorems, TLAPS

Do(what) == [do |-> what]
Decides(a) == [do |-> "decide", ask |-> a]
Counts(t, s) == [do |-> "count", token |-> t, seconds |-> s]

PlainRests ==
  {<<>>, <<Do("unlock")>>,
   <<Do("dismiss")>>, <<Do("dismiss"), Do("unlock")>>,
   <<Do("hold"), Do("dismiss"), Do("unlock")>>,
   <<Do("defer")>>, <<Do("undefer")>>, <<Do("refill"), Do("undefer")>>,
   <<Do("unhold")>>, <<Do("unhold"), Do("refill"), Do("undefer")>>}

ApprovalRests(a) ==
  {<<Decides(a), Do("unlock")>>, <<Do("hold"), Decides(a), Do("unlock")>>}

\* An approval under way is of a pending ask that has had its minutes.
IsApproval(a) == todo \in ApprovalRests(a) /\ status[a] = "pending" /\ paid[a] > 0

\* A credit of an app that is still to be counted is inside its cap.
IsCount(t, s) == todo = <<Counts(t, s)>> /\ s > 0 /\ spent[t] + s <= DayCap

Rest ==
  \/ todo \in PlainRests
  \/ \E a \in AskIds : IsApproval(a)
  \/ \E t \in Apps, s \in Amounts : IsCount(t, s)

\* What is counted is inside the cap, and given runs ahead of it by the credit
\* to be counted and by one cap for each stop.
CapInv ==
  \A t \in Apps :
    /\ spent[t] <= DayCap
    /\ \/ given[t] <= spent[t] + DayCap * stops
       \/ \E s \in Amounts : todo = <<Counts(t, s)>> /\ given[t] <= spent[t] + s + DayCap * stops

\* A day that is settled and not refilled has the refill, or its putting off,
\* to come; or it is put off, and no refill is half done.
DayInv ==
  settled /\ stops = 0 /\ ~ refilled =>
    \/ todo \in {<<Do("defer")>>, <<Do("refill"), Do("undefer")>>,
                 <<Do("unhold"), Do("refill"), Do("undefer")>>}
    \/ deferred /\ todo # <<Do("undefer")>>

IInv == TypeOK /\ Rest /\ ApprovedWasPaid /\ CapInv /\ DayInv

-----------------------------------------------------------------------------
(* Short sequences.                                                        *)

LEMMA Heads ==
  ASSUME NEW x, NEW y, NEW z
  PROVE  /\ <<x>> # <<>> /\ <<x, y>> # <<>> /\ <<x, y, z>> # <<>>
         /\ Head(<<x>>) = x /\ Head(<<x, y>>) = x /\ Head(<<x, y, z>>) = x
  BY SMT

LEMMA Tails ==
  ASSUME NEW x, NEW y, NEW z
  PROVE  Tail(<<x>>) = <<>> /\ Tail(<<x, y>>) = <<y>> /\ Tail(<<x, y, z>>) = <<y, z>>
  BY SMT

LEMMA OneThenTwo ==
  ASSUME NEW x, NEW y, NEW z PROVE <<x>> \o <<y, z>> = <<x, y, z>>
<1> DEFINE S == {x, y, z}
           s == <<x>>
           t == <<y, z>>
           u == <<x, y, z>>
<1>1. s \in Seq(S) /\ t \in Seq(S) /\ u \in Seq(S)
  BY SMT
<1>2. s \o t \in Seq(S) /\ Len(s \o t) = 3
  BY <1>1, ConcatProperties, SMT
<1>3. \A i \in 1 .. 3 : (s \o t)[i] = u[i]
  BY <1>1, SMT
<1>4. Len(u) = 3
  OBVIOUS
<1> HIDE DEF S, s, t, u
<1>5. s \o t = u
  BY <1>1, <1>2, <1>3, <1>4, SeqEqual, SMT
<1> QED
  BY <1>5 DEF s, t, u

LEMMA NoneThen ==
  ASSUME NEW x, NEW y
  PROVE  <<>> \o <<x, y>> = <<x, y>> /\ <<x>> \o <<>> = <<x>>
  BY <<x, y>> \in Seq({x, y}), <<x>> \in Seq({x}), ConcatEmptySeq, SMT

\* What the methods leave to be done.
LEMMA HoldThen ==
  ASSUME NEW x, NEW y
  PROVE  HoldFirst \o <<x, y>> \in {<<x, y>>, <<Do("hold"), x, y>>}
  BY OneThenTwo, NoneThen DEF HoldFirst, Do

LEMMA UnholdThen ==
  ASSUME NEW p \in BOOLEAN
  PROVE  <<[do |-> "unhold"]>> \o (IF p THEN RefillAll ELSE <<>>)
            = IF p THEN <<Do("unhold"), Do("refill"), Do("undefer")>> ELSE <<Do("unhold")>>
  BY OneThenTwo, NoneThen DEF RefillAll, Do

\* A statement is reached only where Rest has it.
LEMMA Reached ==
  ASSUME Rest, NEW what, NextIs(what)
  PROVE  /\ what = "refill" => todo = <<Do("refill"), Do("undefer")>> /\ todo' = <<Do("undefer")>>
         /\ what = "undefer" => todo = <<Do("undefer")>> /\ todo' = <<>>
         /\ what = "defer" => todo = <<Do("defer")>> /\ todo' = <<>>
         /\ what = "hold" =>
              \/ /\ todo = <<Do("hold"), Do("dismiss"), Do("unlock")>>
                 /\ todo' = <<Do("dismiss"), Do("unlock")>>
              \/ \E a \in AskIds : /\ IsApproval(a)
                                   /\ todo' = <<Decides(a), Do("unlock")>>
         /\ what = "unhold" =>
              \/ todo = <<Do("unhold")>> /\ todo' = <<>>
              \/ /\ todo = <<Do("unhold"), Do("refill"), Do("undefer")>>
                 /\ todo' = <<Do("refill"), Do("undefer")>>
         /\ what = "dismiss" =>
              \/ todo = <<Do("dismiss")>> /\ todo' = <<>>
              \/ todo = <<Do("dismiss"), Do("unlock")>> /\ todo' = <<Do("unlock")>>
         /\ what = "unlock" => todo = <<Do("unlock")>> /\ todo' = <<>>
         /\ what = "decide" =>
              \E a \in AskIds : /\ IsApproval(a) /\ todo = <<Decides(a), Do("unlock")>>
                                /\ Head(todo).ask = a /\ todo' = <<Do("unlock")>>
         /\ what = "count" =>
              \E t \in Apps, s \in Amounts :
                 /\ IsCount(t, s) /\ todo' = <<>>
                 /\ Head(todo).token = t /\ Head(todo).seconds = s
<1>1. CASE todo \in PlainRests
  <2>1. CASE todo = <<Do("unlock")>>
    BY <2>1, Heads, Tails DEF NextIs, Do
  <2>2. CASE todo = <<Do("dismiss")>>
    BY <2>2, Heads, Tails DEF NextIs, Do
  <2>3. CASE todo = <<Do("dismiss"), Do("unlock")>>
    BY <2>3, Heads, Tails DEF NextIs, Do
  <2>4. CASE todo = <<Do("hold"), Do("dismiss"), Do("unlock")>>
    BY <2>4, Heads, Tails DEF NextIs, Do
  <2>5. CASE todo = <<Do("defer")>>
    BY <2>5, Heads, Tails DEF NextIs, Do
  <2>6. CASE todo = <<Do("undefer")>>
    BY <2>6, Heads, Tails DEF NextIs, Do
  <2>7. CASE todo = <<Do("refill"), Do("undefer")>>
    BY <2>7, Heads, Tails DEF NextIs, Do
  <2>8. CASE todo = <<Do("unhold")>>
    BY <2>8, Heads, Tails DEF NextIs, Do
  <2>9. CASE todo = <<Do("unhold"), Do("refill"), Do("undefer")>>
    BY <2>9, Heads, Tails DEF NextIs, Do
  <2> QED
    BY <1>1, <2>1, <2>2, <2>3, <2>4, <2>5, <2>6, <2>7, <2>8, <2>9 DEF PlainRests, NextIs
<1>2. CASE \E a \in AskIds : IsApproval(a)
  <2> PICK a \in AskIds : IsApproval(a)
    BY <1>2
  <2>1. CASE todo = <<Decides(a), Do("unlock")>>
    BY <2>1, Heads, Tails DEF NextIs, Do, Decides
  <2>2. CASE todo = <<Do("hold"), Decides(a), Do("unlock")>>
    BY <2>2, Heads, Tails DEF NextIs, Do, Decides
  <2> QED
    BY <2>1, <2>2 DEF IsApproval, ApprovalRests
<1>3. CASE \E t \in Apps, s \in Amounts : IsCount(t, s)
  <2> PICK t \in Apps, s \in Amounts : IsCount(t, s)
    BY <1>3
  <2> QED
    BY Heads, Tails DEF NextIs, Counts, IsCount
<1> QED
  BY <1>1, <1>2, <1>3 DEF Rest
-----------------------------------------------------------------------------
(* Where it starts.                                                        *)

LEMMA Starts == Init => IInv
<1> SUFFICES ASSUME Init PROVE IInv
  OBVIOUS
<1>1. TypeOK
  <2>1. balance \in 0 .. MaxBalance /\ stops \in 0 .. MaxStops
    BY LedgerAssumption DEF Init
  <2>2. status \in [AskIds -> {"none", "pending", "approved", "denied"}]
    BY DEF Init
  <2>3. spent \in [Apps -> Nat] /\ given \in [Apps -> Nat] /\ paid \in [AskIds -> Nat]
    BY DEF Init
  <2> QED
    BY <2>1, <2>2, <2>3 DEF Init, TypeOK
<1>2. Rest /\ ApprovedWasPaid /\ DayInv
  BY DEF Init, Rest, PlainRests, ApprovedWasPaid, DayInv
<1>3. CapInv
  <2>1. DayCap * 0 = 0
    BY LedgerAssumption
  <2> QED
    BY <2>1, LedgerAssumption DEF Init, CapInv
<1> QED
  BY <1>1, <1>2, <1>3 DEF IInv

-----------------------------------------------------------------------------
(* The steps, one invariant at a time.                                     *)

LEMMA CreditStays ==
  ASSUME balance \in 0 .. MaxBalance, NEW n \in Int, Credit(n)
  PROVE  balance' \in 0 .. MaxBalance
  BY LedgerAssumption DEF Credit

LEMMA GiveStays ==
  ASSUME balance \in 0 .. MaxBalance, NEW n \in Nat, n <= MaxBalance, GiveTime(n)
  PROVE  balance' \in 0 .. MaxBalance
  BY LedgerAssumption, CreditStays DEF GiveTime

LEMMA TypeStep ==
  ASSUME TypeOK, Rest, [Next]_vars PROVE TypeOK'
<1> USE LedgerAssumption DEF TypeOK
<1>1. CASE Midnight
  BY <1>1 DEF Midnight
<1>2. CASE Bedtime
  BY <1>2 DEF Bedtime, history
<1>3. CASE SettleDay \/ SettleDeferred \/ SetParentLock
  BY <1>3 DEF SettleDay, SettleDeferred, SetParentLock, stored, history
<1>4. CASE Spend
  BY <1>4 DEF Spend, history
<1>5. ASSUME NEW t \in Parents, NEW k \in Keys, NEW n \in Amounts, ParentGrant(t, k, n)
      PROVE  TypeOK'
  BY <1>5, CreditStays DEF ParentGrant, history
<1>6. ASSUME NEW t \in Apps, NEW k \in Keys, NEW n \in Amounts, AppGrant(t, k, n)
      PROVE  TypeOK'
  <2>1. balance' \in 0 .. MaxBalance
    BY <1>6, CreditStays DEF AppGrant
  <2>2. given' \in [Apps -> Nat]
    BY <1>6 DEF AppGrant
  <2> QED
    BY <1>6, <2>1, <2>2 DEF AppGrant
<1>7. ASSUME NEW a \in AskIds, CreateAsk(a) \/ Deny(a) PROVE TypeOK'
  BY <1>7 DEF CreateAsk, Deny, history
<1>8. ASSUME NEW t, NEW a \in AskIds, Approve(t, a) PROVE TypeOK'
  <2>1. balance' \in 0 .. MaxBalance
    BY <1>8, GiveStays DEF Approve
  <2>2. paid' \in [AskIds -> Nat]
    BY <1>8 DEF Approve
  <2> QED
    BY <1>8, <2>1, <2>2 DEF Approve
<1>9. ASSUME NEW n \in Amounts, PinGrant(n) PROVE TypeOK'
  BY <1>9, GiveStays DEF PinGrant, history
<1>10. CASE WriteRefill
  BY <1>10 DEF WriteRefill
<1>11. ASSUME NEW w, NEW v \in BOOLEAN, WriteDeferred(w, v) \/ WriteHold(w, v) PROVE TypeOK'
  BY <1>11 DEF WriteDeferred, WriteHold, history
<1>12. CASE Dismiss
  BY <1>12 DEF Dismiss, history
<1>13. CASE DecideAsk
  BY <1>13, Reached DEF DecideAsk, history
<1>14. CASE CountSpend
  <2> PICK t \in Apps, s \in Amounts :
        Head(todo).token = t /\ Head(todo).seconds = s /\ IsCount(t, s)
    BY <1>14, Reached DEF CountSpend
  <2>1. spent' = [spent EXCEPT ![t] = @ + s]
    BY <1>14 DEF CountSpend
  <2>2. spent' \in [Apps -> Nat]
    BY <2>1 DEF IsCount
  <2> QED
    BY <1>14, <2>2 DEF CountSpend, history
<1>15. CASE Unlock
  BY <1>15 DEF Unlock, history
<1>16. CASE Stop
  BY <1>16 DEF Stop, stored, history
<1>17. CASE UNCHANGED vars
  BY <1>17 DEF vars
<1> QED
  BY <1>1, <1>2, <1>3, <1>4, <1>5, <1>6, <1>7, <1>8, <1>9, <1>10, <1>11, <1>12, <1>13, <1>14, <1>15, <1>16, <1>17 DEF Next, Method, Statement

LEMMA RestStep ==
  ASSUME TypeOK, Rest, [Next]_vars PROVE Rest'
<1>1. CASE Midnight
  <2>1. \A a \in AskIds : IsApproval(a) => IsApproval(a)'
    BY <1>1 DEF Midnight, IsApproval
  <2>2. \A t \in Apps, s \in Amounts : IsCount(t, s) => IsCount(t, s)'
    BY <1>1, LedgerAssumption DEF Midnight, IsCount, TypeOK
  <2> QED
    BY <1>1, <2>1, <2>2 DEF Rest, Midnight
<1>2. CASE Bedtime \/ SetParentLock \/ UNCHANGED vars
  <2>1. UNCHANGED <<todo, status, paid, spent>>
    BY <1>2 DEF Bedtime, SetParentLock, vars, history
  <2> QED
    BY <2>1 DEF Rest, IsApproval, IsCount
<1>3. CASE SettleDay \/ SettleDeferred \/ Stop
  BY <1>3 DEF SettleDay, SettleDeferred, Stop, Rest, PlainRests, RefillAll, Do
<1>4. CASE Spend
  <2>1. todo' \in {<<>>, <<Do("unhold")>>, <<Do("unhold"), Do("refill"), Do("undefer")>>}
    BY <1>4, UnholdThen DEF Spend, TypeOK
  <2> QED
    BY <2>1 DEF Rest, PlainRests
<1>5. ASSUME NEW t \in Parents, NEW k \in Keys, NEW n \in Amounts, ParentGrant(t, k, n)
      PROVE  Rest'
  BY <1>5 DEF ParentGrant, Rest, PlainRests, Do
<1>6. ASSUME NEW t \in Apps, NEW k \in Keys, NEW n \in Amounts, AppGrant(t, k, n)
      PROVE  Rest'
  <2>1. IsCount(t, n)'
    BY <1>6 DEF AppGrant, IsCount, Counts
  <2> QED
    BY <2>1 DEF Rest
<1>7. ASSUME NEW a \in AskIds, CreateAsk(a) \/ Deny(a) PROVE Rest'
  BY <1>7 DEF CreateAsk, Deny, Prepared, Rest, PlainRests
<1>8. ASSUME NEW t, NEW a \in AskIds, Approve(t, a) PROVE Rest'
  <2>1. todo' \in ApprovalRests(a)
    BY <1>8, HoldThen DEF Approve, ApprovalRests, Decides, Do
  <2>2. IsApproval(a)'
    BY <1>8, <2>1 DEF Approve, IsApproval, ApprovalRests, TypeOK
  <2> QED
    BY <2>2 DEF Rest
<1>9. ASSUME NEW n \in Amounts, PinGrant(n) PROVE Rest'
  BY <1>9, HoldThen DEF PinGrant, Rest, PlainRests, Do
<1>10. CASE WriteRefill
  BY <1>10, Reached DEF WriteRefill, Rest, PlainRests
<1>11. CASE WriteDeferred("defer", TRUE) \/ WriteDeferred("undefer", FALSE)
  BY <1>11, Reached DEF WriteDeferred, Rest, PlainRests
<1>12. CASE WriteHold("hold", TRUE)
  <2>1. CASE todo' = <<Do("dismiss"), Do("unlock")>>
    BY <2>1 DEF Rest, PlainRests
  <2>2. ASSUME NEW a \in AskIds, IsApproval(a), todo' = <<Decides(a), Do("unlock")>>
        PROVE  Rest'
    <3>1. IsApproval(a)'
      BY <1>12, <2>2 DEF WriteHold, IsApproval, ApprovalRests, history
    <3> QED
      BY <3>1 DEF Rest
  <2> QED
    BY <1>12, <2>1, <2>2, Reached DEF WriteHold
<1>13. CASE WriteHold("unhold", FALSE)
  BY <1>13, Reached DEF WriteHold, Rest, PlainRests
<1>14. CASE Dismiss
  BY <1>14, Reached DEF Dismiss, Rest, PlainRests
<1>15. CASE DecideAsk
  BY <1>15, Reached DEF DecideAsk, Rest, PlainRests
<1>16. CASE CountSpend
  BY <1>16, Reached DEF CountSpend, Rest, PlainRests
<1>17. CASE Unlock
  BY <1>17, Reached DEF Unlock, Rest, PlainRests
<1> QED
  BY <1>1, <1>2, <1>3, <1>4, <1>5, <1>6, <1>7, <1>8, <1>9, <1>10, <1>11, <1>12, <1>13, <1>14, <1>15, <1>16, <1>17 DEF Next, Method, Statement

\* Only Approve and DecideAsk make approved what was not; the one pays first.
LEMMA PaidStep ==
  ASSUME TypeOK, Rest, ApprovedWasPaid, [Next]_vars PROVE ApprovedWasPaid'
<1>1. ASSUME UNCHANGED <<status, paid>> PROVE ApprovedWasPaid'
  BY <1>1 DEF ApprovedWasPaid
<1>2. ASSUME NEW a \in AskIds, CreateAsk(a) \/ Deny(a) PROVE ApprovedWasPaid'
  BY <1>2 DEF CreateAsk, Deny, history, TypeOK, ApprovedWasPaid
<1>3. ASSUME NEW t, NEW a \in AskIds, Approve(t, a) PROVE ApprovedWasPaid'
  BY <1>3 DEF Approve, TypeOK, ApprovedWasPaid
<1>4. CASE Dismiss
  BY <1>4 DEF Dismiss, history, TypeOK, ApprovedWasPaid
<1>5. CASE DecideAsk
  <2> PICK a \in AskIds : IsApproval(a) /\ Head(todo).ask = a
    BY <1>5, Reached DEF DecideAsk
  <2> QED
    BY <1>5 DEF DecideAsk, history, TypeOK, ApprovedWasPaid, IsApproval
<1>6. CASE Midnight \/ Bedtime \/ Stop \/ UNCHANGED vars
  BY <1>1, <1>6 DEF Midnight, Bedtime, Stop, vars, stored, history
<1>7. CASE SettleDay \/ SettleDeferred \/ Spend \/ SetParentLock
  BY <1>1, <1>7 DEF SettleDay, SettleDeferred, Spend, SetParentLock, stored, history
<1>8. ASSUME NEW t, NEW k, NEW n, ParentGrant(t, k, n) \/ AppGrant(t, k, n) \/ PinGrant(n)
      PROVE  ApprovedWasPaid'
  BY <1>1, <1>8 DEF ParentGrant, AppGrant, PinGrant, history
<1>9. ASSUME NEW w, NEW v, WriteDeferred(w, v) \/ WriteHold(w, v) PROVE ApprovedWasPaid'
  BY <1>1, <1>9 DEF WriteDeferred, WriteHold, history
<1>10. CASE WriteRefill \/ CountSpend \/ Unlock
  BY <1>1, <1>10 DEF WriteRefill, CountSpend, Unlock, history
<1> QED
  BY <1>2, <1>3, <1>4, <1>5, <1>6, <1>7, <1>8, <1>9, <1>10 DEF Next, Method, Statement

\* A stop costs one cap more.
LEMMA CapOfStops ==
  ASSUME NEW n \in Nat
  PROVE  /\ DayCap * n \in Nat
         /\ DayCap * (n + 1) = DayCap * n + DayCap
  BY LedgerAssumption

\* Only a grant of an app is counted.
LEMMA CapStep ==
  ASSUME TypeOK, Rest, CapInv, [Next]_vars PROVE CapInv'
<1>0. stops \in Nat /\ DayCap * stops \in Nat /\ DayCap \in Nat
  BY CapOfStops, LedgerAssumption DEF TypeOK
<1>1. ASSUME UNCHANGED <<spent, given, stops, todo>> PROVE CapInv'
  BY <1>1 DEF CapInv
<1>2. ASSUME UNCHANGED <<spent, given, stops>>,
             \A t \in Apps, s \in Amounts : todo # <<Counts(t, s)>>
      PROVE  CapInv'
  BY <1>2 DEF CapInv
<1>3. CASE Midnight
  <2>1. \A t \in Apps : spent'[t] = 0 /\ given'[t] = 0
    BY <1>3 DEF Midnight
  <2>2. UNCHANGED stops
    BY <1>3 DEF Midnight
  <2> QED
    BY <1>0, <2>1, <2>2 DEF CapInv
<1>4. CASE Bedtime \/ SetParentLock \/ UNCHANGED vars
  BY <1>1, <1>4 DEF Bedtime, SetParentLock, vars, history
<1>5. ASSUME todo = <<>>, UNCHANGED <<spent, given, stops>> PROVE CapInv'
  BY <1>2, <1>5
<1>6. CASE SettleDay \/ SettleDeferred \/ Spend
  BY <1>5, <1>6 DEF SettleDay, SettleDeferred, Spend, Prepared, stored, history
<1>7. ASSUME NEW t, NEW k, NEW n, ParentGrant(t, k, n) \/ PinGrant(n) PROVE CapInv'
  BY <1>5, <1>7 DEF ParentGrant, PinGrant, Prepared, history
<1>8. ASSUME NEW t \in Apps, NEW k \in Keys, NEW n \in Amounts, AppGrant(t, k, n)
      PROVE  CapInv'
  <2>1. todo = <<>> /\ todo' = <<Counts(t, n)>> /\ UNCHANGED <<spent, stops>>
    BY <1>8 DEF AppGrant, Prepared, Counts
  <2>2. \A u \in Apps : given[u] <= spent[u] + DayCap * stops
    BY <2>1 DEF CapInv
  <2>3. n \in Int /\ \A u \in Apps : spent[u] \in Int /\ given[u] \in Int
    BY LedgerAssumption DEF TypeOK
  <2>4. \A u \in Apps : given'[u] = IF u = t THEN given[u] + n ELSE given[u]
    BY <1>8 DEF AppGrant, TypeOK
  <2>5. given'[t] <= spent'[t] + n + DayCap * stops'
    BY <1>0, <2>1, <2>2, <2>3, <2>4
  <2> QED
    BY <2>1, <2>2, <2>4, <2>5 DEF CapInv
<1>9. ASSUME NEW a, NEW t, CreateAsk(a) \/ Deny(a) \/ Approve(t, a) PROVE CapInv'
  BY <1>5, <1>9 DEF CreateAsk, Deny, Approve, Prepared, history
<1>10. ASSUME NEW what, NextIs(what), what # "count", UNCHANGED <<spent, given, stops>>
       PROVE  CapInv'
  <2>1. \A t \in Apps, s \in Amounts : todo # <<Counts(t, s)>>
    BY <1>10, Heads DEF NextIs, Counts
  <2> QED
    BY <1>2, <1>10, <2>1
<1>11. CASE WriteRefill \/ Dismiss \/ DecideAsk \/ Unlock
  BY <1>10, <1>11 DEF WriteRefill, Dismiss, DecideAsk, Unlock, history
<1>12. ASSUME NEW w \in {"defer", "undefer", "hold", "unhold"}, NEW v,
              WriteDeferred(w, v) \/ WriteHold(w, v)
       PROVE  CapInv'
  BY <1>10, <1>12 DEF WriteDeferred, WriteHold, history
<1>13. CASE CountSpend
  <2> PICK t \in Apps, s \in Amounts :
        Head(todo).token = t /\ Head(todo).seconds = s /\ IsCount(t, s)
    BY <1>13, Reached DEF CountSpend
  <2>1. UNCHANGED <<given, stops>> /\ spent' = [spent EXCEPT ![t] = @ + s]
    BY <1>13 DEF CountSpend, history
  <2>2. s \in Int /\ s > 0 /\ spent[t] + s <= DayCap
    BY LedgerAssumption DEF IsCount
  <2>3. \A u \in Apps : spent[u] \in Int /\ given[u] \in Int
    BY DEF TypeOK
  <2>4. \A u \in Apps : spent'[u] = IF u = t THEN spent[u] + s ELSE spent[u]
    BY <2>1 DEF TypeOK
  <2>5. \A u \in Apps, r \in Amounts : todo = <<Counts(u, r)>> => u = t /\ r = s
    BY Heads DEF IsCount, Counts
  <2>6. \A u \in Apps : spent'[u] <= DayCap
    BY <2>2, <2>4 DEF CapInv
  <2>7. \A u \in Apps : given[u] <= spent'[u] + DayCap * stops
    BY <1>0, <2>2, <2>3, <2>4, <2>5 DEF CapInv
  <2> QED
    BY <2>1, <2>6, <2>7 DEF CapInv
<1>14. CASE Stop
  <2>1. UNCHANGED <<given, spent>> /\ stops' = stops + 1
    BY <1>14 DEF Stop, stored, history
  <2>2. DayCap * stops' = DayCap * stops + DayCap
    BY <1>0, <2>1, CapOfStops
  <2>3. \A u \in Apps : spent[u] \in Nat /\ given[u] \in Nat
    BY DEF TypeOK
  <2>4. \A u \in Apps, r \in Amounts : todo = <<Counts(u, r)>> => r \in Int /\ r <= DayCap
    <3>1. SUFFICES ASSUME NEW u \in Apps, NEW r \in Amounts, todo = <<Counts(u, r)>>
                   PROVE  r <= DayCap
      BY LedgerAssumption
    <3>2. Head(todo).do = "count"
      BY <3>1, Heads DEF Counts
    <3>3. \A a \in AskIds : ~ IsApproval(a)
      BY <3>2, Heads DEF IsApproval, ApprovalRests, Decides, Do
    <3>4. todo \notin PlainRests
      BY <3>1, <3>2, Heads DEF PlainRests, Do
    <3>5. PICK t \in Apps, s \in Amounts : IsCount(t, s)
      BY <3>3, <3>4 DEF Rest
    <3>6. r = s
      BY <3>1, <3>5, Heads DEF IsCount, Counts
    <3> QED
      BY <1>0, <2>3, <3>5, <3>6, LedgerAssumption DEF IsCount
  <2>5. \A u \in Apps : given[u] <= spent[u] + DayCap * stops + DayCap
    BY <1>0, <2>3, <2>4 DEF CapInv
  <2> QED
    BY <1>0, <2>1, <2>2, <2>3, <2>5 DEF CapInv
<1> QED
  BY <1>3, <1>4, <1>6, <1>7, <1>8, <1>9, <1>11, <1>12, <1>13, <1>14
     DEF Next, Method, Statement

\* A day is called settled by the step that leaves its refill to be done.
LEMMA DayStep ==
  ASSUME TypeOK, Rest, DayInv, [Next]_vars PROVE DayInv'
<1>1. ASSUME UNCHANGED <<settled, stops, refilled, deferred, todo>> PROVE DayInv'
  BY <1>1 DEF DayInv
<1>2. CASE Midnight
  BY <1>2 DEF Midnight, DayInv
<1>3. CASE Bedtime \/ SetParentLock \/ UNCHANGED vars
  BY <1>1, <1>3 DEF Bedtime, SetParentLock, vars, history
<1>4. CASE SettleDay \/ SettleDeferred
  BY <1>4 DEF SettleDay, SettleDeferred, DayInv, RefillAll, Do
<1>5. CASE Spend
  <2>1. /\ todo = <<>> /\ UNCHANGED <<settled, stops, refilled, deferred>>
        /\ \/ todo' = <<>> \/ ~ deferred
           \/ todo' = <<Do("unhold"), Do("refill"), Do("undefer")>>
    BY <1>5, UnholdThen DEF Spend, Prepared, history, TypeOK
  <2> QED
    BY <2>1 DEF DayInv
\* the other methods begin in a settled day and put off no refill
<1>6. ASSUME todo = <<>>, UNCHANGED <<settled, stops, refilled, deferred>>, todo' # <<Do("undefer")>>
      PROVE  DayInv'
  BY <1>6 DEF DayInv
<1>7. ASSUME NEW t, NEW k, NEW n, ParentGrant(t, k, n) \/ AppGrant(t, k, n) PROVE DayInv'
  <2>1. todo' # <<Do("undefer")>>
    BY <1>7, Heads DEF ParentGrant, AppGrant, Do
  <2> QED
    BY <1>6, <1>7, <2>1 DEF ParentGrant, AppGrant, Prepared, history
<1>8. ASSUME NEW t, NEW a, CreateAsk(a) \/ Deny(a) \/ Approve(t, a) PROVE DayInv'
  <2>1. todo' # <<Do("undefer")>>
    BY <1>8, HoldThen, Heads, Tails DEF CreateAsk, Deny, Approve, Prepared, Do
  <2> QED
    BY <1>6, <1>8, <2>1 DEF CreateAsk, Deny, Approve, Prepared, history
<1>9. ASSUME NEW n, PinGrant(n) PROVE DayInv'
  <2>1. todo' # <<Do("undefer")>>
    BY <1>9, HoldThen, Heads, Tails DEF PinGrant, Do
  <2> QED
    BY <1>6, <1>9, <2>1 DEF PinGrant, Prepared, history
<1>10. CASE WriteRefill
  BY <1>10 DEF WriteRefill, DayInv
<1>11. CASE WriteDeferred("defer", TRUE) \/ WriteDeferred("undefer", FALSE)
  <2>1. CASE WriteDeferred("defer", TRUE)
    BY <2>1, Reached, Heads DEF WriteDeferred, DayInv
  <2>2. CASE WriteDeferred("undefer", FALSE)
    <3>1. todo = <<Do("undefer")>> /\ UNCHANGED <<settled, stops, refilled>>
      BY <2>2, Reached DEF WriteDeferred, history
    <3>2. ~ (settled /\ stops = 0 /\ ~ refilled)
      BY <3>1, Heads DEF DayInv, Do
    <3> QED
      BY <3>1, <3>2 DEF DayInv
  <2> QED
    BY <1>11, <2>1, <2>2
\* the statements that are neither's own
<1>12. ASSUME NEW what \in {"hold", "dismiss", "decide", "count", "unlock"}, NextIs(what),
              UNCHANGED <<settled, stops, refilled, deferred>>
       PROVE  DayInv'
  <2>1. Head(todo) \notin {Do("defer"), Do("refill"), Do("unhold")}
    BY <1>12 DEF NextIs, Do
  <2>2. todo \notin {<<Do("defer")>>, <<Do("refill"), Do("undefer")>>,
                     <<Do("unhold"), Do("refill"), Do("undefer")>>}
    BY <2>1, Heads
  <2>3. todo' # <<Do("undefer")>>
    BY <1>12, Reached, Heads DEF Do, Decides
  <2> QED
    BY <1>12, <2>2, <2>3 DEF DayInv
<1>13. CASE WriteHold("hold", TRUE) \/ Dismiss \/ DecideAsk \/ CountSpend \/ Unlock
  BY <1>12, <1>13 DEF WriteHold, Dismiss, DecideAsk, CountSpend, Unlock, history
<1>14. CASE WriteHold("unhold", FALSE)
  <2>1. UNCHANGED <<settled, stops, refilled, deferred>>
    BY <1>14 DEF WriteHold, history
  <2>2. CASE todo = <<Do("unhold")>> /\ todo' = <<>>
    <3>1. todo \notin {<<Do("defer")>>, <<Do("refill"), Do("undefer")>>,
                       <<Do("unhold"), Do("refill"), Do("undefer")>>}
      BY <2>2, Heads, Tails DEF Do
    <3> QED
      BY <2>1, <2>2, <3>1, Heads DEF DayInv
  <2>3. CASE todo' = <<Do("refill"), Do("undefer")>>
    BY <2>3 DEF DayInv
  <2> QED
    BY <1>14, <2>2, <2>3, Reached DEF WriteHold
<1>15. CASE Stop
  BY <1>15 DEF Stop, DayInv, TypeOK
<1> QED
  BY <1>2, <1>3, <1>4, <1>5, <1>7, <1>8, <1>9, <1>10, <1>11, <1>13, <1>14, <1>15
     DEF Next, Method, Statement

-----------------------------------------------------------------------------
(* The invariant, and what follows from it.                                *)

LEMMA Invariant == Spec => []IInv
<1>1. IInv /\ [Next]_vars => IInv'
  BY TypeStep, RestStep, PaidStep, CapStep, DayStep DEF IInv
<1> QED
  BY <1>1, Starts, PTL DEF Spec

\* Every variable has its type: a clock is never below zero nor above the bound.
THEOREM TypeCorrect == Spec => []TypeOK
  BY Invariant, PTL DEF IInv

\* Whatever is cut short, an ask that the bank calls approved has had its
\* minutes (decideLocked writes the credit first).
THEOREM ApprovedIsPaid == Spec => []ApprovedWasPaid
  BY Invariant, PTL DEF IInv

\* An app gives no more than its cap a day, and one cap more for each time a
\* stop came between a credit and its count (authorizeGrant, addTokenSpendLocked).
THEOREM CapIsKept == Spec => []AppWithinCap
<1>1. IInv => AppWithinCap
  <2> SUFFICES ASSUME IInv, NEW t \in Apps PROVE given[t] <= DayCap * (1 + stops)
    BY DEF AppWithinCap
  <2>1. /\ stops \in Nat /\ DayCap \in Nat /\ DayCap * stops \in Nat
        /\ given[t] \in Nat /\ spent[t] \in Nat
    BY CapOfStops, LedgerAssumption DEF IInv, TypeOK
  <2>2. DayCap * (1 + stops) = DayCap * stops + DayCap
    BY <2>1, CapOfStops, 1 + stops = stops + 1
  <2>3. CASE given[t] <= spent[t] + DayCap * stops
    BY <2>1, <2>2, <2>3 DEF IInv, CapInv
  <2>4. ASSUME NEW s \in Amounts, todo = <<Counts(t, s)>>,
               given[t] <= spent[t] + s + DayCap * stops
        PROVE  given[t] <= DayCap * (1 + stops)
    <3>1. Head(todo).do = "count"
      BY <2>4, Heads DEF Counts
    <3>2. \A a \in AskIds : ~ IsApproval(a)
      BY <3>1, Heads DEF IsApproval, ApprovalRests, Decides, Do
    <3>3. todo \notin PlainRests
      BY <2>4, <3>1, Heads DEF PlainRests, Do
    <3>4. PICK u \in Apps, r \in Amounts : IsCount(u, r)
      BY <3>2, <3>3 DEF IInv, Rest
    <3>5. u = t /\ r = s
      BY <2>4, <3>4, Heads DEF IsCount, Counts
    <3> QED
      BY <2>1, <2>2, <2>4, <3>4, <3>5, LedgerAssumption DEF IsCount
  <2> QED
    BY <2>3, <2>4 DEF IInv, CapInv
<1> QED
  BY <1>1, Invariant, PTL

\* While no method is cut short, midnight costs the kid no day: a day the bank
\* calls settled has had its hours, or has them put off (resetDayLocked).
THEOREM NoDayIsLost == Spec => []RefillNotLost
<1>1. IInv => RefillNotLost
  BY Heads DEF IInv, DayInv, RefillNotLost
<1> QED
  BY <1>1, Invariant, PTL

-----------------------------------------------------------------------------
(* The ledger implements AskBook.                                          *)

\* The status that Book is given in Ledger.
BookStatus == [a \in AskIds |-> IF Approving(a) THEN "approved" ELSE status[a]]

LEMMA WhoIsApproving ==
  /\ todo \in PlainRests => \A a \in AskIds : ~ Approving(a)
  /\ \A t, s : todo = <<Counts(t, s)>> => \A a \in AskIds : ~ Approving(a)
  /\ \A a \in AskIds : todo \in ApprovalRests(a) =>
       \A b \in AskIds : Approving(b) <=> b = a
<1>1. ASSUME NEW x, NEW y, NEW z, NEW a
      PROVE  /\ todo = <<>> => ~ Approving(a)
             /\ todo = <<x>> => (Approving(a) <=> x = Decides(a))
             /\ todo = <<x, y>> => (Approving(a) <=> x = Decides(a) \/ y = Decides(a))
             /\ todo = <<x, y, z>> =>
                  (Approving(a) <=> x = Decides(a) \/ y = Decides(a) \/ z = Decides(a))
  BY DEF Approving, Decides
<1>2. \A what, a : Do(what) = Decides(a) => what = "decide"
  BY DEF Do, Decides
<1>3. \A t, s, a : Counts(t, s) # Decides(a)
  BY DEF Counts, Decides
<1>4. \A a, b : Decides(a) = Decides(b) => a = b
  BY DEF Decides
<1>5. todo \in PlainRests => \A a \in AskIds : ~ Approving(a)
  BY <1>1, <1>2 DEF PlainRests
<1>6. \A t, s : todo = <<Counts(t, s)>> => \A a \in AskIds : ~ Approving(a)
  BY <1>1, <1>3
<1>7. \A a \in AskIds : todo \in ApprovalRests(a) =>
        \A b \in AskIds : Approving(b) <=> b = a
  BY <1>1, <1>2, <1>4 DEF ApprovalRests
<1> QED
  BY <1>5, <1>6, <1>7

LEMMA PlainBook ==
  ASSUME TypeOK, \A a \in AskIds : ~ Approving(a) PROVE BookStatus = status
BY DEF BookStatus, TypeOK

LEMMA ApprovalBook ==
  ASSUME TypeOK, NEW a \in AskIds, todo \in ApprovalRests(a)
  PROVE  BookStatus = [status EXCEPT ![a] = "approved"]
BY WhoIsApproving DEF BookStatus, TypeOK

LEMMA BookInit == Init => Book!Init
<1> SUFFICES ASSUME Init PROVE Book!Init
  OBVIOUS
<1>1. \A a \in AskIds : ~ Approving(a)
  BY WhoIsApproving DEF Init, PlainRests
<1> QED
  BY <1>1 DEF Init, Book!Init

LEMMA PlainTails ==
  ASSUME todo \in PlainRests, todo # <<>> PROVE Tail(todo) \in PlainRests
<1>1. \A x \in {"unlock", "dismiss", "hold", "defer", "undefer", "refill", "unhold"} :
        todo = <<Do(x)>> => Tail(todo) \in PlainRests
  BY Tails DEF PlainRests
<1>2. CASE todo = <<Do("dismiss"), Do("unlock")>>
  BY <1>2, Tails DEF PlainRests
<1>3. CASE todo = <<Do("refill"), Do("undefer")>>
  BY <1>3, Tails DEF PlainRests
<1>4. CASE todo = <<Do("hold"), Do("dismiss"), Do("unlock")>>
  BY <1>4, Tails DEF PlainRests
<1>5. CASE todo = <<Do("unhold"), Do("refill"), Do("undefer")>>
  BY <1>5, Tails DEF PlainRests
<1> QED
  BY <1>1, <1>2, <1>3, <1>4, <1>5 DEF PlainRests

\* Every step is a step of the book, or none of its.
LEMMA BookStep ==
  ASSUME IInv, IInv', [Next]_vars
  PROVE  [Book!Next]_<<BookStatus, paid>>
<1> USE DEF IInv
\* the steps that leave the rows, and what is being approved, alone
<1>1. ASSUME UNCHANGED <<status, paid>>, \A a \in AskIds : Approving(a) <=> Approving(a)'
      PROVE  UNCHANGED <<BookStatus, paid>>
  BY <1>1 DEF BookStatus
<1>2. ASSUME UNCHANGED <<status, paid, todo>> PROVE UNCHANGED <<BookStatus, paid>>
  BY <1>1, <1>2 DEF Approving
<1>3. ASSUME UNCHANGED <<status, paid>>,
             \A a \in AskIds : ~ Approving(a), \A a \in AskIds : ~ Approving(a)'
      PROVE  UNCHANGED <<BookStatus, paid>>
  BY <1>1, <1>3
<1>4. todo = <<>> => \A a \in AskIds : ~ Approving(a)
  BY WhoIsApproving DEF PlainRests
<1>5. (/\ todo \in PlainRests => \A a \in AskIds : ~ Approving(a)
       /\ \A t, s : todo = <<Counts(t, s)>> => \A a \in AskIds : ~ Approving(a)
       /\ \A a \in AskIds : todo \in ApprovalRests(a) =>
            \A b \in AskIds : Approving(b) <=> b = a)'
  BY WhoIsApproving, PTL
<1>6. CASE Midnight \/ Bedtime \/ SetParentLock \/ UNCHANGED vars
  BY <1>2, <1>6 DEF Midnight, Bedtime, SetParentLock, vars, history
<1>7. ASSUME todo = <<>>, UNCHANGED <<status, paid>>, todo' \in PlainRests
      PROVE  UNCHANGED <<BookStatus, paid>>
  BY <1>3, <1>4, <1>5, <1>7
<1>8. CASE SettleDay \/ SettleDeferred
  BY <1>7, <1>8 DEF SettleDay, SettleDeferred, stored, history, PlainRests, RefillAll, Do
<1>9. CASE Spend
  <2>1. todo' \in PlainRests
    BY <1>9, UnholdThen DEF Spend, TypeOK, PlainRests
  <2> QED
    BY <1>7, <1>9, <2>1 DEF Spend, Prepared, history
<1>10. ASSUME NEW t, NEW k, NEW n, ParentGrant(t, k, n) \/ PinGrant(n)
       PROVE  UNCHANGED <<BookStatus, paid>>
  <2>1. todo' \in PlainRests
    BY <1>10, HoldThen DEF ParentGrant, PinGrant, PlainRests, Do
  <2> QED
    BY <1>7, <1>10, <2>1 DEF ParentGrant, PinGrant, Prepared, history
<1>11. ASSUME NEW t, NEW k, NEW n, AppGrant(t, k, n) PROVE UNCHANGED <<BookStatus, paid>>
  <2>1. todo = <<>> /\ todo' = <<Counts(t, n)>> /\ UNCHANGED <<status, paid>>
    BY <1>11 DEF AppGrant, Prepared, Counts
  <2> QED
    BY <1>3, <1>4, <1>5, <2>1
\* a method that begins at rest begins with the statuses of the rows
<1>12. todo = <<>> => BookStatus = status
  BY <1>4, PlainBook
<1>13. todo' \in PlainRests => BookStatus' = status'
  BY <1>5 DEF BookStatus, TypeOK
<1>14. ASSUME NEW a \in AskIds, CreateAsk(a) PROVE Book!Ask(a)
  <2>1. BookStatus = status /\ BookStatus' = status'
    BY <1>12, <1>13, <1>14 DEF CreateAsk, Prepared, PlainRests
  <2> QED
    BY <1>14, <2>1 DEF CreateAsk, history, Book!Ask, BookStatus
<1>15. ASSUME NEW a \in AskIds, Deny(a) PROVE Book!Deny({a})
  <2>1. BookStatus = status /\ BookStatus' = status'
    BY <1>12, <1>13, <1>15 DEF Deny, Prepared, PlainRests
  <2> QED
    BY <1>15, <2>1 DEF Deny, history, Book!Deny, BookStatus, TypeOK
<1>16. ASSUME NEW t, NEW a \in AskIds, Approve(t, a) PROVE Book!Approve(a)
  <2>1. BookStatus = status /\ UNCHANGED status /\ status[a] = "pending"
    BY <1>12, <1>16 DEF Approve, Prepared
  <2>2. todo' \in ApprovalRests(a)
    BY <1>16, HoldThen DEF Approve, ApprovalRests, Decides, Do
  <2>3. BookStatus' = [status EXCEPT ![a] = "approved"]
    BY <1>5, <2>1, <2>2 DEF BookStatus, TypeOK
  <2>4. paid' = [paid EXCEPT ![a] = @ + 1]
    BY <1>16 DEF Approve
  <2> QED
    BY <2>1, <2>3, <2>4 DEF Book!Approve, BookStatus
\* the statements
<1>17. ASSUME NEW what, NextIs(what), what \notin {"hold", "decide"} PROVE
         /\ todo' \in PlainRests
         /\ \A a \in AskIds : ~ Approving(a)
  <2>1. Head(todo).do \notin {"hold", "decide"}
    BY <1>17 DEF NextIs
  <2>2. \A a \in AskIds : ~ IsApproval(a)
    BY <2>1, Heads DEF IsApproval, ApprovalRests, Decides, Do
  <2>3. \A a \in AskIds : ~ Approving(a)
    BY <2>2, WhoIsApproving DEF Rest, IsCount
  <2>4. CASE todo \in PlainRests
    BY <1>17, <2>3, <2>4, PlainTails DEF NextIs
  <2>5. ASSUME NEW t, NEW s, todo = <<Counts(t, s)>> PROVE todo' \in PlainRests
    BY <1>17, <2>5, Tails DEF PlainRests, NextIs
  <2> QED
    BY <2>2, <2>3, <2>4, <2>5 DEF Rest, IsCount
<1>18. CASE WriteRefill \/ CountSpend \/ Unlock
            \/ WriteDeferred("defer", TRUE) \/ WriteDeferred("undefer", FALSE)
            \/ WriteHold("unhold", FALSE)
  <2>1. UNCHANGED <<status, paid>>
    BY <1>18 DEF WriteRefill, CountSpend, Unlock, WriteDeferred, WriteHold, history
  <2>2. todo' \in PlainRests /\ \A a \in AskIds : ~ Approving(a)
    BY <1>17, <1>18 DEF WriteRefill, CountSpend, Unlock, WriteDeferred, WriteHold
  <2> QED
    BY <1>3, <1>5, <2>1, <2>2
<1>19. CASE WriteHold("hold", TRUE)
  <2>1. UNCHANGED <<status, paid>>
    BY <1>19 DEF WriteHold, history
  <2>2. CASE todo = <<Do("hold"), Do("dismiss"), Do("unlock")>>
             /\ todo' = <<Do("dismiss"), Do("unlock")>>
    BY <1>3, <1>5, <2>1, <2>2, WhoIsApproving DEF PlainRests
  <2>3. ASSUME NEW a \in AskIds, IsApproval(a), todo' = <<Decides(a), Do("unlock")>>
        PROVE  UNCHANGED <<BookStatus, paid>>
    <3>1. todo' \in ApprovalRests(a)
      BY <2>3 DEF ApprovalRests
    <3> QED
      BY <1>1, <1>5, <2>1, <2>3, <3>1, WhoIsApproving DEF IsApproval
  <2> QED
    BY <1>19, <2>2, <2>3, Reached DEF WriteHold
<1>20. CASE Dismiss
  <2>1. todo' \in PlainRests /\ \A a \in AskIds : ~ Approving(a)
    BY <1>17, <1>20 DEF Dismiss
  <2>2. BookStatus = status /\ BookStatus' = status'
    BY <1>13, <2>1, PlainBook
  <2> PICK waiting \in SUBSET AskIds : waiting = {a \in AskIds : status[a] = "pending"}
    OBVIOUS
  <2>3. Book!Deny(waiting)
    BY <1>20, <2>2 DEF Dismiss, history, Book!Deny, BookStatus
  <2> QED
    BY <2>3 DEF Book!Next
<1>21. CASE DecideAsk
  <2> PICK a \in AskIds : /\ IsApproval(a) /\ Head(todo).ask = a
                          /\ todo' = <<Do("unlock")>>
    BY <1>21, Reached DEF DecideAsk
  <2>1. BookStatus = [status EXCEPT ![a] = "approved"]
    BY ApprovalBook DEF IsApproval
  <2>2. BookStatus' = status'
    BY <1>13 DEF PlainRests
  <2> QED
    BY <1>21, <2>1, <2>2 DEF DecideAsk, history
<1>22. CASE Stop
  <2>1. todo' = <<>> /\ UNCHANGED <<status, paid>>
    BY <1>22 DEF Stop, stored, history
  <2>2. CASE \A a \in AskIds : ~ Approving(a)
    BY <1>3, <1>5, <2>1, <2>2 DEF PlainRests
  <2>3. ASSUME NEW a \in AskIds, IsApproval(a) PROVE Book!Forget(a)
    <3>1. BookStatus = [status EXCEPT ![a] = "approved"]
      BY <2>3, ApprovalBook DEF IsApproval
    <3>2. BookStatus' = status
      BY <1>13, <2>1 DEF PlainRests
    <3> QED
      BY <2>1, <2>3, <3>1, <3>2 DEF IsApproval, TypeOK, Book!Forget, BookStatus
  <2> QED
    BY <2>2, <2>3, WhoIsApproving DEF Rest, IsCount, Book!Next
<1> QED
  BY <1>6, <1>8, <1>9, <1>10, <1>11, <1>14, <1>15, <1>16, <1>18, <1>19, <1>20, <1>21, <1>22
     DEF Next, Method, Statement, Book!Next

\* The ledger implements AskBook: for any tokens, keys, amounts and stops, an ask
\* is decided once and paid by its approval alone, and a stop can only forget it.
THEOREM KeepsTheBook == Spec => BookIsKept
<1>1. IInv /\ IInv' /\ [Next]_vars => [Book!Next]_<<BookStatus, paid>>
  BY BookStep
<1> QED
  BY <1>1, BookInit, Invariant, PTL DEF Spec, BookIsKept, Book!Spec, BookStatus
=============================================================================
