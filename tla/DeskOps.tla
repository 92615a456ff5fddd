------------------------------ MODULE DeskOps ------------------------------
(***************************************************************************)
(* What the desk does with a kid's link (daemon/internal/desk/desk.go,     *)
(* grant_block.go; daemon/internal/dial/apply.go).  A handler of the       *)
(* desk's HTTP server turns a parent's request into one to three           *)
(* operations; each is written to the link under a number of its own and   *)
(* waited for, five seconds at most.  The kid serves its connection one    *)
(* frame after the other.  One goroutine for each connection reads the     *)
(* answers and looks for the link that waits for the number.               *)
(*                                                                         *)
(* How a connection comes to be, with the Accept that gives the kid its    *)
(* token, is module Session's; here it is attached, cut, and later dropped *)
(* by the desk, and the kid has its token.                                 *)
(***************************************************************************)
EXTENDS Integers, FiniteSets, Sequences

CONSTANTS
    Kids, Handlers,
    Keys,     \* idempotency keys of grants
    Slots,    \* bound: connections of a kid the desk has not dropped yet
    MaxLate   \* bound: operations under way that nobody waits for any more

ASSUME DeskOpsAssumption ==
    /\ IsFiniteSet(Handlers) /\ Slots \in Nat \ {0} /\ MaxLate \in Nat

Conns == Kids \X (1 .. Slots)
Kid(c) == c[1]

NoCorr == 0
NoKey == "-"

\* Registry.corr counts up and numbers are compared for equality only: a number
\* is any that is not in use, and these are enough of them.
Corrs == 1 .. Cardinality(Handlers) + MaxLate

VARIABLES
    link,      \* link[k]: the slot of r.links[k]
    live,      \* r.links[k].live
    conn,      \* a connection: its ends, its frames, and the link's pending
    req,       \* the request of a handler, and the operations left of it
    said,      \* the answer a parent gets by this very step
    blocked,   \* the kid is locked, at bedtime, on a break or out of time
    credits    \* credits[k][g]: how often the grant with key g was credited

kidVars == <<blocked, credits>>
vars == <<link, live, conn, req, said, blocked, credits>>

-----------------------------------------------------------------------------
Closed == [open |-> FALSE, desk |-> FALSE, out |-> <<>>,
           back |-> <<>>, pending |-> {}]

\* what a request asks of the kid, in order (serveHTTP, refuseGrant, Household);
\* the listing reads the look as it reads the asks
Ops(kind) == CASE kind = "grant" -> <<"status", "grant">>
               [] kind = "list" -> <<"status", "asks">>

Idle == [kind |-> "", kid |-> "", key |-> NoKey, todo |-> <<>>, corr |-> NoCorr,
         at |-> 0, blind |-> FALSE, free |-> FALSE]

Silence == [kid |-> "", key |-> NoKey, what |-> ""]

Frame(what, corr, key) == [what |-> what, corr |-> corr, key |-> key]

Busy(h) == req[h].kind # ""
Waits(h) == req[h].corr # NoCorr

Awaited == {req[h].corr : h \in Handlers} \ {NoCorr}
UnderWay == {f.corr : f \in UNION {{conn[c].out[i] : i \in DOMAIN conn[c].out}
                                   \union {conn[c].back[i] : i \in DOMAIN conn[c].back}
                                       : c \in Conns}} \ {NoCorr}
Late == UnderWay \ Awaited

\* The numbers are alike, so the lowest that is not in use stands for the next;
\* Corrs has always one (MaxLate).
Lowest(ns) == {n \in ns : \A m \in ns : n <= m}

\* mutant: each link has a counter of its own
CorrOfLink(c) == Lowest(Corrs \ conn[c].pending)

\* Registry.corr
NextCorr(c) == Lowest(Corrs \ (Awaited \union UnderWay))

Init ==
    /\ link = [k \in Kids |-> 1] /\ live = [k \in Kids |-> FALSE]
    /\ conn = [c \in Conns |-> Closed]
    /\ req = [h \in Handlers |-> Idle]
    /\ said = Silence
    /\ blocked = [k \in Kids |-> FALSE]
    /\ credits = [k \in Kids |-> [g \in Keys |-> 0]]

-----------------------------------------------------------------------------
(* The connection.                                                         *)

\* OnOffer, OnResume: attach
Attach(c) ==
    /\ conn[c] = Closed
    /\ \A n \in 1 .. Slots : ~conn[<<Kid(c), n>>].open
    /\ conn' = [conn EXCEPT ![c] = [Closed EXCEPT !.open = TRUE, !.desk = TRUE]]
    /\ link' = [link EXCEPT ![Kid(c)] = c[2]]
    /\ live' = [live EXCEPT ![Kid(c)] = TRUE]
    /\ said' = Silence
    /\ UNCHANGED <<req, kidVars>>

\* The network goes; what the desk has received already it may still read.
Cut(c) ==
    /\ conn[c].open
    /\ \E back \in {<<>>, conn[c].back} :
         conn' = [conn EXCEPT ![c].open = FALSE, ![c].out = <<>>, ![c].back = back]
    /\ said' = Silence
    /\ UNCHANGED <<link, live, req, kidVars>>

\* OnDrop, detach: by the kid, whichever its link is now
Drop(c) ==
    /\ conn[c].desk /\ ~conn[c].open /\ conn[c].back = <<>>
    /\ conn' = [conn EXCEPT ![c] = Closed]
    /\ live' = [live EXCEPT ![Kid(c)] = FALSE]
    /\ said' = Silence
    /\ UNCHANGED <<link, req, kidVars>>

-----------------------------------------------------------------------------
(* The kid: OnOp.                                                          *)

\* Bank.Grant: a key that has a row is a replay
CreditOnce(k, g) ==
    credits' = IF credits[k][g] > 0 THEN credits
               ELSE [credits EXCEPT ![k][g] = @ + 1]

\* What Apply, or the bank behind Proxy, does for an operation.  A parent's lock
\* or hold changes what KidBlocks changes; the other operations read.
Apply(k, f) ==
    /\ IF f.what = "grant" THEN CreditOnce(k, f.key) ELSE UNCHANGED credits
    /\ UNCHANGED blocked

\* ServeConn on the kid: the next operation, and its answer
KidServes(c) ==
    LET k == Kid(c)
        f == Head(conn[c].out)
        answer == [corr |-> f.corr, kid |-> k, what |-> f.what,
                   blocked |-> f.what = "status" /\ blocked[k]]
    IN  /\ conn[c].out # <<>>
        /\ Apply(k, f)
        /\ conn' = [conn EXCEPT
               ![c].out = Tail(@),
               ![c].back = Append(@, answer)]
        /\ said' = Silence
        /\ UNCHANGED <<link, live, req>>

\* Its own buttons, the clock and the calendar, a parent at the panel.
KidBlocks(k) ==
    /\ blocked' = [blocked EXCEPT ![k] = ~@]
    /\ req' = [h \in Handlers |-> IF req[h].kid = k /\ blocked[k] /\ req[h].key # NoKey
                                  THEN [req[h] EXCEPT !.free = TRUE] ELSE req[h]]
    /\ said' = Silence
    /\ UNCHANGED <<link, live, conn, credits>>

-----------------------------------------------------------------------------
(* The desk's handlers.                                                    *)

Request(h, k, kind, key) ==
    /\ ~Busy(h) /\ (kind = "grant") = (key # NoKey)
    /\ req' = [req EXCEPT ![h] = [Idle EXCEPT !.kind = kind, !.kid = k, !.key = key,
                                              !.todo = Ops(kind), !.free = kind = "grant" /\ ~blocked[k]]]
    /\ said' = Silence
    /\ UNCHANGED <<link, live, conn, kidVars>>

Say(h, what) ==
    /\ said' = [kid |-> req[h].kid, key |-> req[h].key, what |-> what]
    /\ req' = [req EXCEPT ![h] = Idle]

\* one operation less to go
Proceed(h, blind) ==
    /\ req' = [req EXCEPT ![h].todo = Tail(@), ![h].corr = NoCorr,
                          ![h].at = 0, ![h].blind = blind]
    /\ said' = Silence

\* mutant: one operation more
GoOnPast(h, blind) ==
    IF req[h].todo = <<>> THEN Say(h, "ok")
    ELSE Proceed(h, blind)

\* the next operation, or the answer when there is none left
GoOn(h, blind) ==
    IF Len(req[h].todo) = 1 THEN Say(h, "ok")
    ELSE Proceed(h, blind)

\* A call that came to nothing.  Without a status a grant is left to try, and
\* a listing does without the asks or the look.
Fail(h, why) ==
    LET op == Head(req[h].todo)
        blind == op = "status" /\ req[h].kind = "grant"
    IN  IF op = "asks" \/ blind THEN GoOn(h, blind) ELSE Say(h, why)

\* mutant: a link that is gone counts as an empty answer, which is a 200
CallOfflineIsOk(h) ==
    /\ Busy(h) /\ ~Waits(h) /\ ~live[req[h].kid]
    /\ GoOn(h, TRUE)
    /\ UNCHANGED <<link, live, conn, kidVars>>

\* Call, with no link
CallOffline(h) ==
    /\ Busy(h) /\ ~Waits(h) /\ ~live[req[h].kid]
    /\ Fail(h, "offline")
    /\ UNCHANGED <<link, live, conn, kidVars>>

\* callSession: the number is waited for before the frame is written
Call(h) ==
    LET k == req[h].kid
        c == <<k, link[k]>>
    IN  /\ Busy(h) /\ ~Waits(h) /\ live[k]
        /\ \E n \in NextCorr(c) :
             /\ req' = [req EXCEPT ![h].corr = n, ![h].at = link[k]]
             /\ conn' = [conn EXCEPT
                    ![c].pending = @ \union {n},
                    ![c].out = IF conn[c].open
                               THEN Append(@, Frame(Head(req[h].todo), n, req[h].key))
                               ELSE @]
        /\ said' = Silence
        /\ UNCHANGED <<link, live, kidVars>>

\* callSession, when the write fails
CallBreaks(h) ==
    LET k == req[h].kid IN
    /\ Busy(h) /\ ~Waits(h) /\ live[k] /\ ~conn[<<k, link[k]>>].open
    /\ Fail(h, "failed")
    /\ UNCHANGED <<link, live, conn, kidVars>>

DropPending(h) ==
    conn' = [conn EXCEPT ![<<req[h].kid, req[h].at>>].pending = @ \ {req[h].corr}]

\* mutant: the number stays behind
TimeoutKeeps(h) ==
    /\ Waits(h) /\ Cardinality(Late) < MaxLate
    /\ Fail(h, "failed")
    /\ UNCHANGED <<link, live, conn, kidVars>>

\* after opWait
Timeout(h) ==
    /\ Waits(h) /\ Cardinality(Late) < MaxLate
    /\ DropPending(h)
    /\ Fail(h, "failed")
    /\ UNCHANGED <<link, live, kidVars>>

\* mutant: whatever the status says
TakesAnyStatus(h, r) == GoOn(h, FALSE)

\* What serveHTTP, refuseGrant and Household make of an answer.
Takes(h, r) ==
    IF Head(req[h].todo) = "status" /\ req[h].kind = "grant" /\ r.blocked
    THEN Say(h, "refused")
    ELSE GoOn(h, FALSE)

\* deliver: the first link that waits for the number
Deliver(c) ==
    LET r == Head(conn[c].back) IN
    /\ conn[c].desk /\ conn[c].back # <<>>
    /\ \/ \E k \in Kids, h \in Handlers :
            /\ r.corr \in conn[<<k, link[k]>>].pending
            /\ req[h].corr = r.corr /\ req[h].kid = k /\ req[h].at = link[k]
            /\ conn' = [conn EXCEPT ![c].back = Tail(@),
                                    ![<<k, link[k]>>].pending = @ \ {r.corr}]
            /\ Takes(h, r)
       \/ /\ \A k \in Kids : r.corr \notin conn[<<k, link[k]>>].pending
          /\ conn' = [conn EXCEPT ![c].back = Tail(@)]
          /\ said' = Silence
          /\ UNCHANGED req
    /\ UNCHANGED <<link, live, kidVars>>

-----------------------------------------------------------------------------
HandlerStep(h) == CallOffline(h) \/ Call(h) \/ CallBreaks(h) \/ Timeout(h)

ConnStep(c) == Drop(c) \/ Deliver(c)

Next ==
    \/ \E c \in Conns : Attach(c) \/ Cut(c) \/ ConnStep(c) \/ KidServes(c)
    \/ \E k \in Kids : KidBlocks(k)
    \/ \E h \in Handlers : HandlerStep(h)
    \/ \E h \in Handlers, k \in Kids, kind \in {"grant", "list"},
          key \in Keys \union {NoKey} : Request(h, k, kind, key)

Spec == Init /\ [][Next]_vars

-----------------------------------------------------------------------------
(* Properties.                                                             *)

\* Every variable has its type.
Whats == {"status", "grant", "asks"}
TypeOK ==
    /\ link \in [Kids -> 1 .. Slots] /\ live \in [Kids -> BOOLEAN]
    /\ \A c \in Conns :
         /\ DOMAIN conn[c] = DOMAIN Closed
         /\ conn[c].pending \subseteq Corrs
         /\ \A i \in DOMAIN conn[c].out : conn[c].out[i].what \in Whats
         /\ \A i \in DOMAIN conn[c].back : conn[c].back[i].corr \in Corrs
    /\ \A h \in Handlers :
         /\ req[h].todo \in Seq(Whats) /\ (Busy(h) = (req[h].todo # <<>>))
         /\ req[h].corr \in Corrs \union {NoCorr}
    /\ said.what \in {"", "ok", "refused", "offline", "failed"}
    /\ blocked \in [Kids -> BOOLEAN]
    /\ credits \in [Kids -> [Keys -> Nat]]

\* What a handler is told is the kid's answer to its own operation, whatever
\* came late before it, and from whichever link (callSession, deliver).
AnswerIsOwn ==
    \A c \in Conns, h \in Handlers :
        conn[c].back # <<>> /\ Waits(h) /\ Head(conn[c].back).corr = req[h].corr
            => /\ Head(conn[c].back).kid = req[h].kid
               /\ Head(conn[c].back).what = Head(req[h].todo)

\* A grant the parent is told of as given is on the kid's clock (serveHTTP).
YesMeansCredited ==
    said.key # NoKey /\ said.what = "ok" => credits[said.kid][said.key] > 0

\* A link remembers only numbers that somebody waits for (TestCallTimeoutDropsPending).
NothingLeaks ==
    \A c \in Conns : \A n \in conn[c].pending :
        \E h \in Handlers : req[h].corr = n /\ req[h].kid = Kid(c) /\ req[h].at = c[2]

\* The desk sends no grant to a kid that was locked, in bed or on a break from
\* the parent's click on, unless it got no status (refuseGrant,
\* TestDeskGrantRefusesWhileLocked).
GrantWasFree ==
    [][\A h \in Handlers :
          Call(h) /\ Head(req[h].todo) = "grant" => req[h].blind \/ req[h].free]_vars
=============================================================================
