--------------------------- MODULE DeskOps_proofs ---------------------------
(***************************************************************************)
(* What holds of the desk's operations for any kids, handlers, keys and    *)
(* bounds: a handler is told the answer to its own operation, a grant said *)
(* to be given is on the clock, a link remembers no number that nobody     *)
(* waits for, and a grant that knew the kid's status was free to go.       *)
(***************************************************************************)
EXTENDS DeskOps, FiniteSetTheorems, SequenceTheorems, TLAPS

-----------------------------------------------------------------------------
(* The inductive invariant.                                                *)

Els(s) == {s[i] : i \in DOMAIN s}

Frames == {f \in [what : Whats, corr : Corrs, key : Keys \union {NoKey}] :
             f.what = "grant" => f.key \in Keys}
Answers == [corr : Corrs, kid : Kids, what : Whats, blocked : BOOLEAN]
ConnRec == [open : BOOLEAN, desk : BOOLEAN, out : Seq(Frames),
            back : Seq(Answers), pending : SUBSET Corrs]
ReqRec == [kind : {"", "grant", "list"}, kid : Kids \union {""},
           key : Keys \union {NoKey}, todo : Seq(Whats),
           corr : Corrs \union {NoCorr}, at : 0 .. Slots,
           blind : BOOLEAN, free : BOOLEAN]

Types ==
  /\ link \in [Kids -> 1 .. Slots] /\ live \in [Kids -> BOOLEAN]
  /\ conn \in [Conns -> ConnRec]
  /\ req \in [Handlers -> ReqRec]
  /\ said.what \in {"", "ok", "refused", "offline", "failed"}
  /\ blocked \in [Kids -> BOOLEAN]
  /\ credits \in [Kids -> [Keys -> Nat]]

\* A request has the rest of its operations before it, and a key if it grants.
GrantTodos == {<<"status", "grant">>, <<"grant">>}
ListTodos == {<<"status", "asks">>, <<"asks">>}
Sensible(r) ==
  \/ r.kind = "" /\ r.todo = <<>> /\ r.key = NoKey /\ r.corr = NoCorr
  \/ /\ r.kid \in Kids /\ (r.corr # NoCorr => r.at \in 1 .. Slots)
     /\ \/ r.kind = "grant" /\ r.todo \in GrantTodos /\ r.key \in Keys \ {NoKey}
        \/ r.kind = "list" /\ r.todo \in ListTodos /\ r.key = NoKey
Requests == \A h \in Handlers : Sensible(req[h])

\* What travels under the number of a handler is that handler's operation.
OutIsOwn ==
  \A c \in Conns, h \in Handlers : \A f \in Els(conn[c].out) :
      f.corr = req[h].corr =>
        Kid(c) = req[h].kid /\ f.what = Head(req[h].todo) /\ f.key = req[h].key
BackIsOwn ==
  \A c \in Conns, h \in Handlers : \A r \in Els(conn[c].back) :
      r.corr = req[h].corr =>
        /\ r.kid = req[h].kid /\ r.what = Head(req[h].todo)
        /\ r.what = "grant" => credits[req[h].kid][req[h].key] > 0
        /\ r.what = "status" /\ req[h].kind = "grant" /\ ~r.blocked => req[h].free

\* A grant's request remembers a moment without a block, and is past the status
\* only if there was one, or no status.
Freedom ==
  \A h \in Handlers : req[h].kind = "grant" =>
    /\ ~blocked[req[h].kid] => req[h].free
    /\ req[h].todo = <<"grant">> => req[h].blind \/ req[h].free

IInv == Types /\ Requests /\ OutIsOwn /\ BackIsOwn /\ NothingLeaks /\ Freedom
          /\ YesMeansCredited

-----------------------------------------------------------------------------
(* Sequences and numbers.                                                  *)

LEMMA NumberIsNone == NoCorr \notin Corrs
<1>1. Cardinality(Handlers) + MaxLate \in Nat
  BY FS_CardinalityType, DeskOpsAssumption
<1>. QED
  BY <1>1 DEF NoCorr, Corrs

LEMMA SlotFacts == 1 \in 1 .. Slots /\ 0 \in 0 .. Slots /\ 1 .. Slots \subseteq 0 .. Slots
<1>1. Slots \in Nat /\ Slots # 0
  BY DeskOpsAssumption
<1>. QED
  BY <1>1

LEMMA TodoFacts ==
  /\ Head(<<"status", "grant">>) = "status" /\ Tail(<<"status", "grant">>) = <<"grant">>
  /\ Head(<<"status", "asks">>) = "status" /\ Tail(<<"status", "asks">>) = <<"asks">>
  /\ Head(<<"grant">>) = "grant" /\ Head(<<"asks">>) = "asks"
  /\ Len(<<"status", "grant">>) = 2 /\ Len(<<"status", "asks">>) = 2
  /\ Len(<<"grant">>) = 1 /\ Len(<<"asks">>) = 1
  /\ <<"status", "grant">> # <<"grant">> /\ <<"status", "asks">> # <<"asks">>
  /\ GrantTodos \union ListTodos \subseteq Seq(Whats)
  /\ <<>> \notin GrantTodos \union ListTodos
BY DEF GrantTodos, ListTodos, Whats

LEMMA HeadIsIn ==
  ASSUME NEW S, NEW s \in Seq(S), s # <<>>
  PROVE  Head(s) \in Els(s) /\ Head(s) \in S
BY DEF Els

LEMMA TailIsPart ==
  ASSUME NEW S, NEW s \in Seq(S), s # <<>>
  PROVE  Tail(s) \in Seq(S) /\ Els(Tail(s)) \subseteq Els(s)
<1>1. Tail(s) \in Seq(S) /\ Len(Tail(s)) = Len(s) - 1
         /\ \A i \in 1 .. Len(Tail(s)) : Tail(s)[i] = s[i + 1]
  BY HeadTailProperties
<1>2. DOMAIN Tail(s) = 1 .. Len(Tail(s)) /\ DOMAIN s = 1 .. Len(s) /\ Len(s) \in Nat
  BY <1>1
<1>3. ASSUME NEW i \in DOMAIN Tail(s) PROVE Tail(s)[i] \in Els(s)
  <2>1. i + 1 \in DOMAIN s /\ Tail(s)[i] = s[i + 1]
    BY <1>1, <1>2
  <2>. QED
    BY <2>1 DEF Els
<1>. QED
  BY <1>1, <1>3 DEF Els

LEMMA AppendAdds ==
  ASSUME NEW S, NEW s \in Seq(S), NEW e \in S
  PROVE  Append(s, e) \in Seq(S) /\ Els(Append(s, e)) \subseteq Els(s) \union {e}
<1>1. Append(s, e) \in Seq(S) /\ Len(Append(s, e)) = Len(s) + 1
         /\ Append(s, e)[Len(s) + 1] = e
         /\ \A i \in 1 .. Len(s) : Append(s, e)[i] = s[i]
  BY AppendProperties
<1>2. DOMAIN Append(s, e) = 1 .. Len(s) + 1 /\ DOMAIN s = 1 .. Len(s) /\ Len(s) \in Nat
  BY <1>1
<1>3. ASSUME NEW i \in DOMAIN Append(s, e) PROVE Append(s, e)[i] \in Els(s) \union {e}
  <2>1. CASE i = Len(s) + 1
    BY <1>1, <2>1
  <2>2. CASE i \in 1 .. Len(s)
    BY <1>1, <1>2, <2>2 DEF Els
  <2>. QED
    BY <1>2, <2>1, <2>2
<1>. QED
  BY <1>1, <1>3 DEF Els

LEMMA NothingIsEmpty == ASSUME NEW S PROVE <<>> \in Seq(S) /\ Els(<<>>) = {}
BY DEF Els

-----------------------------------------------------------------------------
(* A handler that is answered, or answers.                                 *)

\* Each frame that travels has travelled before.
Fewer ==
  /\ conn' \in [Conns -> ConnRec]
  /\ \A c \in Conns : /\ Els(conn'[c].out) \subseteq Els(conn[c].out)
                      /\ Els(conn'[c].back) \subseteq Els(conn[c].back)

\* A handler ends with an answer to the parent, or has one operation less.
Settles(h) ==
  \/ \E w \in {"ok", "refused", "offline", "failed"} :
       /\ Say(h, w)
       /\ w = "ok" /\ req[h].key # NoKey => credits[req[h].kid][req[h].key] > 0
  \/ \E b \in BOOLEAN :
       /\ Proceed(h, b)
       /\ \/ req[h].todo = <<"status", "grant">> /\ (b \/ req[h].free)
          \/ req[h].todo = <<"status", "asks">>

\* A failed call settles its handler, and never as a grant that was given.
LEMMA FailSettles ==
  ASSUME Requests, NEW h \in Handlers, Busy(h),
         NEW why \in {"offline", "failed"}, Fail(h, why)
  PROVE  Settles(h)
<1>1. Sensible(req[h]) /\ req[h].kind # ""
  BY DEF Requests, Busy
<1>2. CASE req[h].todo = <<"status", "grant">>
  <2>1. req[h].kind = "grant" /\ GoOn(h, TRUE)
    BY <1>1, <1>2, TodoFacts DEF Sensible, ListTodos, Fail
  <2>2. Proceed(h, TRUE)
    <3>1. Len(req[h].todo) # 1
      BY <1>2, TodoFacts
    <3>. QED
      BY <2>1, <3>1, Zenon DEF GoOn
  <2>. QED
    BY <1>2, <2>2 DEF Settles
<1>3. CASE req[h].todo = <<"grant">>
  <2>1. Say(h, why)
    BY <1>3, TodoFacts DEF Fail
  <2>. QED
    BY <2>1 DEF Settles
<1>4. CASE req[h].todo = <<"status", "asks">>
  <2>1. Say(h, why)
    BY <1>1, <1>4, TodoFacts DEF Sensible, GrantTodos, Fail
  <2>. QED
    BY <2>1 DEF Settles
<1>5. CASE req[h].todo = <<"asks">>
  <2>1. req[h].key = NoKey /\ Say(h, "ok")
    BY <1>1, <1>5, TodoFacts DEF Sensible, GrantTodos, Fail, GoOn
  <2>. QED
    BY <2>1 DEF Settles
<1>. QED
  BY <1>1, <1>2, <1>3, <1>4, <1>5 DEF Sensible, GrantTodos, ListTodos

\* So does an answer to its own operation.
LEMMA TakesSettles ==
  ASSUME Requests, NEW h \in Handlers, Busy(h), NEW r, Takes(h, r),
         Head(req[h].todo) = "grant" => credits[req[h].kid][req[h].key] > 0,
         /\ Head(req[h].todo) = "status" /\ req[h].kind = "grant" /\ ~r.blocked
           => req[h].free
  PROVE  Settles(h)
<1>1. Sensible(req[h]) /\ req[h].kind # ""
  BY DEF Requests, Busy
<1>2. CASE Say(h, "refused")
  BY <1>2 DEF Settles
<1>3. CASE /\ GoOn(h, FALSE)
           /\ ~(Head(req[h].todo) = "status" /\ req[h].kind = "grant" /\ r.blocked)
  <2>1. CASE req[h].todo = <<"status", "grant">>
    <3>1. req[h].kind = "grant"
      BY <1>1, <2>1, TodoFacts DEF Sensible, ListTodos
    <3>2. req[h].free
      BY <1>3, <2>1, <3>1, TodoFacts
    <3>3. Proceed(h, FALSE)
      <4>1. Len(req[h].todo) # 1
        BY <2>1, TodoFacts
      <4>. QED
        BY <1>3, <4>1, Zenon DEF GoOn
    <3>. QED
      BY <2>1, <3>2, <3>3 DEF Settles
  <2>2. CASE req[h].todo = <<"grant">>
    BY <1>3, <2>2, TodoFacts DEF GoOn, Settles
  <2>3. CASE req[h].todo = <<"status", "asks">>
    <3>1. Proceed(h, FALSE)
      <4>1. Len(req[h].todo) # 1
        BY <2>3, TodoFacts
      <4>. QED
        BY <1>3, <4>1, Zenon DEF GoOn
    <3>. QED
      BY <2>3, <3>1 DEF Settles
  <2>4. CASE req[h].todo = <<"asks">>
    <3>1. req[h].key = NoKey
      BY <1>1, <2>4, TodoFacts DEF Sensible, GrantTodos
    <3>. QED
      BY <1>3, <2>4, <3>1, TodoFacts DEF GoOn, Settles
  <2>. QED
    BY <1>1, <2>1, <2>2, <2>3, <2>4 DEF Sensible, GrantTodos, ListTodos
<1>. QED
  BY <1>2, <1>3 DEF Takes

\* All of the invariant but NothingLeaks, which each step treats in its own way.
Rest == Types /\ Requests /\ OutIsOwn /\ BackIsOwn /\ Freedom /\ YesMeansCredited

\* A frame that travels has a number.
LEMMA FrameNumbers ==
  ASSUME Types, Fewer, NEW c \in Conns
  PROVE  /\ \A f \in Els(conn'[c].out) : f.corr # NoCorr
         /\ \A r \in Els(conn'[c].back) : r.corr # NoCorr
<1>1. conn'[c].out \in Seq(Frames) /\ conn'[c].back \in Seq(Answers)
  BY DEF Fewer, ConnRec
<1>2. ASSUME NEW S, NEW s \in Seq(S) PROVE Els(s) \subseteq S
  BY DEF Els
<1>3. Els(conn'[c].out) \subseteq Frames /\ Els(conn'[c].back) \subseteq Answers
  BY <1>1, <1>2
<1>. QED
  BY <1>3, NumberIsNone DEF Frames, Answers

LEMMA IdleIsRec ==
  Idle \in ReqRec /\ Sensible(Idle) /\ Idle.corr = NoCorr /\ Idle.kind = ""
<1>1. <<>> \in Seq(Whats)
  BY NothingIsEmpty
<1>. QED
  BY <1>1, DeskOpsAssumption DEF Idle, ReqRec, Sensible, NoCorr, NoKey

\* Nothing travels for a handler that does not wait.
LEMMA OthersOwn ==
  ASSUME IInv, Fewer, NEW h \in Handlers, req'[h].corr = NoCorr, UNCHANGED credits,
         \A g \in Handlers \ {h} : req'[g] = req[g]
  PROVE  OutIsOwn' /\ BackIsOwn'
<1>1. ASSUME NEW c \in Conns, NEW g \in Handlers,
             NEW f \in Els(conn'[c].out), f.corr = req'[g].corr
      PROVE  Kid(c) = req'[g].kid /\ f.what = Head(req'[g].todo) /\ f.key = req'[g].key
  <2>1. g # h
    BY <1>1, FrameNumbers DEF IInv
  <2>2. req'[g] = req[g] /\ f \in Els(conn[c].out)
    BY <1>1, <2>1 DEF Fewer
  <2>. QED
    BY <1>1, <2>2 DEF IInv, OutIsOwn
<1>2. ASSUME NEW c \in Conns, NEW g \in Handlers,
             NEW r \in Els(conn'[c].back), r.corr = req'[g].corr
      PROVE  /\ r.kid = req'[g].kid /\ r.what = Head(req'[g].todo)
             /\ r.what = "grant" => credits'[req'[g].kid][req'[g].key] > 0
             /\ r.what = "status" /\ req'[g].kind = "grant" /\ ~r.blocked => req'[g].free
  <2>1. g # h
    BY <1>2, FrameNumbers DEF IInv
  <2>2. req'[g] = req[g] /\ r \in Els(conn[c].back)
    BY <1>2, <2>1 DEF Fewer
  <2>. QED
    BY <1>2, <2>2 DEF IInv, BackIsOwn
<1>. QED
  BY <1>1, <1>2 DEF OutIsOwn, BackIsOwn, Els

LEMMA QuietStep ==
  ASSUME IInv, Fewer, said' = Silence, UNCHANGED <<req, blocked, credits>>,
         link' \in [Kids -> 1 .. Slots], live' \in [Kids -> BOOLEAN]
  PROVE  Rest'
<1>1. Types' /\ Requests' /\ Freedom' /\ YesMeansCredited'
  BY DEF IInv, Types, Fewer, Requests, Freedom, YesMeansCredited, Silence
<1>2. OutIsOwn'
  BY DEF IInv, OutIsOwn, Fewer
<1>3. BackIsOwn'
  BY DEF IInv, BackIsOwn, Fewer
<1>. QED
  BY <1>1, <1>2, <1>3 DEF Rest

LEMMA SettlesOne ==
  ASSUME Types, NEW h \in Handlers, Settles(h)
  PROVE  \A g \in Handlers \ {h} : req'[g] = req[g]
BY DEF Types, Settles, Say, Proceed

LEMMA SettledStep ==
  ASSUME IInv, Fewer, NEW h \in Handlers, Busy(h), Settles(h),
         UNCHANGED <<link, live, blocked, credits>>
  PROVE  Rest'
<1>1. Sensible(req[h]) /\ req[h].kind # "" /\ req[h] \in ReqRec /\ req \in [Handlers -> ReqRec]
  BY DEF IInv, Types, Requests, Busy
<1>2. ASSUME NEW w \in {"ok", "refused", "offline", "failed"}, Say(h, w),
             w = "ok" /\ req[h].key # NoKey => credits[req[h].kid][req[h].key] > 0
      PROVE  Rest'
  <2>1. Idle \in ReqRec /\ Sensible(Idle) /\ Idle.corr = NoCorr /\ Idle.kind = ""
    BY IdleIsRec
  <2>2. /\ req' \in [Handlers -> ReqRec] /\ req'[h] = Idle
        /\ \A g \in Handlers \ {h} : req'[g] = req[g]
    BY <1>1, <1>2, <2>1 DEF Say
  <2>3. Types'
    BY <1>2, <2>2 DEF IInv, Types, Fewer, Say
  <2>4. Requests' /\ Freedom'
    BY <2>1, <2>2 DEF IInv, Requests, Freedom
  <2>5. OutIsOwn' /\ BackIsOwn'
    BY <2>1, <2>2, OthersOwn
  <2>8. YesMeansCredited'
    BY <1>2 DEF YesMeansCredited, Say
  <2>. QED
    BY <2>3, <2>4, <2>5, <2>8 DEF Rest
<1>3. ASSUME NEW b \in BOOLEAN, Proceed(h, b),
             \/ req[h].todo = <<"status", "grant">> /\ (b \/ req[h].free)
             \/ req[h].todo = <<"status", "asks">>
      PROVE  Rest'
  <2>. DEFINE R == req'[h]
  <2>1. said' = Silence /\ \A g \in Handlers \ {h} : req'[g] = req[g]
    BY <1>1, <1>3 DEF Proceed
  <2>2. /\ R.corr = NoCorr /\ R.todo = Tail(req[h].todo) /\ R.blind = b
        /\ R.kind = req[h].kind /\ R.kid = req[h].kid /\ R.key = req[h].key
        /\ R.free = req[h].free
    BY <1>1, <1>3 DEF Proceed, ReqRec
  <2>3. req' \in [Handlers -> ReqRec]
    <3>1. Tail(req[h].todo) \in Seq(Whats)
      BY <1>3, TodoFacts DEF GrantTodos, ListTodos
    <3>2. NoCorr \in Corrs \union {NoCorr} /\ 0 \in 0 .. Slots
      BY DeskOpsAssumption
    <3>. QED
      BY <1>1, <1>3, <3>1, <3>2 DEF Proceed, ReqRec
  <2>4. Sensible(R) /\ (R.kind = "grant" => b \/ R.free)
    BY <1>1, <1>3, <2>2, TodoFacts DEF Sensible, GrantTodos, ListTodos
  <2>. HIDE DEF R
  <2>5. Types' /\ Requests' /\ YesMeansCredited'
    BY <2>1, <2>3, <2>4 DEF IInv, Types, Fewer, Requests, YesMeansCredited, Silence, R
  <2>6. Freedom'
    BY <2>1, <2>2, <2>4 DEF IInv, Freedom, R
  <2>7. OutIsOwn' /\ BackIsOwn'
    BY <2>1, <2>2, OthersOwn DEF R
  <2>. QED
    BY <2>5, <2>6, <2>7 DEF Rest
<1>. QED
  BY <1>2, <1>3 DEF Settles

-----------------------------------------------------------------------------
(* The links' numbers.                                                     *)

\* A number that goes with its handler leaves every other to its own.
LEMMA NumberGone ==
  ASSUME Types, NothingLeaks, NEW h \in Handlers, NEW x \in Conns,
         x = <<req[h].kid, req[h].at>>,
         \A g \in Handlers \ {h} : req'[g] = req[g],
         \A c \in Conns : conn'[c].pending \subseteq conn[c].pending,
         req[h].corr \notin conn'[x].pending
  PROVE  NothingLeaks'
<1>1. ASSUME NEW c \in Conns, NEW n \in conn'[c].pending
      PROVE  \E g \in Handlers : req'[g].corr = n /\ req'[g].kid = Kid(c)
                                                  /\ req'[g].at = c[2]
  <2>1. PICK g \in Handlers : req[g].corr = n /\ req[g].kid = Kid(c) /\ req[g].at = c[2]
    BY <1>1 DEF NothingLeaks
  <2>2. c = <<req[g].kid, req[g].at>>
    BY <2>1 DEF Conns, Kid
  <2>3. g # h
    BY <1>1, <2>1, <2>2
  <2>. QED
    BY <2>1, <2>3
<1>. QED
  BY <1>1 DEF NothingLeaks

\* A handler without a number has none to leave behind.
LEMMA NumberStays ==
  ASSUME Types, NothingLeaks,
         \A g \in Handlers : req[g].corr # NoCorr =>
            req'[g].corr = req[g].corr /\ req'[g].kid = req[g].kid /\ req'[g].at = req[g].at,
         \A c \in Conns : conn'[c].pending \subseteq conn[c].pending
  PROVE  NothingLeaks'
<1>1. ASSUME NEW c \in Conns, NEW n \in conn'[c].pending
      PROVE  \E g \in Handlers : req'[g].corr = n /\ req'[g].kid = Kid(c)
                                                  /\ req'[g].at = c[2]
  <2>1. PICK g \in Handlers : req[g].corr = n /\ req[g].kid = Kid(c) /\ req[g].at = c[2]
    BY <1>1 DEF NothingLeaks
  <2>2. n # NoCorr
    BY <1>1, NumberIsNone DEF Types, ConnRec
  <2>. QED
    BY <2>1, <2>2
<1>. QED
  BY <1>1 DEF NothingLeaks

-----------------------------------------------------------------------------
(* The steps.                                                              *)

LEMMA AttachStep == ASSUME IInv, NEW c \in Conns, Attach(c) PROVE IInv'
<1>1. Fewer /\ \A x \in Conns : conn'[x].pending \subseteq conn[x].pending
  <2>1. <<>> \in Seq(Frames) /\ <<>> \in Seq(Answers) /\ Els(<<>>) = {}
    BY NothingIsEmpty
  <2>. QED
    BY <2>1 DEF IInv, Types, ConnRec, Fewer, Attach, Closed
<1>2. Rest'
  <2>1. link' \in [Kids -> 1 .. Slots] /\ live' \in [Kids -> BOOLEAN]
    BY DEF IInv, Types, Attach, Conns, Kid
  <2>. QED
    BY <1>1, <2>1, QuietStep DEF Attach, kidVars
<1>3. NothingLeaks'
  BY <1>1, NumberStays DEF IInv, Attach
<1>. QED
  BY <1>2, <1>3 DEF Rest, IInv

LEMMA CutStep == ASSUME IInv, NEW c \in Conns, Cut(c) PROVE IInv'
<1>1. Fewer /\ \A x \in Conns : conn'[x].pending \subseteq conn[x].pending
  <2>1. PICK back \in {<<>>, conn[c].back} :
           conn' = [conn EXCEPT ![c].open = FALSE, ![c].out = <<>>, ![c].back = back]
    BY DEF Cut
  <2>2. /\ <<>> \in Seq(Frames) /\ Els(<<>>) = {}
        /\ back \in Seq(Answers) /\ Els(back) \subseteq Els(conn[c].back)
    <3>1. conn[c].back \in Seq(Answers)
      BY DEF IInv, Types, ConnRec
    <3>. QED
      BY <2>1, <3>1, NothingIsEmpty, Zenon
  <2>. QED
    BY <2>1, <2>2 DEF IInv, Types, ConnRec, Fewer
<1>2. Rest'
  BY <1>1, QuietStep DEF IInv, Types, Cut, kidVars
<1>3. NothingLeaks'
  BY <1>1, NumberStays DEF IInv, Cut
<1>. QED
  BY <1>2, <1>3 DEF Rest, IInv

LEMMA DropStep == ASSUME IInv, NEW c \in Conns, Drop(c) PROVE IInv'
<1>1. Fewer /\ \A x \in Conns : conn'[x].pending \subseteq conn[x].pending
  <2>1. <<>> \in Seq(Frames) /\ <<>> \in Seq(Answers) /\ Els(<<>>) = {}
    BY NothingIsEmpty
  <2>. QED
    BY <2>1 DEF IInv, Types, ConnRec, Fewer, Drop, Closed
<1>2. Rest'
  <2>1. link' \in [Kids -> 1 .. Slots] /\ live' \in [Kids -> BOOLEAN]
    BY DEF IInv, Types, Drop, Conns, Kid
  <2>. QED
    BY <1>1, <2>1, QuietStep DEF Drop, kidVars
<1>3. NothingLeaks'
  BY <1>1, NumberStays DEF IInv, Drop
<1>. QED
  BY <1>2, <1>3 DEF Rest, IInv

LEMMA RequestStep ==
  ASSUME IInv, NEW h \in Handlers, NEW k \in Kids, NEW kind \in {"grant", "list"},
         NEW key \in Keys \union {NoKey}, Request(h, k, kind, key)
  PROVE  IInv'
<1>. DEFINE R == req'[h]
           free == kind = "grant" /\ ~blocked[k]
           asked == [Idle EXCEPT !.kind = kind, !.kid = k, !.key = key,
                                 !.todo = Ops(kind), !.free = free]
<1>1. /\ Ops(kind) \in Seq(Whats) /\ Ops(kind) # <<"grant">>
      /\ kind = "grant" => Ops(kind) \in GrantTodos
      /\ kind = "list" => Ops(kind) \in ListTodos
  BY TodoFacts DEF Ops, GrantTodos, ListTodos
<1>2. free \in BOOLEAN /\ Idle \in ReqRec
  BY IdleIsRec
<1>3. req' = [req EXCEPT ![h] = asked] /\ req \in [Handlers -> ReqRec]
      /\ (kind = "grant") = (key # NoKey)
  BY DEF Request, IInv, Types
<1>. HIDE DEF free
<1>4. /\ asked \in ReqRec /\ asked.corr = NoCorr /\ asked.kind = kind /\ asked.kid = k
      /\ asked.todo = Ops(kind) /\ asked.free = free /\ asked.key = key
  BY <1>1, <1>2 DEF ReqRec, Idle
<1>. HIDE DEF asked
<1>5. /\ req' \in [Handlers -> ReqRec] /\ R = asked
      /\ \A g \in Handlers \ {h} : req'[g] = req[g]
  BY <1>3, <1>4
<1>6. /\ Sensible(R) /\ R.corr = NoCorr /\ R.kid = k
      /\ R.todo # <<"grant">> /\ (R.kind = "grant" /\ ~blocked[k] => R.free)
  BY <1>1, <1>3, <1>4, <1>5 DEF Sensible, free
<1>. HIDE DEF R
<1>7. Types'
  BY <1>5 DEF IInv, Types, Request, Silence, kidVars
<1>8. Fewer
  BY DEF IInv, Types, Request, Fewer
<1>9. OutIsOwn' /\ BackIsOwn'
  BY <1>5, <1>6, <1>8, OthersOwn DEF Request, kidVars, R
<1>10. Requests' /\ Freedom'
  BY <1>5, <1>6 DEF IInv, Requests, Freedom, Request, kidVars, R
<1>11. YesMeansCredited'
  BY DEF YesMeansCredited, Request, Silence
<1>12. NothingLeaks'
  <2>1. req[h].corr = NoCorr
    BY DEF IInv, Requests, Sensible, Request, Busy
  <2>. QED
    BY <1>5, <2>1, NumberStays DEF IInv, Request
<1>. QED
  BY <1>7, <1>9, <1>10, <1>11, <1>12 DEF IInv

\* Only a grant that waits has a grant for its next operation.
LEMMA OnlyGrants ==
  ASSUME IInv, NEW h \in Handlers, Waits(h), Head(req[h].todo) = "grant"
  PROVE  req[h].kid \in Kids /\ req[h].key \in Keys
BY TodoFacts DEF IInv, Requests, Sensible, GrantTodos, ListTodos, Waits

LEMMA KidBlocksStep == ASSUME IInv, NEW k \in Kids, KidBlocks(k) PROVE IInv'
<1>1. /\ req' \in [Handlers -> ReqRec]
      /\ \A h \in Handlers :
           /\ req'[h].kind = req[h].kind /\ req'[h].kid = req[h].kid
           /\ req'[h].key = req[h].key /\ req'[h].todo = req[h].todo
           /\ req'[h].corr = req[h].corr /\ req'[h].at = req[h].at
           /\ req'[h].blind = req[h].blind
           /\ req[h].free => req'[h].free
           /\ req[h].kid = k /\ blocked[k] /\ req[h].key # NoKey => req'[h].free
  <2>1. req \in [Handlers -> ReqRec] /\ DOMAIN req' = Handlers
    BY DEF KidBlocks, IInv, Types
  <2>2. ASSUME NEW h \in Handlers
        PROVE  /\ req'[h] \in ReqRec
               /\ req'[h].kind = req[h].kind /\ req'[h].kid = req[h].kid
               /\ req'[h].key = req[h].key /\ req'[h].todo = req[h].todo
               /\ req'[h].corr = req[h].corr /\ req'[h].at = req[h].at
               /\ req'[h].blind = req[h].blind
               /\ req[h].free => req'[h].free
               /\ req[h].kid = k /\ blocked[k] /\ req[h].key # NoKey => req'[h].free
    <3>1. CASE req[h].kid = k /\ blocked[k] /\ req[h].key # NoKey
      <4>1. req'[h] = [req[h] EXCEPT !.free = TRUE]
        BY <3>1 DEF KidBlocks
      <4>. QED
        BY <2>1, <4>1 DEF ReqRec
    <3>2. CASE ~(req[h].kid = k /\ blocked[k] /\ req[h].key # NoKey)
      <4>1. req'[h] = req[h]
        BY <3>2 DEF KidBlocks
      <4>. QED
        BY <2>1, <3>2, <4>1
    <3>. QED
      BY <3>1, <3>2
  <2>3. req' \in [Handlers -> ReqRec]
    BY <2>1, <2>2 DEF KidBlocks
  <2>. QED
    BY <2>2, <2>3
<1>2. blocked' = [blocked EXCEPT ![k] = ~@] /\ blocked \in [Kids -> BOOLEAN]
  BY DEF KidBlocks, IInv, Types
<1>3. Types'
  BY <1>1, <1>2 DEF KidBlocks, IInv, Types, Silence
<1>4. Requests'
  <2>1. ASSUME NEW h \in Handlers PROVE Sensible(req'[h])
    <3>1. Sensible(req[h])
      BY DEF IInv, Requests
    <3>. QED
      BY <1>1, <3>1 DEF Sensible
  <2>. QED
    BY <2>1 DEF Requests
<1>5. OutIsOwn' /\ NothingLeaks'
  BY <1>1 DEF KidBlocks, IInv, OutIsOwn, NothingLeaks
<1>6. BackIsOwn'
  BY <1>1 DEF KidBlocks, IInv, BackIsOwn
<1>7. Freedom'
  <2>1. ASSUME NEW h \in Handlers, req'[h].kind = "grant"
        PROVE  /\ ~blocked'[req'[h].kid] => req'[h].free
               /\ req'[h].todo = <<"grant">> => req'[h].blind \/ req'[h].free
    <3>1. req[h].kind = "grant" /\ req[h].kid \in Kids /\ req[h].key # NoKey
      BY <1>1, <2>1 DEF IInv, Requests, Sensible
    <3>2. /\ ~blocked[req[h].kid] => req[h].free
          /\ req[h].todo = <<"grant">> => req[h].blind \/ req[h].free
      BY <3>1 DEF IInv, Freedom
    <3>. QED
      BY <1>1, <1>2, <3>1, <3>2
  <2>. QED
    BY <2>1 DEF Freedom
<1>8. YesMeansCredited'
  BY DEF KidBlocks, YesMeansCredited, Silence
<1>. QED
  BY <1>3, <1>4, <1>5, <1>6, <1>7, <1>8 DEF IInv

LEMMA HandlerSettles ==
  ASSUME IInv, NEW h \in Handlers, Busy(h), Settles(h), req[h].corr = NoCorr,
         UNCHANGED <<link, live, conn, blocked, credits>>
  PROVE  IInv'
<1>1. Fewer
  BY DEF IInv, Types, Fewer
<1>2. Rest'
  BY <1>1, SettledStep
<1>3. NothingLeaks'
  BY SettlesOne, NumberStays DEF IInv
<1>. QED
  BY <1>2, <1>3 DEF Rest, IInv

LEMMA CallFailsStep ==
  ASSUME IInv, NEW h \in Handlers, CallOffline(h) \/ CallBreaks(h)
  PROVE  IInv'
<1>1. /\ Busy(h) /\ req[h].corr = NoCorr
      /\ Fail(h, "offline") \/ Fail(h, "failed")
      /\ UNCHANGED <<link, live, conn, blocked, credits>>
  BY DEF CallOffline, CallBreaks, Waits, kidVars
<1>2. Settles(h)
  BY <1>1, FailSettles DEF IInv
<1>. QED
  BY <1>1, <1>2, HandlerSettles

LEMMA WaitsAt ==
  ASSUME IInv, NEW h \in Handlers, Waits(h)
  PROVE  Busy(h) /\ <<req[h].kid, req[h].at>> \in Conns
BY DEF IInv, Requests, Sensible, Waits, Busy, Conns

LEMMA TimeoutStep == ASSUME IInv, NEW h \in Handlers, Timeout(h) PROVE IInv'
<1>. DEFINE x == <<req[h].kid, req[h].at>>
<1>1. Busy(h) /\ x \in Conns
  BY WaitsAt DEF Timeout
<1>2. Settles(h)
  BY <1>1, FailSettles DEF Timeout, IInv
<1>3. conn' = [conn EXCEPT ![x].pending = @ \ {req[h].corr}]
  BY DEF Timeout, DropPending
<1>. HIDE DEF x
<1>4. /\ Fewer /\ req[h].corr \notin conn'[x].pending
      /\ \A c \in Conns : conn'[c].pending \subseteq conn[c].pending
  BY <1>1, <1>3 DEF IInv, Types, ConnRec, Fewer
<1>5. Rest'
  BY <1>1, <1>2, <1>4, SettledStep DEF Timeout, kidVars
<1>6. NothingLeaks'
  BY <1>1, <1>2, <1>4, SettlesOne, NumberGone DEF IInv, x
<1>. QED
  BY <1>5, <1>6 DEF Rest, IInv

LEMMA DeliverStep == ASSUME IInv, NEW c \in Conns, Deliver(c) PROVE IInv'
<1>. DEFINE r == Head(conn[c].back)
<1>1. /\ r \in Els(conn[c].back) /\ Tail(conn[c].back) \in Seq(Answers)
      /\ Els(Tail(conn[c].back)) \subseteq Els(conn[c].back)
      /\ conn[c] \in ConnRec
  <2>1. conn[c].back \in Seq(Answers) /\ conn[c].back # <<>> /\ conn[c] \in ConnRec
    BY DEF IInv, Types, ConnRec, Deliver
  <2>. QED
    BY <2>1, HeadIsIn, TailIsPart
<1>2. UNCHANGED <<link, live, blocked, credits>>
  BY DEF Deliver, kidVars
<1>. HIDE DEF r
<1>3. ASSUME NEW k \in Kids, NEW h \in Handlers,
             req[h].corr = r.corr, req[h].kid = k, req[h].at = link[k],
             r.corr \in conn[<<k, link[k]>>].pending, Takes(h, r),
             conn' = [conn EXCEPT ![c].back = Tail(@),
                                  ![<<k, link[k]>>].pending = @ \ {r.corr}]
      PROVE  IInv'
  <2>. DEFINE x == <<k, link[k]>>
  <2>1. x \in Conns /\ x = <<req[h].kid, req[h].at>>
    BY <1>3 DEF IInv, Types, Conns
  <2>2. Waits(h) /\ Busy(h)
    <3>1. r.corr \in Corrs
      BY <1>3, <2>1 DEF IInv, Types, ConnRec
    <3>. QED
      BY <1>3, <3>1, NumberIsNone, WaitsAt DEF Waits
  <2>3. Settles(h)
    <3>1. /\ r.kid = req[h].kid /\ r.what = Head(req[h].todo)
          /\ r.what = "grant" => credits[req[h].kid][req[h].key] > 0
          /\ r.what = "status" /\ req[h].kind = "grant" /\ ~r.blocked => req[h].free
      BY <1>1, <1>3 DEF IInv, BackIsOwn
    <3>. QED
      BY <1>3, <2>2, <3>1, TakesSettles DEF IInv
  <2>. HIDE DEF x
  <2>4. /\ Fewer /\ req[h].corr \notin conn'[x].pending
        /\ \A y \in Conns : conn'[y].pending \subseteq conn[y].pending
    BY <1>1, <1>3, <2>1 DEF IInv, Types, ConnRec, Fewer, x
  <2>5. Rest'
    BY <1>2, <2>2, <2>3, <2>4, SettledStep
  <2>6. NothingLeaks'
    BY <2>1, <2>3, <2>4, SettlesOne, NumberGone DEF IInv
  <2>. QED
    BY <2>5, <2>6 DEF Rest, IInv
<1>4. ASSUME conn' = [conn EXCEPT ![c].back = Tail(@)], said' = Silence, UNCHANGED req
      PROVE  IInv'
  <2>1. Fewer /\ \A y \in Conns : conn'[y].pending \subseteq conn[y].pending
    BY <1>1, <1>4 DEF IInv, Types, ConnRec, Fewer
  <2>2. Rest'
    BY <1>2, <1>4, <2>1, QuietStep DEF IInv, Types
  <2>3. NothingLeaks'
    BY <1>4, <2>1, NumberStays DEF IInv
  <2>. QED
    BY <2>2, <2>3 DEF Rest, IInv
<1>. QED
  BY <1>3, <1>4 DEF Deliver, r

LEMMA CallStep == ASSUME IInv, NEW h \in Handlers, Call(h) PROVE IInv'
<1>. DEFINE k == req[h].kid
            x == <<k, link[k]>>
<1>1. PICK n \in Corrs \ (Awaited \union UnderWay) :
        /\ req' = [req EXCEPT ![h].corr = n, ![h].at = link[k]]
        /\ conn' = [conn EXCEPT
               ![x].pending = @ \union {n},
               ![x].out = IF conn[x].open
                          THEN Append(@, Frame(Head(req[h].todo), n, req[h].key))
                          ELSE @]
  BY DEF Call, NextCorr, Lowest
<1>2. /\ req[h] \in ReqRec /\ Sensible(req[h]) /\ req[h].kind # "" /\ req[h].corr = NoCorr
      /\ k \in Kids /\ link[k] \in 1 .. Slots /\ x \in Conns /\ conn[x] \in ConnRec
  BY DEF Call, Busy, Waits, IInv, Types, Requests, Sensible, Conns
<1>. DEFINE f == Frame(Head(req[h].todo), n, req[h].key)
<1>3. f \in Frames
  BY <1>2, TodoFacts DEF Frame, Frames, Sensible, GrantTodos, ListTodos, Whats, ReqRec
<1>4. f.corr = n /\ f.what = Head(req[h].todo) /\ f.key = req[h].key
  BY DEF Frame
<1>. HIDE DEF x, f
<1>5. Append(conn[x].out, f) \in Seq(Frames)
      /\ Els(Append(conn[x].out, f)) \subseteq Els(conn[x].out) \union {f}
  <2>1. conn[x].out \in Seq(Frames)
    BY <1>2 DEF ConnRec
  <2>. QED
    BY <1>3, <2>1, AppendAdds
<1>6. /\ conn' \in [Conns -> ConnRec]
      /\ \A c \in Conns : /\ conn'[c].back = conn[c].back
                          /\ c # x => conn'[c].out = conn[c].out /\ conn'[c].pending = conn[c].pending
      /\ Els(conn'[x].out) \subseteq Els(conn[x].out) \union {f}
      /\ conn'[x].pending = conn[x].pending \union {n}
  <2>. DEFINE out == IF conn[x].open THEN Append(conn[x].out, f) ELSE conn[x].out
  <2>1. conn' = [conn EXCEPT ![x].pending = @ \union {n}, ![x].out = out]
    BY <1>1 DEF f, x
  <2>2. out \in Seq(Frames) /\ Els(out) \subseteq Els(conn[x].out) \union {f}
    BY <1>2, <1>5 DEF ConnRec
  <2>. HIDE DEF out
  <2>3. conn \in [Conns -> ConnRec]
    BY DEF IInv, Types
  <2>. QED
    BY <1>2, <2>1, <2>2, <2>3 DEF ConnRec
<1>7. /\ req' \in [Handlers -> ReqRec] /\ \A g \in Handlers \ {h} : req'[g] = req[g]
      /\ req'[h].corr = n /\ req'[h].at = link[k]
      /\ req'[h].kind = req[h].kind /\ req'[h].kid = k /\ req'[h].key = req[h].key
      /\ req'[h].todo = req[h].todo /\ req'[h].blind = req[h].blind
      /\ req'[h].free = req[h].free
  <2>1. /\ req \in [Handlers -> ReqRec] /\ link[k] \in 0 .. Slots
        /\ n \in Corrs \union {NoCorr}
    <3>1. link[k] \in 0 .. Slots
      BY <1>2, SlotFacts
    <3>2. n \in Corrs \union {NoCorr}
      BY <1>1
    <3>. QED
      BY <3>1, <3>2 DEF IInv, Types
  <2>. HIDE DEF k
  <2>2. req' \in [Handlers -> ReqRec]
    <3>. DEFINE call == [req[h] EXCEPT !.corr = n, !.at = link[k]]
    <3>1. call \in ReqRec
      BY <2>1 DEF ReqRec
    <3>2. req' = [req EXCEPT ![h] = call]
      BY <1>1, <2>1
    <3>. HIDE DEF call
    <3>. QED
      BY <2>1, <3>1, <3>2
  <2>3. /\ req'[h].corr = n /\ req'[h].at = link[k]
        /\ req'[h].kind = req[h].kind /\ req'[h].kid = req[h].kid
        /\ req'[h].key = req[h].key /\ req'[h].todo = req[h].todo
        /\ req'[h].blind = req[h].blind /\ req'[h].free = req[h].free
    BY <1>1, <2>1 DEF ReqRec
  <2>4. \A g \in Handlers \ {h} : req'[g] = req[g]
    BY <1>1, <2>1
  <2>. QED
    BY <2>2, <2>3, <2>4 DEF k
<1>8. \A c \in Conns : /\ \A e \in Els(conn[c].out) : e.corr # n
                       /\ \A e \in Els(conn[c].back) : e.corr # n
  BY <1>1, NumberIsNone DEF UnderWay, Els
<1>9. \A g \in Handlers : req[g].corr # n
  BY <1>1, NumberIsNone DEF Awaited
<1>10. Types'
  BY <1>6, <1>7 DEF IInv, Types, Call, Silence, kidVars
<1>11. Requests'
  <2>1. Sensible(req'[h])
    BY <1>2, <1>7 DEF Sensible
  <2>2. \A g \in Handlers \ {h} : Sensible(req'[g])
    BY <1>7 DEF IInv, Requests
  <2>. QED
    BY <2>1, <2>2 DEF Requests
<1>12. OutIsOwn'
  <2>1. ASSUME NEW c \in Conns, NEW g \in Handlers,
               NEW e \in Els(conn'[c].out), e.corr = req'[g].corr
        PROVE  Kid(c) = req'[g].kid /\ e.what = Head(req'[g].todo) /\ e.key = req'[g].key
    <3>1. CASE e \in Els(conn[c].out)
      <4>1. g # h /\ req'[g] = req[g]
        BY <1>7, <1>8, <2>1, <3>1
      <4>. QED
        BY <2>1, <3>1, <4>1 DEF IInv, OutIsOwn
    <3>2. CASE c = x /\ e = f
      <4>1. g = h
        BY <1>4, <1>7, <1>9, <2>1, <3>2
      <4>. QED
        BY <1>4, <1>7, <3>2, <4>1 DEF x, Kid
    <3>. QED
      BY <1>6, <2>1, <3>1, <3>2
  <2>. QED
    BY <2>1 DEF OutIsOwn
<1>13. BackIsOwn'
  <2>1. ASSUME NEW c \in Conns, NEW g \in Handlers,
               NEW r \in Els(conn[c].back), r.corr = req'[g].corr
        PROVE  g # h /\ req'[g] = req[g]
    BY <1>7, <1>8, <2>1
  <2>2. credits' = credits
    BY DEF Call, kidVars
  <2>. QED
    BY <1>6, <2>1, <2>2 DEF IInv, BackIsOwn
<1>14. NothingLeaks'
  <2>1. ASSUME NEW c \in Conns, NEW m \in conn'[c].pending
        PROVE  \E g \in Handlers : req'[g].corr = m /\ req'[g].kid = Kid(c)
                                                    /\ req'[g].at = c[2]
    <3>1. CASE m \in conn[c].pending
      <4>1. PICK g \in Handlers : req[g].corr = m /\ req[g].kid = Kid(c) /\ req[g].at = c[2]
        BY <3>1 DEF IInv, NothingLeaks
      <4>2. m # NoCorr
        BY <3>1, NumberIsNone DEF IInv, Types, ConnRec
      <4>3. g # h
        BY <1>2, <4>1, <4>2
      <4>. QED
        BY <1>7, <4>1, <4>3
    <3>2. CASE c = x /\ m = n
      BY <1>7, <3>2 DEF x, Kid
    <3>. QED
      BY <1>6, <2>1, <3>1, <3>2
  <2>. QED
    BY <2>1 DEF NothingLeaks
<1>15. Freedom'
  BY <1>7 DEF IInv, Freedom, Call, kidVars
<1>16. YesMeansCredited'
  BY DEF YesMeansCredited, Call, Silence
<1>. QED
  BY <1>10, <1>11, <1>12, <1>13, <1>14, <1>15, <1>16 DEF IInv

LEMMA KidServesStep == ASSUME IInv, NEW c \in Conns, KidServes(c) PROVE IInv'
<1>. DEFINE k == Kid(c)
            f == Head(conn[c].out)
            answer == [corr |-> f.corr, kid |-> k, what |-> f.what,
                       blocked |-> f.what = "status" /\ blocked[k]]
<1>1. /\ conn' = [conn EXCEPT ![c].out = Tail(@), ![c].back = Append(@, answer)]
      /\ Apply(k, f) /\ said' = Silence /\ UNCHANGED <<link, live, req>>
      /\ conn[c].out # <<>> /\ k \in Kids
  BY DEF KidServes, Conns, Kid
<1>2. conn[c].out \in Seq(Frames) /\ conn[c].back \in Seq(Answers)
  BY DEF IInv, Types, ConnRec
<1>3. /\ f \in Els(conn[c].out) /\ f \in Frames /\ Tail(conn[c].out) \in Seq(Frames)
      /\ Els(Tail(conn[c].out)) \subseteq Els(conn[c].out)
  BY <1>1, <1>2, HeadIsIn, TailIsPart
<1>. HIDE DEF f, k
<1>4. /\ answer.corr = f.corr /\ answer.kid = k /\ answer.what = f.what
      /\ answer.what = "status" => answer.blocked = blocked[k]
  BY <1>1 DEF IInv, Types
<1>5. answer \in Answers
  <2>1. (f.what = "status" /\ blocked[k]) \in BOOLEAN
    OBVIOUS
  <2>. QED
    BY <1>1, <1>3, <2>1 DEF Answers, Frames
<1>. HIDE DEF answer
<1>6. /\ Append(conn[c].back, answer) \in Seq(Answers)
      /\ Els(Append(conn[c].back, answer)) \subseteq Els(conn[c].back) \union {answer}
  BY <1>2, <1>5, AppendAdds
<1>7. /\ conn' \in [Conns -> ConnRec]
      /\ \A x \in Conns : /\ Els(conn'[x].out) \subseteq Els(conn[x].out)
                          /\ conn'[x].pending = conn[x].pending
                          /\ x # c => conn'[x].back = conn[x].back
      /\ Els(conn'[c].back) \subseteq Els(conn[c].back) \union {answer}
  BY <1>1, <1>3, <1>6 DEF IInv, Types, ConnRec
<1>8. /\ blocked' = blocked /\ credits' \in [Kids -> [Keys -> Nat]]
      /\ \A y \in Kids, g \in Keys : credits[y][g] > 0 => credits'[y][g] > 0
      /\ f.what = "grant" => credits'[k][f.key] > 0
  <2>1. credits \in [Kids -> [Keys -> Nat]]
    BY DEF IInv, Types
  <2>2. f.what = "grant" => f.key \in Keys
    BY <1>3 DEF Frames
  <2>3. blocked' = blocked
    BY <1>1 DEF Apply
  <2>4. CASE f.what = "grant"
    <3>1. CASE credits[k][f.key] > 0
      BY <1>1, <2>1, <2>3, <2>4, <3>1 DEF Apply, CreditOnce
    <3>2. CASE ~(credits[k][f.key] > 0)
      <4>1. credits' = [credits EXCEPT ![k][f.key] = @ + 1]
        BY <1>1, <2>4, <3>2 DEF Apply, CreditOnce
      <4>2. credits[k][f.key] \in Nat
        BY <1>1, <2>1, <2>2, <2>4
      <4>3. credits' \in [Kids -> [Keys -> Nat]]
        BY <1>1, <2>1, <2>2, <2>4, <4>1, <4>2
      <4>4. \A y \in Kids, g \in Keys : credits[y][g] > 0 => credits'[y][g] > 0
        BY <1>1, <2>1, <2>2, <2>4, <4>1, <4>2
      <4>. QED
        BY <1>1, <2>1, <2>2, <2>3, <2>4, <4>1, <4>2, <4>3, <4>4
    <3>. QED
      BY <3>1, <3>2
  <2>5. CASE f.what # "grant"
    BY <1>1, <2>1, <2>3, <2>5 DEF Apply
  <2>. QED
    BY <2>4, <2>5
<1>9. Types' /\ Requests' /\ Freedom' /\ YesMeansCredited'
  BY <1>1, <1>7, <1>8 DEF IInv, Types, Requests, Waits, Freedom, YesMeansCredited, Silence
<1>10. OutIsOwn' /\ NothingLeaks'
  BY <1>1, <1>7 DEF IInv, OutIsOwn, NothingLeaks
<1>11. BackIsOwn'
  <2>1. ASSUME NEW x \in Conns, NEW h \in Handlers,
               NEW r \in Els(conn'[x].back), r.corr = req[h].corr
        PROVE  /\ r.kid = req[h].kid /\ r.what = Head(req[h].todo)
               /\ r.what = "grant" => credits'[req[h].kid][req[h].key] > 0
               /\ r.what = "status" /\ req[h].kind = "grant" /\ ~r.blocked => req[h].free
    <3>1. CASE r \in Els(conn[x].back)
      <4>1. /\ r.kid = req[h].kid /\ r.what = Head(req[h].todo)
            /\ r.what = "grant" => credits[req[h].kid][req[h].key] > 0
            /\ r.what = "status" /\ req[h].kind = "grant" /\ ~r.blocked => req[h].free
        BY <2>1, <3>1 DEF IInv, BackIsOwn
      <4>2. r.what = "grant" => req[h].kid \in Kids /\ req[h].key \in Keys
        <5>1. r \in Answers
          <6>1. conn[x].back \in Seq(Answers)
            BY DEF IInv, Types, ConnRec
          <6>. QED
            BY <3>1, <6>1 DEF Els
        <5>2. Waits(h)
          BY <2>1, <5>1, NumberIsNone DEF Answers, Waits
        <5>. QED
          BY <4>1, <5>2, OnlyGrants
      <4>. QED
        BY <1>8, <4>1, <4>2
    <3>2. CASE x = c /\ r = answer
      <4>1. k = req[h].kid /\ f.what = Head(req[h].todo) /\ f.key = req[h].key
        BY <1>3, <1>4, <2>1, <3>2 DEF IInv, OutIsOwn, k
      <4>2. ~blocked[k] /\ req[h].kind = "grant" => req[h].free
        BY <4>1 DEF IInv, Freedom
      <4>. QED
        BY <1>4, <1>8, <3>2, <4>1, <4>2
    <3>. QED
      BY <1>7, <2>1, <3>1, <3>2
  <2>. QED
    BY <1>1, <2>1 DEF BackIsOwn
<1>. QED
  BY <1>9, <1>10, <1>11 DEF IInv

-----------------------------------------------------------------------------
(* The theorems.                                                           *)

LEMMA InitHolds == Init => IInv
<1>. SUFFICES ASSUME Init PROVE IInv
  OBVIOUS
<1>1. <<>> \in Seq(Frames) /\ <<>> \in Seq(Answers) /\ Els(<<>>) = {}
  BY NothingIsEmpty
<1>2. Closed \in ConnRec /\ Closed.out = <<>> /\ Closed.back = <<>> /\ Closed.pending = {}
  BY <1>1 DEF Closed, ConnRec
<1>3. \A c \in Conns : conn[c] = Closed
  BY DEF Init
<1>4. \A h \in Handlers : req[h] = Idle
  BY DEF Init
<1>5. Types
  <2>1. conn \in [Conns -> ConnRec] /\ req \in [Handlers -> ReqRec]
    BY <1>2, IdleIsRec DEF Init
  <2>2. /\ link \in [Kids -> 1 .. Slots] /\ live \in [Kids -> BOOLEAN]
        /\ said.what = "" /\ blocked \in [Kids -> BOOLEAN]
    <3>1. link \in [Kids -> 1 .. Slots]
      BY SlotFacts DEF Init
    <3>. QED
      BY <3>1 DEF Init, Silence
  <2>3. credits \in [Kids -> [Keys -> Nat]]
    BY DEF Init
  <2>. QED
    BY <2>1, <2>2, <2>3 DEF Types
<1>6. Requests /\ Freedom
  BY <1>4, IdleIsRec DEF Requests, Freedom
<1>7. OutIsOwn /\ BackIsOwn /\ NothingLeaks
  BY <1>1, <1>2, <1>3 DEF OutIsOwn, BackIsOwn, NothingLeaks
<1>8. YesMeansCredited
  BY DEF Init, YesMeansCredited, Silence
<1>. QED
  BY <1>5, <1>6, <1>7, <1>8 DEF IInv

LEMMA StepHolds == IInv /\ [Next]_vars => IInv'
<1>. SUFFICES ASSUME IInv, [Next]_vars PROVE IInv'
  OBVIOUS
<1>1. ASSUME NEW c \in Conns, Attach(c) \/ Cut(c) \/ ConnStep(c) \/ KidServes(c)
      PROVE  IInv'
  BY <1>1, AttachStep, CutStep, DropStep, DeliverStep, KidServesStep DEF ConnStep
<1>2. ASSUME NEW h \in Handlers, HandlerStep(h) PROVE IInv'
  BY <1>2, CallFailsStep, CallStep, TimeoutStep DEF HandlerStep
<1>3. CASE UNCHANGED vars
  <2>1. Types' /\ Requests' /\ Freedom' /\ YesMeansCredited'
    BY <1>3 DEF vars, IInv, Types, Requests, Freedom, YesMeansCredited
  <2>2. OutIsOwn' /\ BackIsOwn' /\ NothingLeaks'
    BY <1>3 DEF vars, IInv, OutIsOwn, BackIsOwn, NothingLeaks
  <2>. QED
    BY <2>1, <2>2 DEF IInv
<1>. QED
  BY <1>1, <1>2, <1>3, KidBlocksStep, RequestStep DEF Next

THEOREM IInvHolds == Spec => []IInv
<1>. QED
  BY InitHolds, StepHolds, PTL DEF Spec

\* The shapes: a request that is busy has operations left, an answer a number.
THEOREM TypeCorrect == Spec => []TypeOK
<1>1. IInv => TypeOK
  <2>. SUFFICES ASSUME IInv PROVE TypeOK
    OBVIOUS
  <2>1. ASSUME NEW c \in Conns
        PROVE  /\ DOMAIN conn[c] = DOMAIN Closed
               /\ conn[c].pending \subseteq Corrs
               /\ \A i \in DOMAIN conn[c].out : conn[c].out[i].what \in Whats
               /\ \A i \in DOMAIN conn[c].back : conn[c].back[i].corr \in Corrs
    <3>1. conn[c] \in ConnRec
      BY DEF IInv, Types
    <3>2. DOMAIN conn[c] = DOMAIN Closed
      BY <3>1 DEF ConnRec, Closed
    <3>3. conn[c].out \in Seq(Frames) /\ conn[c].back \in Seq(Answers)
      BY <3>1 DEF ConnRec
    <3>4. /\ \A i \in DOMAIN conn[c].out : conn[c].out[i] \in Frames
          /\ \A i \in DOMAIN conn[c].back : conn[c].back[i] \in Answers
      BY <3>3
    <3>. QED
      BY <3>1, <3>2, <3>4 DEF ConnRec, Frames, Answers
  <2>2. ASSUME NEW h \in Handlers
        PROVE  /\ req[h].todo \in Seq(Whats) /\ Busy(h) = (req[h].todo # <<>>)
               /\ req[h].corr \in Corrs \union {NoCorr}
    <3>1. req[h] \in ReqRec /\ Sensible(req[h])
      BY DEF IInv, Types, Requests
    <3>2. (req[h].kind # "") <=> (req[h].todo # <<>>)
      BY <3>1, TodoFacts DEF Sensible
    <3>. QED
      BY <3>1, <3>2 DEF ReqRec, Busy
  <2>. QED
    BY <2>1, <2>2 DEF IInv, Types, TypeOK
<1>. QED
  BY <1>1, IInvHolds, PTL

\* A handler is told its own kid's answer to its own operation, after any
\* timeouts, late answers and new connections (callSession, deliver).
THEOREM AnswersAreOwn == Spec => []AnswerIsOwn
<1>1. IInv => AnswerIsOwn
  <2>. SUFFICES ASSUME IInv, NEW c \in Conns, NEW h \in Handlers, conn[c].back # <<>>,
                       Head(conn[c].back).corr = req[h].corr
                PROVE  /\ Head(conn[c].back).kid = req[h].kid
                       /\ Head(conn[c].back).what = Head(req[h].todo)
    BY DEF AnswerIsOwn
  <2>1. conn[c].back \in Seq(Answers)
    BY DEF IInv, Types, ConnRec
  <2>. QED
    BY <2>1, HeadIsIn DEF IInv, BackIsOwn
<1>. QED
  BY <1>1, IInvHolds, PTL

\* A grant that a parent is told of as given is on the kid's clock (serveHTTP).
THEOREM YesIsTrue == Spec => []YesMeansCredited
<1>1. IInv => YesMeansCredited
  BY DEF IInv
<1>. QED
  BY <1>1, IInvHolds, PTL

\* A link waits for no number that no handler waits for (callSession).
THEOREM NumbersAreTakenBack == Spec => []NothingLeaks
<1>1. IInv => NothingLeaks
  BY DEF IInv
<1>. QED
  BY <1>1, IInvHolds, PTL

\* No grant goes to a kid that was blocked from the parent's click on, unless
\* the desk got no status (refuseGrant).
THEOREM GrantsAreFree == Spec => GrantWasFree
<1>1. IInv /\ [Next]_vars
        => [\A h \in Handlers : Call(h) /\ Head(req[h].todo) = "grant"
                                  => req[h].blind \/ req[h].free]_vars
  <2>. SUFFICES ASSUME IInv, NEW h \in Handlers, Call(h), Head(req[h].todo) = "grant"
                PROVE  req[h].blind \/ req[h].free
    OBVIOUS
  <2>1. req[h].kind = "grant" /\ req[h].todo = <<"grant">>
    BY TodoFacts DEF IInv, Requests, Sensible, GrantTodos, ListTodos, Call, Busy
  <2>. QED
    BY <2>1 DEF IInv, Freedom
<1>. QED
  BY <1>1, IInvHolds, PTL DEF Spec, GrantWasFree
=============================================================================
