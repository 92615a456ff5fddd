---------------------------- MODULE Session_proofs ----------------------------
(***************************************************************************)
(* For any kids, desks, connections, cuts and restarts: a kid that serves  *)
(* a desk has that desk, its ticket and the pair token on its disk.  What  *)
(* it takes is that a ticket names one desk and one kid, though a desk     *)
(* writes back household files it has read earlier.  At the other end, the *)
(* connection of a kid that serves is the one the desk keeps for its       *)
(* ticket, or one that the desk has closed; and every variable has its     *)
(* type.                                                                   *)
(***************************************************************************)
EXTENDS Session, TLAPS

Records == [Kids -> Tickets \union {NoTicket}]
ConnRec == [desk : Desks \union {NoDesk}, kidEnd : BOOLEAN, deskEnd : BOOLEAN,
            at : Stages \union {""}, ticket : Tickets \union {NoTicket},
            says : Answers \union {""}, mine : BOOLEAN, file : Records \union {<<>>}]

Types ==
  /\ session \in [Kids -> [desk : Desks \union {NoDesk}, ticket : Tickets \union {NoTicket}]]
  /\ pairFile \in [Kids -> BOOLEAN]
  /\ household \in [Desks -> Records]
  /\ conn \in [Conns -> ConnRec]
  /\ issued \in 0 .. MaxTickets

\* A connection with an open end is to a desk, and has the file it has read.
OpenHasDesk ==
  \A c \in Conns : conn[c].kidEnd \/ conn[c].deskEnd =>
    /\ conn[c].desk \in Desks
    /\ conn[c].deskEnd /\ conn[c].at = "loaded" => conn[c].file \in Records

OneDial ==
  \A c, e \in Conns : conn[c].kidEnd /\ conn[e].kidEnd /\ Kid(c) = Kid(e) => c = e

\* Where the ticket t of desk d for kid k may be.
InFile(c, k, t) == conn[c].deskEnd /\ conn[c].at = "loaded" /\ conn[c].file[k] = t
InAccept(c, k, t) == Kid(c) = k /\ conn[c].says = "accept" /\ conn[c].ticket = t
Holds(d, k, t) ==
  \/ household[d][k] = t
  \/ session[k].desk = d /\ session[k].ticket = t
  \/ \E c \in Conns : conn[c].desk = d /\ (InFile(c, k, t) \/ InAccept(c, k, t))

TicketIsOnes ==
  \A d, e \in Desks, k, m \in Kids, t \in Tickets :
    Holds(d, k, t) => t <= issued /\ (Holds(e, m, t) => d = e /\ k = m)

\* What the kid has on its disk at each stage of a connection it is on.
SessionHasDesk == \A k \in Kids : session[k].ticket # NoTicket => session[k].desk \in Desks
CameWith ==
  \A c \in Conns : conn[c].kidEnd /\ conn[c].at = "hello" =>
    conn[c].ticket = session[Kid(c)].ticket
Agreed(c) ==
  \/ conn[c].at \in {"took", "paired", "up"}
  \/ conn[c].says = "ok" /\ conn[c].at \in {"saved", "answer"}
AgreedIsSaved ==
  \A c \in Conns : conn[c].kidEnd /\ Agreed(c) =>
    session[Kid(c)] = [desk |-> conn[c].desk, ticket |-> conn[c].ticket]
UpHasToken == \A c \in Conns : Up(c) => pairFile[Kid(c)]

IInv ==
  /\ Types /\ OpenHasDesk /\ OneDial /\ TicketIsOnes
  /\ SessionHasDesk /\ CameWith /\ AgreedIsSaved /\ UpHasToken

-----------------------------------------------------------------------------
LEMMA Facts ==
  /\ NoTicket \notin Tickets
  /\ \A c \in Conns : Kid(c) \in Kids
  /\ Closed \in ConnRec /\ ~ Closed.kidEnd /\ ~ Closed.deskEnd
  /\ Closed.at = "" /\ Closed.says = "" /\ Closed.desk = NoDesk
  BY SessionAssumption DEF NoTicket, Tickets, Conns, Kid, Closed, ConnRec

\* A step that puts no ticket where it was not.
LEMMA NoNewTicket ==
  ASSUME TicketIsOnes, issued' = issued,
         \A d \in Desks, k \in Kids, t \in Tickets : Holds(d, k, t)' => Holds(d, k, t)
  PROVE  TicketIsOnes'
  BY DEF TicketIsOnes

\* A step that changes the record of one connection, and of that one no more
\* than where it is and which ends are open.
LEMMA OneConn ==
  ASSUME IInv, NEW c \in Conns, NEW n \in ConnRec, Set(c, n),
         UNCHANGED <<session, household, issued>>,
         pairFile' \in [Kids -> BOOLEAN], \A k \in Kids : pairFile[k] => pairFile'[k],
         \* n is the connection with an end less, or further on
         n.desk = conn[c].desk,
         n.kidEnd => conn[c].kidEnd, n.deskEnd => conn[c].deskEnd,
         n.kidEnd \/ n.deskEnd => n.desk \in Desks,
         n.says = "accept" => conn[c].says = "accept" /\ n.ticket = conn[c].ticket,
         n.deskEnd /\ n.at = "loaded" =>
           \/ conn[c].at = "loaded" /\ n.file = conn[c].file
           \/ n.file = household[n.desk],
         n.kidEnd /\ n.at = "hello" => conn[c].at = "hello" /\ n.ticket = conn[c].ticket,
         n.kidEnd /\ (n.at \in {"took", "paired", "up"}
                       \/ (n.says = "ok" /\ n.at \in {"saved", "answer"})) =>
           session[Kid(c)] = [desk |-> n.desk, ticket |-> n.ticket],
         n.kidEnd /\ n.at = "up" => pairFile'[Kid(c)]
  PROVE  IInv'
<1>. DEFINE m == conn'[c]
<1>1. /\ conn' = [conn EXCEPT ![c] = IF n.kidEnd \/ n.deskEnd THEN n ELSE Closed]
      /\ m = n \/ m = Closed
      /\ \A e \in Conns \ {c} : conn'[e] = conn[e]
  BY DEF Set, IInv, Types
<1>2. UNCHANGED <<session, household, issued>>
  OBVIOUS
<1>3. Types' /\ OpenHasDesk' /\ OneDial'
  BY <1>1, <1>2, Facts DEF IInv, Types, OpenHasDesk, OneDial
<1>4. ASSUME NEW d \in Desks, NEW k \in Kids, NEW t \in Tickets, Holds(d, k, t)'
      PROVE  Holds(d, k, t)
  <2>1. ASSUME NEW e \in Conns, conn'[e].desk = d, InFile(e, k, t)' \/ InAccept(e, k, t)'
        PROVE  Holds(d, k, t)
    <3>1. CASE e # c
      <4>1. conn[e].desk = d /\ (InFile(e, k, t) \/ InAccept(e, k, t))
        BY <1>1, <2>1, <3>1 DEF InFile, InAccept
      <4>. QED
        BY <4>1 DEF Holds
    <3>2. CASE e = c
      <4>1. m = n
        BY <1>1, <2>1, <3>2, Facts DEF InFile, InAccept
      <4>2. conn[c].desk = d
        BY <2>1, <3>2, <4>1
      <4>3. CASE InAccept(e, k, t)'
        <5>1. InAccept(c, k, t)
          BY <3>2, <4>1, <4>3 DEF InAccept
        <5>. QED
          BY <4>2, <5>1 DEF Holds
      <4>4. CASE InFile(e, k, t)'
        <5>1. n.deskEnd /\ n.at = "loaded" /\ n.file[k] = t
          BY <3>2, <4>1, <4>4 DEF InFile
        <5>2. CASE conn[c].at = "loaded" /\ n.file = conn[c].file
          BY <4>2, <5>1, <5>2 DEF InFile, Holds
        <5>3. CASE n.file = household[n.desk]
          BY <4>2, <5>1, <5>3 DEF Holds
        <5>. QED
          BY <5>1, <5>2, <5>3
      <4>. QED
        BY <2>1, <4>3, <4>4
    <3>. QED
      BY <3>1, <3>2
  <2>. QED
    BY <1>2, <1>4, <2>1 DEF Holds
<1>5. TicketIsOnes'
  BY <1>2, <1>4, NoNewTicket DEF IInv
<1>6. SessionHasDesk'
  BY <1>2 DEF IInv, SessionHasDesk
<1>7. ASSUME NEW e \in Conns, conn'[e].kidEnd
      PROVE  /\ conn'[e].at = "hello" => conn'[e].ticket = session[Kid(e)].ticket
             /\ Agreed(e)' => session[Kid(e)] = [desk |-> conn'[e].desk, ticket |-> conn'[e].ticket]
             /\ conn'[e].at = "up" => pairFile'[Kid(e)]
  <2>1. CASE e # c
    <3>1. conn'[e] = conn[e]
      BY <1>1, <2>1
    <3>. QED
      BY <1>7, <3>1, Facts DEF IInv, CameWith, AgreedIsSaved, Agreed, UpHasToken, Up
  <2>2. CASE e = c
    <3>1. conn'[e] = n /\ n.kidEnd
      BY <1>1, <1>7, <2>2, Facts
    <3>2. n.at = "hello" => n.ticket = session[Kid(e)].ticket
      BY <2>2, <3>1 DEF IInv, CameWith
    <3>. QED
      BY <2>2, <3>1, <3>2 DEF Agreed
  <2>. QED
    BY <2>1, <2>2
<1>8. CameWith' /\ AgreedIsSaved' /\ UpHasToken'
  BY <1>2, <1>7 DEF CameWith, AgreedIsSaved, UpHasToken, Up
<1>. QED
  BY <1>3, <1>5, <1>6, <1>8 DEF IInv

-----------------------------------------------------------------------------
(* The handlers that move one connection on                                *)

\* What OneConn asks of a step that closes the kid's end.
LEMMA KidLeaves ==
  ASSUME IInv, NEW c \in Conns, conn[c].kidEnd,
         Set(c, [conn[c] EXCEPT !.kidEnd = FALSE]),
         UNCHANGED <<session, pairFile, household, issued>>
  PROVE  IInv'
<1>. DEFINE n == [conn[c] EXCEPT !.kidEnd = FALSE]
<1>1. /\ n \in ConnRec /\ ~ n.kidEnd /\ n.desk = conn[c].desk /\ n.deskEnd = conn[c].deskEnd
      /\ n.at = conn[c].at /\ n.says = conn[c].says /\ n.ticket = conn[c].ticket
      /\ n.file = conn[c].file
  BY DEF IInv, Types, ConnRec
<1>2. n.desk \in Desks
  BY <1>1 DEF IInv, OpenHasDesk
<1>3. Set(c, n)
  OBVIOUS
<1>4. pairFile' \in [Kids -> BOOLEAN] /\ \A k \in Kids : pairFile[k] => pairFile'[k]
  BY DEF IInv, Types
<1>. HIDE DEF n
<1>. QED
  BY <1>1, <1>2, <1>3, <1>4, OneConn

\* What it asks of a step of a kid that serves the desk it agreed with.
LEMMA KidMoves ==
  ASSUME IInv, NEW c \in Conns, NEW at \in {"paired", "up"},
         conn[c].kidEnd, Agreed(c),
         Set(c, [conn[c] EXCEPT !.at = at]),
         UNCHANGED <<session, household, issued>>,
         pairFile' \in [Kids -> BOOLEAN], \A k \in Kids : pairFile[k] => pairFile'[k],
         at = "up" => pairFile'[Kid(c)]
  PROVE  IInv'
<1>. DEFINE n == [conn[c] EXCEPT !.at = at]
<1>1. /\ n \in ConnRec /\ n.kidEnd = conn[c].kidEnd /\ n.desk = conn[c].desk
      /\ n.deskEnd = conn[c].deskEnd
      /\ n.at = at /\ n.says = conn[c].says /\ n.ticket = conn[c].ticket
  BY DEF IInv, Types, ConnRec, Stages
<1>2. n.desk \in Desks
  BY <1>1 DEF IInv, OpenHasDesk
<1>3. session[Kid(c)] = [desk |-> n.desk, ticket |-> n.ticket]
  BY <1>1 DEF IInv, AgreedIsSaved
<1>4. Set(c, n)
  OBVIOUS
<1>. HIDE DEF n
<1>. QED
  BY <1>1, <1>2, <1>3, <1>4, OneConn

LEMMA KidSteps ==
  ASSUME IInv, NEW c \in Conns,
         KidPair(c) \/ KidWritePair(c) \/ KidResumed(c) \/ KidDrop(c) \/ Cut(c)
  PROVE  IInv'
<1>1. pairFile \in [Kids -> BOOLEAN] /\ Kid(c) \in Kids
  BY Facts DEF IInv, Types
<1>2. CASE KidPair(c)
  <2>1. /\ conn[c].kidEnd /\ Agreed(c)
        /\ UNCHANGED <<session, pairFile, household, issued>>
        /\ \/ Set(c, [conn[c] EXCEPT !.at = "up"]) /\ pairFile[Kid(c)]
           \/ Set(c, [conn[c] EXCEPT !.kidEnd = FALSE])
           \/ Set(c, [conn[c] EXCEPT !.at = "paired"])
    BY <1>2 DEF KidPair, Agreed
  <2>. QED
    BY <1>1, <2>1, KidMoves, KidLeaves
<1>3. CASE KidWritePair(c)
  <2>1. /\ conn[c].kidEnd /\ Agreed(c)
        /\ UNCHANGED <<session, household, issued>>
        /\ Set(c, [conn[c] EXCEPT !.at = "up"])
        /\ pairFile' = [pairFile EXCEPT ![Kid(c)] = TRUE]
    BY <1>3 DEF KidWritePair, Agreed
  <2>2. /\ pairFile' \in [Kids -> BOOLEAN] /\ pairFile'[Kid(c)]
        /\ \A k \in Kids : pairFile[k] => pairFile'[k]
    BY <1>1, <2>1
  <2>. QED
    BY <2>1, <2>2, KidMoves
<1>4. CASE KidResumed(c)
  <2>1. /\ conn[c].kidEnd /\ Agreed(c)
        /\ UNCHANGED <<session, pairFile, household, issued>>
        /\ \/ Set(c, [conn[c] EXCEPT !.at = "up"]) /\ pairFile[Kid(c)]
           \/ Set(c, [conn[c] EXCEPT !.kidEnd = FALSE])
    BY <1>4 DEF KidResumed, Agreed, files
  <2>. QED
    BY <1>1, <2>1, KidMoves, KidLeaves
<1>5. CASE KidDrop(c)
  BY <1>5, KidLeaves DEF KidDrop, files
<1>6. CASE Cut(c)
  BY <1>6, KidLeaves DEF Cut, files
<1>. QED
  BY <1>2, <1>3, <1>4, <1>5, <1>6

\* The desk's answer, and its own end.
LEMMA DeskSteps ==
  ASSUME IInv, NEW c \in Conns,
         DeskOffer(c) \/ DeskResume(c) \/ DeskAttach(c) \/ DeskDrop(c)
  PROVE  IInv'
<1>0. /\ conn[c] \in ConnRec /\ conn[c].deskEnd /\ conn[c].desk \in Desks
      /\ UNCHANGED <<session, pairFile, household, issued>>
      /\ pairFile' \in [Kids -> BOOLEAN] /\ (\A k \in Kids : pairFile[k] => pairFile'[k])
  BY DEF DeskOffer, DeskResume, DeskAttach, DeskDrop, files, IInv, Types, OpenHasDesk
<1>1. ASSUME NEW n, n = Answer(conn[c], "reject"), Set(c, n), conn[c].at = "hello"
      PROVE  IInv'
  <2>1. /\ n \in ConnRec /\ n.kidEnd = conn[c].kidEnd /\ n.desk = conn[c].desk
        /\ ~ n.deskEnd /\ n.at = "answer" /\ n.says = "reject"
    BY <1>0, <1>1 DEF Answer, ConnRec, Stages, Answers
  <2>. QED
    BY <1>0, <1>1, <2>1, OneConn
<1>2. CASE DeskOffer(c)
  <2>. DEFINE n == [conn[c] EXCEPT !.at = "loaded", !.file = household[conn[c].desk]]
  <2>1. CASE Set(c, n)
    <3>1. household[conn[c].desk] \in Records
      BY <1>0 DEF IInv, Types
    <3>2. /\ n \in ConnRec /\ n.kidEnd = conn[c].kidEnd /\ n.desk = conn[c].desk
          /\ n.deskEnd = conn[c].deskEnd /\ n.at = "loaded" /\ n.says = conn[c].says
          /\ n.ticket = conn[c].ticket /\ n.file = household[n.desk]
      BY <1>0, <3>1 DEF ConnRec, Stages
    <3>. HIDE DEF n
    <3>. QED
      BY <1>0, <2>1, <3>2, OneConn
  <2>. QED
    BY <1>1, <1>2, <2>1 DEF DeskOffer
<1>3. CASE DeskResume(c)
  <2>. DEFINE n == [conn[c] EXCEPT !.at = "saved", !.says = "ok"]
  <2>1. CASE Set(c, n) /\ household[conn[c].desk][Kid(c)] = conn[c].ticket
             /\ conn[c].at = "hello" /\ conn[c].ticket # NoTicket
    <3>1. /\ n \in ConnRec /\ n.kidEnd = conn[c].kidEnd /\ n.desk = conn[c].desk
          /\ n.deskEnd = conn[c].deskEnd /\ n.at = "saved" /\ n.says = "ok"
          /\ n.ticket = conn[c].ticket
      BY <1>0 DEF ConnRec, Stages, Answers
    <3>2. ASSUME conn[c].kidEnd
          PROVE  session[Kid(c)] = [desk |-> conn[c].desk, ticket |-> conn[c].ticket]
      <4>. DEFINE k == Kid(c)
                  t == conn[c].ticket
      <4>1. /\ k \in Kids /\ t \in Tickets /\ session[k].ticket = t
            /\ session[k].desk \in Desks
        BY <1>0, <2>1, <3>2, Facts DEF IInv, CameWith, SessionHasDesk, ConnRec
      <4>2. Holds(conn[c].desk, k, t) /\ Holds(session[k].desk, k, t)
        BY <2>1, <4>1 DEF Holds
      <4>3. session[k].desk = conn[c].desk
        <5>. HIDE DEF k, t
        <5>. QED
          BY <1>0, <4>1, <4>2 DEF IInv, TicketIsOnes
      <4>. QED
        BY <4>1, <4>3 DEF IInv, Types
    <3>. HIDE DEF n
    <3>. QED
      BY <1>0, <2>1, <3>1, <3>2, OneConn
  <2>. QED
    BY <1>1, <1>3, <2>1 DEF DeskResume
<1>4. CASE DeskAttach(c)
  <2>. DEFINE n == [Answer(conn[c], conn[c].says) EXCEPT !.mine = TRUE]
  <2>1. /\ n \in ConnRec /\ n.kidEnd = conn[c].kidEnd /\ n.desk = conn[c].desk
        /\ n.at = "answer" /\ n.says = conn[c].says /\ n.ticket = conn[c].ticket
    BY <1>0 DEF Answer, ConnRec, Stages
  <2>2. Set(c, n) /\ conn[c].at = "saved"
    BY <1>4 DEF DeskAttach
  <2>3. conn[c].kidEnd /\ n.says = "ok" =>
          session[Kid(c)] = [desk |-> conn[c].desk, ticket |-> conn[c].ticket]
    BY <2>1, <2>2 DEF IInv, AgreedIsSaved, Agreed
  <2>. HIDE DEF n
  <2>. QED
    BY <1>0, <2>1, <2>2, <2>3, OneConn
<1>5. CASE DeskDrop(c)
  <2>. DEFINE n == [conn[c] EXCEPT !.deskEnd = FALSE]
  <2>1. /\ n \in ConnRec /\ n.kidEnd = conn[c].kidEnd /\ n.desk = conn[c].desk
        /\ ~ n.deskEnd /\ n.says = conn[c].says /\ n.ticket = conn[c].ticket
    BY <1>0 DEF ConnRec
  <2>2. Set(c, n) /\ ~ conn[c].kidEnd
    BY <1>5 DEF DeskDrop
  <2>. HIDE DEF n
  <2>. QED
    BY <1>0, <2>1, <2>2, OneConn
<1>. QED
  BY <1>2, <1>3, <1>4, <1>5

-----------------------------------------------------------------------------
(* The steps that dial, take or refuse a session, issue a ticket, restart  *)

LEMMA DialKeeps ==
  ASSUME IInv, NEW k \in Kids, NEW d \in Desks, NEW c \in Conns, Dial(k, d, c)
  PROVE  IInv'
<1>. DEFINE n == [Closed EXCEPT !.desk = d, !.kidEnd = TRUE, !.deskEnd = TRUE,
                                !.at = "hello", !.ticket = session[k].ticket]
<1>1. /\ n \in ConnRec /\ n.kidEnd /\ n.deskEnd /\ n.desk = d /\ n.at = "hello"
      /\ n.ticket = session[k].ticket /\ n.says = ""
  BY Facts DEF IInv, Types, Closed, ConnRec, Stages
<1>2. /\ Kid(c) = k /\ ~ Dialing(k) /\ Set(c, n)
      /\ UNCHANGED <<session, pairFile, household, issued>>
  BY DEF Dial, files
<1>. HIDE DEF n
<1>3. conn' = [conn EXCEPT ![c] = n] /\ conn'[c] = n /\ \A e \in Conns \ {c} : conn'[e] = conn[e]
  BY <1>1, <1>2 DEF Set, IInv, Types
<1>4. Types' /\ OpenHasDesk' /\ SessionHasDesk'
  BY <1>1, <1>2, <1>3 DEF IInv, Types, OpenHasDesk, SessionHasDesk
<1>5. OneDial'
  BY <1>2, <1>3 DEF IInv, OneDial, Dialing
<1>6. TicketIsOnes'
  <2>1. ASSUME NEW b \in Desks, NEW m \in Kids, NEW t \in Tickets, Holds(b, m, t)'
        PROVE  Holds(b, m, t)
    BY <1>1, <1>2, <1>3, <2>1 DEF Holds, InFile, InAccept
  <2>. QED
    BY <1>2, <2>1, NoNewTicket DEF IInv
<1>7. ASSUME NEW e \in Conns, conn'[e].kidEnd
      PROVE  /\ conn'[e].at = "hello" => conn'[e].ticket = session'[Kid(e)].ticket
             /\ Agreed(e)' => session'[Kid(e)] = [desk |-> conn'[e].desk, ticket |-> conn'[e].ticket]
             /\ conn'[e].at = "up" => pairFile'[Kid(e)]
  <2>1. CASE e # c
    BY <1>2, <1>3, <1>7, <2>1 DEF IInv, CameWith, AgreedIsSaved, Agreed, UpHasToken, Up
  <2>2. CASE e = c
    BY <1>1, <1>2, <1>3, <2>2 DEF Agreed
  <2>. QED
    BY <2>1, <2>2
<1>8. CameWith' /\ AgreedIsSaved' /\ UpHasToken'
  BY <1>7 DEF CameWith, AgreedIsSaved, UpHasToken, Up
<1>. QED
  BY <1>4, <1>5, <1>6, <1>8 DEF IInv

LEMMA KidTakes ==
  ASSUME IInv, NEW c \in Conns, KidReject(c) \/ KidAccept(c) PROVE IInv'
<1>. DEFINE k == Kid(c)
<1>1. PICK n, s :
        /\ Set(c, n) /\ session' = [session EXCEPT ![k] = s]
        /\ conn[c].kidEnd
        /\ n \in ConnRec /\ n.desk = conn[c].desk /\ n.ticket = conn[c].ticket
        /\ n.deskEnd = conn[c].deskEnd /\ n.says = conn[c].says
        /\ s \in [desk : Desks \union {NoDesk}, ticket : Tickets \union {NoTicket}]
        /\ \/ ~ n.kidEnd /\ s.ticket = NoTicket /\ n.at = "answer"
           \/ /\ n.kidEnd /\ n.at = "took" /\ n.says = "accept"
              /\ s = [desk |-> n.desk, ticket |-> n.ticket]
  <2>0. conn[c] \in ConnRec
    BY DEF IInv, Types
  <2>1. CASE KidReject(c)
    <3>. DEFINE n == [conn[c] EXCEPT !.kidEnd = FALSE]
                s == [session[k] EXCEPT !.desk = NoDesk, !.ticket = NoTicket]
    <3>1. /\ Set(c, n) /\ session' = [session EXCEPT ![k] = NoSession]
          /\ conn[c].kidEnd /\ conn[c].at = "answer"
      BY <2>1 DEF KidReject
    <3>2. /\ n \in ConnRec /\ n.desk = conn[c].desk /\ n.ticket = conn[c].ticket
          /\ n.deskEnd = conn[c].deskEnd /\ n.says = conn[c].says /\ ~ n.kidEnd
          /\ n.at = conn[c].at
      BY <2>0 DEF ConnRec
    <3>3. /\ NoSession \in [desk : Desks \union {NoDesk}, ticket : Tickets \union {NoTicket}]
          /\ NoSession.ticket = NoTicket
      BY DEF NoSession
    <3>. HIDE DEF n
    <3>. QED
      BY <3>1, <3>2, <3>3
  <2>2. CASE KidAccept(c)
    <3>. DEFINE n == [conn[c] EXCEPT !.at = "took"]
    <3>1. /\ Set(c, n) /\ conn[c].kidEnd /\ conn[c].says = "accept"
          /\ session' = [session EXCEPT ![k] = [desk |-> conn[c].desk, ticket |-> conn[c].ticket]]
      BY <2>2 DEF KidAccept
    <3>2. /\ n \in ConnRec /\ n.desk = conn[c].desk /\ n.ticket = conn[c].ticket
          /\ n.deskEnd = conn[c].deskEnd /\ n.says = conn[c].says /\ n.kidEnd = conn[c].kidEnd
          /\ n.at = "took"
      BY <2>0 DEF ConnRec, Stages
    <3>3. [desk |-> conn[c].desk, ticket |-> conn[c].ticket]
            \in [desk : Desks \union {NoDesk}, ticket : Tickets \union {NoTicket}]
      BY <2>0 DEF ConnRec
    <3>. HIDE DEF n
    <3>. QED
      BY <3>1, <3>2, <3>3
  <2>. QED
    BY <2>1, <2>2
<1>2. UNCHANGED <<pairFile, household, issued>> /\ k \in Kids
  BY Facts DEF KidReject, KidAccept
<1>. HIDE DEF k
<1>3. /\ conn' = [conn EXCEPT ![c] = IF n.kidEnd \/ n.deskEnd THEN n ELSE Closed]
      /\ conn'[c] = n \/ conn'[c] = Closed
      /\ \A e \in Conns \ {c} : conn'[e] = conn[e]
      /\ session'[k] = s /\ \A m \in Kids \ {k} : session'[m] = session[m]
  BY <1>1, <1>2 DEF Set, IInv, Types
<1>4. n.desk \in Desks /\ Kid(c) = k
  BY <1>1 DEF IInv, OpenHasDesk, k
<1>5. Types' /\ OpenHasDesk' /\ OneDial' /\ SessionHasDesk'
  <2>1. Types'
    BY <1>1, <1>2, <1>3, Facts DEF IInv, Types
  <2>2. ASSUME NEW e \in Conns, conn'[e].kidEnd \/ conn'[e].deskEnd
        PROVE  /\ conn'[e].desk \in Desks
               /\ conn'[e].deskEnd /\ conn'[e].at = "loaded" => conn'[e].file \in Records
    <3>1. CASE e # c
      BY <1>3, <2>2, <3>1 DEF IInv, OpenHasDesk
    <3>2. CASE e = c
      <4>1. conn'[c] = n
        BY <1>3, <2>2, <3>2, Facts
      <4>. QED
        BY <1>1, <1>4, <3>2, <4>1
    <3>. QED
      BY <3>1, <3>2
  <2>4. \A e \in Conns : conn'[e].kidEnd => conn[e].kidEnd
    BY <1>1, <1>3, Facts
  <2>5. OpenHasDesk' /\ OneDial'
    BY <2>2, <2>4 DEF IInv, OpenHasDesk, OneDial
  <2>3. SessionHasDesk'
    BY <1>1, <1>3, <1>4 DEF IInv, SessionHasDesk
  <2>. QED
    BY <2>1, <2>3, <2>5
<1>6. TicketIsOnes'
  <2>1. ASSUME NEW b \in Desks, NEW m \in Kids, NEW t \in Tickets, Holds(b, m, t)'
        PROVE  Holds(b, m, t)
    <3>1. CASE session'[m].desk = b /\ session'[m].ticket = t
      <4>1. CASE m = k /\ n.says = "accept" /\ s = [desk |-> n.desk, ticket |-> n.ticket]
        <5>1. conn[c].desk = b /\ InAccept(c, m, t)
          BY <1>1, <1>3, <1>4, <3>1, <4>1 DEF InAccept
        <5>. QED
          BY <5>1 DEF Holds
      <4>2. CASE m = k /\ s.ticket = NoTicket
        BY <1>3, <3>1, <4>2, Facts
      <4>3. CASE m # k
        BY <1>3, <3>1, <4>3 DEF Holds
      <4>. QED
        BY <1>1, <4>1, <4>2, <4>3
    <3>2. ASSUME NEW e \in Conns, conn'[e].desk = b, InFile(e, m, t)' \/ InAccept(e, m, t)'
          PROVE  Holds(b, m, t)
      <4>1. CASE e # c
        BY <1>3, <3>2, <4>1 DEF Holds, InFile, InAccept
      <4>2. CASE e = c
        <5>1. ~ InFile(c, m, t)'
          BY <1>1, <1>3, Facts DEF InFile
        <5>2. InAccept(c, m, t)'
          BY <3>2, <4>2, <5>1
        <5>3. conn'[c] = n
          BY <1>3, <5>2, Facts DEF InAccept
        <5>4. InAccept(c, m, t)
          BY <1>1, <5>2, <5>3 DEF InAccept
        <5>. QED
          BY <1>1, <3>2, <4>2, <5>3, <5>4 DEF Holds
      <4>. QED
        BY <4>1, <4>2
    <3>. QED
      BY <1>2, <2>1, <3>1, <3>2 DEF Holds
  <2>. QED
    BY <1>2, <2>1, NoNewTicket DEF IInv
<1>7. ASSUME NEW e \in Conns, conn'[e].kidEnd
      PROVE  /\ conn'[e].at = "hello" => conn'[e].ticket = session'[Kid(e)].ticket
             /\ Agreed(e)' => session'[Kid(e)] = [desk |-> conn'[e].desk, ticket |-> conn'[e].ticket]
             /\ conn'[e].at = "up" => pairFile'[Kid(e)]
  <2>1. CASE e # c
    <3>1. conn'[e] = conn[e] /\ Kid(e) # k /\ Kid(e) \in Kids
      BY <1>1, <1>3, <1>4, <1>7, <2>1, Facts DEF IInv, OneDial
    <3>2. session'[Kid(e)] = session[Kid(e)]
      BY <1>3, <3>1
    <3>. QED
      BY <1>2, <1>7, <3>1, <3>2 DEF IInv, CameWith, AgreedIsSaved, Agreed, UpHasToken, Up
  <2>2. CASE e = c
    <3>0. conn'[c] = n /\ n.kidEnd
      <4>1. conn'[c].kidEnd
        BY <1>7, <2>2
      <4>2. conn'[c] # Closed
        BY <4>1, Facts
      <4>. QED
        BY <1>3, <4>1, <4>2
    <3>1. n.at = "took" /\ session'[k] = [desk |-> n.desk, ticket |-> n.ticket]
      BY <1>1, <1>3, <3>0
    <3>. QED
      BY <1>4, <2>2, <3>0, <3>1
  <2>. QED
    BY <2>1, <2>2
<1>8. CameWith' /\ AgreedIsSaved' /\ UpHasToken'
  BY <1>7 DEF CameWith, AgreedIsSaved, UpHasToken, Up
<1>. QED
  BY <1>5, <1>6, <1>8 DEF IInv

\* acceptOffer writes the file as it was read, with a ticket nobody has.
LEMMA DeskSaves == ASSUME IInv, NEW c \in Conns, DeskSave(c) PROVE IInv'
<1>. DEFINE k == Kid(c)
            d == conn[c].desk
            new == issued + 1
            n == [conn[c] EXCEPT !.at = "saved", !.says = "accept", !.ticket = new, !.file = <<>>]
            file == [conn[c].file EXCEPT ![k] = new]
<1>1. /\ conn[c].deskEnd /\ conn[c].at = "loaded" /\ issued < MaxTickets
      /\ issued' = new /\ household' = [household EXCEPT ![d] = file]
      /\ Set(c, n) /\ UNCHANGED <<session, pairFile>>
  BY DEF DeskSave, files
<1>2. /\ k \in Kids /\ d \in Desks /\ conn[c].file \in Records /\ conn[c] \in ConnRec
      /\ issued \in Nat /\ new \in Tickets /\ new # NoTicket
  <2>1. issued \in 0 .. MaxTickets
    BY DEF IInv, Types
  <2>2. issued \in Nat /\ new \in Tickets /\ new # NoTicket
    BY <1>1, <2>1, SessionAssumption DEF Tickets, NoTicket
  <2>3. d \in Desks /\ conn[c].file \in Records
    BY <1>1 DEF IInv, OpenHasDesk
  <2>4. conn[c] \in ConnRec
    BY DEF IInv, Types
  <2>. QED
    BY <2>2, <2>3, <2>4, Facts
<1>3. /\ n \in ConnRec /\ n.kidEnd = conn[c].kidEnd /\ n.deskEnd /\ n.desk = d
      /\ n.at = "saved" /\ n.says = "accept" /\ n.ticket = new
  BY <1>1, <1>2 DEF ConnRec, Stages, Answers
<1>4. file \in Records /\ file[k] = new /\ \A m \in Kids \ {k} : file[m] = conn[c].file[m]
  BY <1>2 DEF Records
<1>. HIDE DEF n, file
<1>5. /\ conn' = [conn EXCEPT ![c] = n] /\ conn'[c] = n
      /\ \A e \in Conns \ {c} : conn'[e] = conn[e]
  BY <1>1, <1>3 DEF Set, IInv, Types
<1>6. household'[d] = file /\ \A b \in Desks \ {d} : household'[b] = household[b]
  BY <1>1, <1>2 DEF IInv, Types
<1>7. Types'
  <2>1. issued' \in 0 .. MaxTickets
    BY <1>1, <1>2, SessionAssumption
  <2>2. household' \in [Desks -> Records]
    BY <1>1, <1>2, <1>4 DEF IInv, Types
  <2>. QED
    BY <1>1, <1>3, <1>5, <2>1, <2>2 DEF IInv, Types
<1>8. OpenHasDesk' /\ OneDial' /\ SessionHasDesk'
  BY <1>1, <1>2, <1>3, <1>5 DEF IInv, OpenHasDesk, OneDial, SessionHasDesk
<1>9. ASSUME NEW b \in Desks, NEW m \in Kids, NEW t \in Tickets, Holds(b, m, t)'
      PROVE  Holds(b, m, t) \/ (b = d /\ m = k /\ t = new)
  <2>1. CASE household'[b][m] = t
    <3>1. CASE b # d
      BY <1>6, <2>1, <3>1 DEF Holds
    <3>2. CASE b = d /\ m # k
      <4>1. InFile(c, m, t)
        BY <1>1, <1>4, <1>6, <2>1, <3>2 DEF InFile
      <4>. QED
        BY <3>2, <4>1 DEF Holds
    <3>3. CASE b = d /\ m = k
      BY <1>4, <1>6, <2>1, <3>3
    <3>. QED
      BY <3>1, <3>2, <3>3
  <2>2. ASSUME NEW e \in Conns, conn'[e].desk = b, InFile(e, m, t)' \/ InAccept(e, m, t)'
        PROVE  Holds(b, m, t) \/ (b = d /\ m = k /\ t = new)
    <3>1. CASE e # c
      BY <1>5, <2>2, <3>1 DEF Holds, InFile, InAccept
    <3>2. CASE e = c
      BY <1>3, <1>5, <2>2, <3>2 DEF InFile, InAccept
    <3>. QED
      BY <3>1, <3>2
  <2>. QED
    BY <1>1, <1>9, <2>1, <2>2 DEF Holds
<1>10. TicketIsOnes'
  <2>1. ASSUME NEW b \in Desks, NEW m \in Kids, NEW t \in Tickets, Holds(b, m, t)
        PROVE  t <= issued /\ t < new /\ t \in Nat
    BY <1>2, <2>1 DEF IInv, TicketIsOnes, Tickets
  <2>2. ASSUME NEW b \in Desks, NEW e \in Desks, NEW m \in Kids, NEW q \in Kids, NEW t \in Tickets,
               Holds(b, m, t)'
        PROVE  t <= issued' /\ (Holds(e, q, t)' => b = e /\ m = q)
    <3>1. CASE Holds(b, m, t)
      <4>1. t # new /\ t <= issued'
        BY <1>1, <1>2, <2>1, <3>1
      <4>2. ASSUME Holds(e, q, t)' PROVE b = e /\ m = q
        <5>1. Holds(e, q, t)
          BY <1>9, <4>1, <4>2
        <5>. QED
          BY <3>1, <5>1 DEF IInv, TicketIsOnes
      <4>. QED
        BY <4>1, <4>2
    <3>2. CASE b = d /\ m = k /\ t = new
      <4>1. t <= issued'
        BY <1>1, <1>2, <3>2
      <4>2. ASSUME Holds(e, q, t)' PROVE b = e /\ m = q
        <5>1. ~ Holds(e, q, t)
          BY <1>2, <2>1, <3>2
        <5>. QED
          BY <1>9, <3>2, <4>2, <5>1
      <4>. QED
        BY <4>1, <4>2
    <3>. QED
      BY <1>9, <2>2, <3>1, <3>2
  <2>. QED
    BY <2>2 DEF TicketIsOnes
<1>11. ASSUME NEW e \in Conns, conn'[e].kidEnd
      PROVE  /\ conn'[e].at = "hello" => conn'[e].ticket = session'[Kid(e)].ticket
             /\ Agreed(e)' => session'[Kid(e)] = [desk |-> conn'[e].desk, ticket |-> conn'[e].ticket]
             /\ conn'[e].at = "up" => pairFile'[Kid(e)]
  <2>1. CASE e # c
    BY <1>1, <1>5, <1>11, <2>1 DEF IInv, CameWith, AgreedIsSaved, Agreed, UpHasToken, Up
  <2>2. CASE e = c
    BY <1>3, <1>5, <2>2 DEF Agreed
  <2>. QED
    BY <2>1, <2>2
<1>12. CameWith' /\ AgreedIsSaved' /\ UpHasToken'
  BY <1>11 DEF CameWith, AgreedIsSaved, UpHasToken, Up
<1>. QED
  BY <1>7, <1>8, <1>10, <1>12 DEF IInv

LEMMA RestartKeeps == ASSUME IInv, NEW d \in Desks, DeskRestart(d) PROVE IInv'
<1>1. UNCHANGED <<session, pairFile, household, issued>>
  BY DEF DeskRestart, files
<1>2. ASSUME NEW e \in Conns
      PROVE  /\ conn'[e] \in ConnRec
             /\ \/ conn'[e] = conn[e]
                \/ conn'[e] = Closed
                \/ /\ ~ conn'[e].deskEnd /\ conn'[e].kidEnd = conn[e].kidEnd
                   /\ conn'[e].desk = conn[e].desk /\ conn'[e].at = conn[e].at
                   /\ conn'[e].says = conn[e].says /\ conn'[e].ticket = conn[e].ticket
  <2>1. conn[e] \in ConnRec
    BY DEF IInv, Types
  <2>2. \/ conn'[e] = conn[e]
        \/ conn'[e] = Closed
        \/ conn'[e] = [conn[e] EXCEPT !.deskEnd = FALSE, !.file = <<>>]
    BY DEF DeskRestart
  <2>3. CASE conn'[e] = [conn[e] EXCEPT !.deskEnd = FALSE, !.file = <<>>]
    BY <2>1, <2>3 DEF ConnRec
  <2>. QED
    BY <2>1, <2>2, <2>3, Facts
<1>3. conn' = [e \in Conns |-> conn'[e]]
  BY DEF DeskRestart
<1>4. Types'
  <2>1. conn' \in [Conns -> ConnRec]
    BY <1>2, <1>3
  <2>. QED
    BY <1>1, <2>1 DEF IInv, Types
<1>5. OpenHasDesk' /\ OneDial' /\ SessionHasDesk'
  BY <1>1, <1>2, Facts DEF IInv, OpenHasDesk, OneDial, SessionHasDesk
<1>6. ASSUME NEW b \in Desks, NEW m \in Kids, NEW t \in Tickets, Holds(b, m, t)'
      PROVE  Holds(b, m, t)
  <2>1. ASSUME NEW e \in Conns, conn'[e].desk = b, InFile(e, m, t)' \/ InAccept(e, m, t)'
        PROVE  Holds(b, m, t)
    <3>1. conn[e].desk = b /\ (InFile(e, m, t) \/ InAccept(e, m, t))
      BY <1>2, <2>1, Facts DEF InFile, InAccept
    <3>. QED
      BY <3>1 DEF Holds
  <2>. QED
    BY <1>1, <1>6, <2>1 DEF Holds
<1>7. TicketIsOnes'
  BY <1>1, <1>6, NoNewTicket DEF IInv
<1>8. CameWith' /\ AgreedIsSaved' /\ UpHasToken'
  BY <1>1, <1>2, Facts DEF IInv, CameWith, AgreedIsSaved, Agreed, UpHasToken, Up
<1>. QED
  BY <1>4, <1>5, <1>7, <1>8 DEF IInv

-----------------------------------------------------------------------------
LEMMA IInit == Init => IInv
<1>. SUFFICES ASSUME Init PROVE IInv
  OBVIOUS
<1>1. Types
  <2>1. NoSession \in [desk : Desks \union {NoDesk}, ticket : Tickets \union {NoTicket}]
    BY DEF NoSession
  <2>2. session \in [Kids -> [desk : Desks \union {NoDesk}, ticket : Tickets \union {NoTicket}]]
    BY <2>1 DEF Init
  <2>3. pairFile \in [Kids -> BOOLEAN] /\ household \in [Desks -> Records]
    BY DEF Init, Records
  <2>4. conn \in [Conns -> ConnRec] /\ issued \in 0 .. MaxTickets
    <3>1. conn = [c \in Conns |-> Closed] /\ issued = 0
      BY DEF Init
    <3>2. MaxTickets \in Nat
      BY SessionAssumption
    <3>3. Closed \in ConnRec
      BY Facts
    <3>4. conn \in [Conns -> ConnRec]
      BY <3>1, <3>3, Zenon
    <3>5. issued \in 0 .. MaxTickets
      BY <3>1, <3>2
    <3>. QED
      BY <3>4, <3>5
  <2>. QED
    BY <2>2, <2>3, <2>4 DEF Types
<1>2. /\ \A c \in Conns : conn[c] = Closed
      /\ \A d \in Desks, k \in Kids : household[d][k] = NoTicket
      /\ \A k \in Kids : session[k].ticket = NoTicket
  BY DEF Init, NoSession
<1>3. \A d \in Desks, k \in Kids, t \in Tickets : ~ Holds(d, k, t)
  BY <1>2, Facts DEF Holds, InFile, InAccept
<1>4. OpenHasDesk /\ OneDial /\ SessionHasDesk /\ CameWith /\ AgreedIsSaved /\ UpHasToken
  BY <1>2, Facts DEF OpenHasDesk, OneDial, SessionHasDesk, CameWith, AgreedIsSaved, Agreed,
                     UpHasToken, Up
<1>. QED
  BY <1>1, <1>3, <1>4 DEF IInv, TicketIsOnes

LEMMA IStep == IInv /\ [Next]_vars => IInv'
<1>. SUFFICES ASSUME IInv, [Next]_vars PROVE IInv'
  OBVIOUS
<1>1. CASE \E k \in Kids, d \in Desks, c \in Conns : Dial(k, d, c)
  BY <1>1, DialKeeps
<1>2. ASSUME NEW c \in Conns, KidStep(c) \/ Cut(c) PROVE IInv'
  BY <1>2, KidSteps, KidTakes DEF KidStep
<1>3. ASSUME NEW c \in Conns, DeskStep(c) PROVE IInv'
  BY <1>3, DeskSteps, DeskSaves DEF DeskStep
<1>4. CASE \E d \in Desks : DeskRestart(d)
  BY <1>4, RestartKeeps
<1>5. CASE UNCHANGED vars
  BY <1>5 DEF vars, files, IInv, Types, OpenHasDesk, OneDial, TicketIsOnes, Holds, InFile,
              InAccept, SessionHasDesk, CameWith, AgreedIsSaved, Agreed, UpHasToken, Up
<1>. QED
  BY <1>1, <1>2, <1>3, <1>4, <1>5 DEF Next

\* A ticket names one desk and one kid, though handlers of a desk write back
\* household files they read before others did (acceptOffer).
THEOREM TicketsAreUnique == Spec => []TicketIsOnes
<1>1. IInv => TicketIsOnes
  BY DEF IInv
<1>. QED
  BY <1>1, IInit, IStep, PTL DEF Spec

\* A kid that serves a desk has that desk, its ticket and the pair token on
\* its disk (OnAccept, pairOnce, OnResumeOK).
THEOREM ServesWhatItSaved == Spec => []UpIsPaired
<1>1. IInv => UpIsPaired
  BY DEF IInv, AgreedIsSaved, Agreed, UpHasToken, Up, UpIsPaired
<1>. QED
  BY <1>1, IInit, IStep, PTL DEF Spec
-----------------------------------------------------------------------------
(* Types, and who holds the link.                                          *)

\* A connection with an open end.
OpenRec == [desk : Desks, kidEnd : BOOLEAN, deskEnd : BOOLEAN,
            at : Stages, ticket : Tickets \union {NoTicket},
            says : Answers \union {""}, mine : BOOLEAN, file : Records \union {<<>>}]
AcceptHasTicket == \A c \in Conns : conn[c].says = "accept" => conn[c].ticket \in Tickets

\* A handler of the desk has attached its connection from the answer on.
Attached == {"answer", "took", "paired", "up"}
MineIsAttached ==
  \A c \in Conns : conn[c].deskEnd => (conn[c].mine <=> conn[c].at \in Attached)
\* The connection its kid is on, once it was attached, is the link.
AttachedIsLive ==
  \A c \in Conns : conn[c].kidEnd /\ conn[c].deskEnd /\ conn[c].mine =>
    \/ link[conn[c].desk][Kid(c)] = c
    \/ stale[conn[c].desk][Kid(c)]

LInv == TypeOK /\ AcceptHasTicket /\ MineIsAttached /\ AttachedIsLive

LEMMA OpenOrClosed ==
  /\ TypeOK => conn \in [Conns -> OpenRec \union {Closed}]
  /\ ~ Closed.kidEnd /\ ~ Closed.deskEnd /\ ~ Closed.mine
  /\ Closed.at = "" /\ Closed.says = "" /\ Closed.ticket = NoTicket
  /\ Closed.file = <<>>
  BY DEF TypeOK, OpenRec, Records, Closed

\* The connection c becomes n.
LEMMA SetKeeps ==
  ASSUME LInv, NEW c \in Conns, NEW n \in OpenRec, Set(c, n),
         n.says = "accept" => n.ticket \in Tickets,
         n.deskEnd => (n.mine <=> n.at \in Attached)
  PROVE  /\ conn' \in [Conns -> OpenRec \union {Closed}]
         /\ AcceptHasTicket' /\ MineIsAttached'
         /\ conn'[c] = n \/ conn'[c] = Closed
         /\ \A e \in Conns \ {c} : conn'[e] = conn[e]
<1>1. conn \in [Conns -> OpenRec \union {Closed}]
  BY OpenOrClosed DEF LInv
<1>2. /\ conn' \in [Conns -> OpenRec \union {Closed}]
      /\ conn'[c] = n \/ conn'[c] = Closed
      /\ \A e \in Conns \ {c} : conn'[e] = conn[e]
  BY <1>1 DEF Set
<1>3. AcceptHasTicket' /\ MineIsAttached'
  BY <1>2, OpenOrClosed DEF LInv, AcceptHasTicket, MineIsAttached
<1>. QED
  BY <1>2, <1>3

\* A step of one connection that leaves the links alone, and neither attaches
\* the connection nor opens an end of it.
LEMMA QuietKeeps ==
  ASSUME LInv, NEW c \in Conns, NEW n \in OpenRec, Set(c, n),
         n.says = "accept" => n.ticket \in Tickets,
         n.deskEnd => (n.mine <=> n.at \in Attached),
         n.kidEnd /\ n.deskEnd /\ n.mine =>
           /\ conn[c].kidEnd /\ conn[c].deskEnd /\ conn[c].mine
           /\ conn[c].desk = n.desk,
         UNCHANGED <<link, stale>>
  PROVE  /\ conn' \in [Conns -> OpenRec \union {Closed}]
         /\ AcceptHasTicket' /\ MineIsAttached' /\ AttachedIsLive'
<1>1. /\ conn' \in [Conns -> OpenRec \union {Closed}]
      /\ AcceptHasTicket' /\ MineIsAttached'
      /\ conn'[c] = n \/ conn'[c] = Closed
      /\ \A e \in Conns \ {c} : conn'[e] = conn[e]
  BY SetKeeps
<1>2. AttachedIsLive'
  BY <1>1, OpenOrClosed DEF LInv, AttachedIsLive
<1>. QED
  BY <1>1, <1>2

\* TypeOK, its conn apart.
RestOK ==
  /\ session \in [Kids -> [desk : Desks, ticket : Tickets] \union {NoSession}]
  /\ paired \in [Kids -> BOOLEAN] /\ pairFile \in [Kids -> BOOLEAN]
  /\ household \in [Desks -> [Kids -> Tickets \union {NoTicket}]]
  /\ link \in [Desks -> [Kids -> Conns \union {NoConn}]]
  /\ issued \in 0 .. MaxTickets /\ breaks \in 0 .. MaxBreaks
  /\ stale \in [Desks -> [Kids -> BOOLEAN]]

LEMMA TypeParts == TypeOK <=> RestOK /\ conn \in [Conns -> OpenRec \union {Closed}]
  BY DEF TypeOK, RestOK, OpenRec, Records

\* The same of the next state.
LEMMA TypesAgain == RestOK' /\ conn' \in [Conns -> OpenRec \union {Closed}] => TypeOK'
  BY DEF TypeOK, RestOK, OpenRec, Records

LEMMA DialLive ==
  ASSUME LInv, NEW k \in Kids, NEW d \in Desks, NEW c \in Conns, Dial(k, d, c)
  PROVE  LInv'
<1>. DEFINE n == [Closed EXCEPT !.desk = d, !.kidEnd = TRUE, !.deskEnd = TRUE,
                                !.at = "hello", !.ticket = session[k].ticket]
<1>1. session[k].ticket \in Tickets \union {NoTicket}
  <2>1. session[k] \in [desk : Desks, ticket : Tickets] \union {NoSession}
    BY DEF LInv, TypeOK
  <2>. QED
    BY <2>1 DEF NoSession
<1>2. n \in OpenRec /\ n.says = "" /\ ~ n.mine /\ n.at = "hello"
  BY <1>1 DEF Closed, OpenRec, Stages
<1>3. Set(c, n) /\ UNCHANGED <<session, paired, pairFile, household, link, issued, breaks, stale>>
  BY DEF Dial, files
<1>. HIDE DEF n
<1>4. /\ conn' \in [Conns -> OpenRec \union {Closed}]
      /\ AcceptHasTicket' /\ MineIsAttached' /\ AttachedIsLive'
  BY <1>2, <1>3, QuietKeeps DEF Attached
<1>5. RestOK'
  BY <1>3, TypeParts DEF LInv, RestOK
<1>. QED
  BY <1>4, <1>5, TypesAgain DEF LInv

\* What a connection with an open end is.
LEMMA IsOpen ==
  ASSUME LInv, NEW c \in Conns, conn[c].kidEnd \/ conn[c].deskEnd
  PROVE  conn[c] \in OpenRec
  BY OpenOrClosed DEF LInv

LEMMA KidLive == ASSUME LInv, NEW c \in Conns, KidStep(c) \/ Cut(c) PROVE LInv'
<1>. DEFINE r == conn[c]
            off == [r EXCEPT !.kidEnd = FALSE]
            To(stage) == [r EXCEPT !.at = stage]
<1>1. r.kidEnd /\ r \in OpenRec
  <2>1. r.kidEnd
    BY DEF KidStep, KidReject, KidAccept, KidPair, KidWritePair, KidResumed, KidDrop, Cut
  <2>. QED
    BY <2>1, IsOpen
<1>2. r.says = "accept" => r.ticket \in Tickets
  BY DEF LInv, AcceptHasTicket
<1>3. r.deskEnd => (r.mine <=> r.at \in Attached)
  BY DEF LInv, MineIsAttached
<1>4. /\ off \in OpenRec /\ ~ off.kidEnd /\ off.deskEnd = r.deskEnd /\ off.at = r.at
      /\ off.says = r.says /\ off.ticket = r.ticket /\ off.mine = r.mine
  BY <1>1 DEF OpenRec
<1>5. ASSUME NEW stage \in {"took", "paired", "up"}
      PROVE  /\ To(stage) \in OpenRec /\ To(stage).kidEnd /\ To(stage).deskEnd = r.deskEnd
             /\ To(stage).at = stage /\ To(stage).says = r.says /\ To(stage).ticket = r.ticket
             /\ To(stage).mine = r.mine /\ To(stage).desk = r.desk
  BY <1>1 DEF OpenRec, Stages
<1>6. /\ UNCHANGED <<household, link, issued, stale>>
      /\ \/ Set(c, off)
         \/ /\ r.at \in Attached
            /\ \E stage \in {"took", "paired", "up"} : Set(c, To(stage))
  BY DEF KidStep, KidReject, KidAccept, KidPair, KidWritePair, KidResumed, KidDrop, Cut,
         files, Attached
<1>7. /\ conn' \in [Conns -> OpenRec \union {Closed}]
      /\ AcceptHasTicket' /\ MineIsAttached' /\ AttachedIsLive'
  <2>1. CASE Set(c, off)
    BY <1>2, <1>3, <1>4, <1>6, <2>1, QuietKeeps
  <2>2. ASSUME NEW stage \in {"took", "paired", "up"}, r.at \in Attached, Set(c, To(stage))
        PROVE  /\ conn' \in [Conns -> OpenRec \union {Closed}]
               /\ AcceptHasTicket' /\ MineIsAttached' /\ AttachedIsLive'
    <3>1. stage \in Attached
      BY DEF Attached
    <3>. HIDE DEF To
    <3>. QED
      BY <1>1, <1>2, <1>3, <1>5, <1>6, <2>2, <3>1, QuietKeeps
  <2>. QED
    BY <1>6, <2>1, <2>2
<1>8. session' \in [Kids -> [desk : Desks, ticket : Tickets] \union {NoSession}]
  <2>1. session \in [Kids -> [desk : Desks, ticket : Tickets] \union {NoSession}]
    BY DEF LInv, TypeOK
  <2>2. CASE KidReject(c)
    BY <2>1, <2>2 DEF KidReject
  <2>3. CASE KidAccept(c)
    <3>1. [desk |-> r.desk, ticket |-> r.ticket] \in [desk : Desks, ticket : Tickets]
      BY <1>1, <1>2, <2>3 DEF KidAccept, OpenRec
    <3>. QED
      BY <2>1, <2>3, <3>1 DEF KidAccept
  <2>4. CASE UNCHANGED session
    BY <2>1, <2>4
  <2>. QED
    BY <2>2, <2>3, <2>4 DEF KidStep, KidPair, KidWritePair, KidResumed, KidDrop, Cut, files
<1>9. paired' \in [Kids -> BOOLEAN] /\ pairFile' \in [Kids -> BOOLEAN]
  BY DEF KidStep, KidReject, KidAccept, KidPair, KidWritePair, KidResumed, KidDrop, Cut, files,
         LInv, TypeOK
<1>10. breaks' \in 0 .. MaxBreaks
  <2>1. breaks \in 0 .. MaxBreaks /\ MaxBreaks \in Nat
    BY SessionAssumption DEF LInv, TypeOK
  <2>2. breaks' = breaks \/ (breaks < MaxBreaks /\ breaks' = breaks + 1)
    BY DEF KidStep, KidReject, KidAccept, KidPair, KidWritePair, KidResumed, KidDrop, Cut
  <2>. QED
    BY <2>1, <2>2
<1>11. RestOK'
  BY <1>6, <1>8, <1>9, <1>10, TypeParts DEF LInv, RestOK
<1>. QED
  BY <1>7, <1>11, TypesAgain DEF LInv

\* The handlers of a desk, until they attach.
LEMMA DeskLive ==
  ASSUME IInv, LInv, NEW c \in Conns, DeskOffer(c) \/ DeskSave(c) \/ DeskResume(c)
  PROVE  LInv'
<1>. DEFINE r == conn[c]
            no == Answer(r, "reject")
            load == [r EXCEPT !.at = "loaded", !.file = household[r.desk]]
            save == [r EXCEPT !.at = "saved", !.says = "accept", !.ticket = issued + 1,
                              !.file = <<>>]
            known == [r EXCEPT !.at = "saved", !.says = "ok"]
<1>1. r.deskEnd /\ r \in OpenRec /\ r.at \in {"hello", "loaded"}
  <2>1. r.deskEnd /\ r.at \in {"hello", "loaded"}
    BY DEF DeskOffer, DeskSave, DeskResume
  <2>. QED
    BY <2>1, IsOpen
<1>2. ~ r.mine
  BY <1>1 DEF LInv, MineIsAttached, Attached
<1>3. /\ RestOK /\ Kid(c) \in Kids /\ r.desk \in Desks
  BY <1>1, TypeParts, Facts DEF LInv, OpenRec
<1>4. no \in OpenRec /\ no.says = "reject" /\ ~ no.deskEnd
  BY <1>1 DEF OpenRec, Answer, Stages, Answers
<1>5. /\ load \in OpenRec /\ load.says = r.says /\ load.ticket = r.ticket
      /\ ~ load.mine /\ load.at = "loaded"
  <2>1. household[r.desk] \in Records
    BY <1>3 DEF RestOK, Records
  <2>. QED
    BY <1>1, <1>2, <2>1 DEF OpenRec, Stages
<1>6. known \in OpenRec /\ known.says = "ok" /\ ~ known.mine /\ known.at = "saved"
  BY <1>1, <1>2 DEF OpenRec, Stages, Answers
<1>7. UNCHANGED <<session, paired, pairFile, link, breaks, stale>>
  BY DEF DeskOffer, DeskSave, DeskResume, files
<1>8. CASE DeskSave(c)
  <2>1. issued' = issued + 1 /\ issued' \in Tickets /\ issued' \in 0 .. MaxTickets
    BY <1>3, <1>8, SessionAssumption DEF DeskSave, RestOK, Tickets
  <2>2. /\ save \in OpenRec /\ save.says = "accept" /\ save.ticket = issued'
        /\ ~ save.mine /\ save.at = "saved"
    BY <1>1, <1>2, <2>1 DEF OpenRec, Stages, Answers
  <2>3. Set(c, save)
    BY <1>8, <2>1 DEF DeskSave
  <2>4. household' \in [Desks -> [Kids -> Tickets \union {NoTicket}]]
    <3>1. r.file \in Records
      BY <1>1, <1>8 DEF IInv, OpenHasDesk, DeskSave
    <3>2. [r.file EXCEPT ![Kid(c)] = issued'] \in [Kids -> Tickets \union {NoTicket}]
      BY <2>1, <3>1 DEF Records
    <3>. QED
      BY <1>3, <1>8, <3>2 DEF DeskSave, RestOK
  <2>. HIDE DEF save
  <2>5. /\ conn' \in [Conns -> OpenRec \union {Closed}]
        /\ AcceptHasTicket' /\ MineIsAttached' /\ AttachedIsLive'
    BY <1>7, <2>1, <2>2, <2>3, QuietKeeps DEF Attached
  <2>6. RestOK'
    BY <1>3, <1>7, <2>1, <2>4 DEF RestOK
  <2>. QED
    BY <2>5, <2>6, TypesAgain DEF LInv
<1>9. CASE DeskOffer(c) \/ DeskResume(c)
  <2>1. UNCHANGED <<household, issued>>
    BY <1>9 DEF DeskOffer, DeskResume
  <2>2. Set(c, no) \/ Set(c, load) \/ Set(c, known)
    BY <1>9, Zenon DEF DeskOffer, DeskResume
  <2>3. r.says = "accept" => r.ticket \in Tickets
    BY DEF LInv, AcceptHasTicket
  <2>. HIDE DEF no, load, known
  <2>4. /\ conn' \in [Conns -> OpenRec \union {Closed}]
        /\ AcceptHasTicket' /\ MineIsAttached' /\ AttachedIsLive'
    <3>1. CASE Set(c, no)
      BY <1>4, <1>7, <3>1, QuietKeeps
    <3>2. CASE Set(c, load)
      BY <1>5, <1>7, <2>3, <3>2, QuietKeeps DEF Attached
    <3>3. CASE Set(c, known)
      BY <1>6, <1>7, <3>3, QuietKeeps DEF Attached
    <3>. QED
      BY <2>2, <3>1, <3>2, <3>3
  <2>5. RestOK'
    BY <1>3, <1>7, <2>1 DEF RestOK
  <2>. QED
    BY <2>4, <2>5, TypesAgain DEF LInv
<1>. QED
  BY <1>8, <1>9

\* attach: no other connection to this desk is one that its kid is on.
LEMMA AttachLive == ASSUME IInv, LInv, NEW c \in Conns, DeskAttach(c) PROVE LInv'
<1>. DEFINE r == conn[c]
            n == [Answer(r, r.says) EXCEPT !.mine = TRUE]
            d == r.desk
            k == Kid(c)
<1>1. r.deskEnd /\ r \in OpenRec /\ r.at = "saved"
  BY IsOpen DEF DeskAttach
<1>2. RestOK /\ k \in Kids /\ d \in Desks
  BY <1>1, TypeParts, Facts DEF LInv, OpenRec
<1>3. r.says = "accept" => r.ticket \in Tickets
  BY DEF LInv, AcceptHasTicket
<1>4. /\ n \in OpenRec /\ n.says = r.says /\ n.ticket = r.ticket /\ n.mine /\ n.at = "answer"
      /\ n.desk = d /\ n.kidEnd = r.kidEnd
  BY <1>1 DEF OpenRec, Answer, Stages, Answers
<1>5. /\ Set(c, n)
      /\ link' = [link EXCEPT ![d][k] = c]
      /\ stale' = [stale EXCEPT ![d][k] = ~ r.kidEnd]
      /\ UNCHANGED <<session, paired, pairFile, household, issued, breaks>>
  BY DEF DeskAttach, files
<1>. HIDE DEF n
<1>6. /\ conn' \in [Conns -> OpenRec \union {Closed}]
      /\ AcceptHasTicket' /\ MineIsAttached'
      /\ conn'[c] = n \/ conn'[c] = Closed
      /\ \A e \in Conns \ {c} : conn'[e] = conn[e]
  BY <1>3, <1>4, <1>5, SetKeeps DEF Attached
<1>7. /\ \A b \in Desks, m \in Kids : b # d \/ m # k =>
            link'[b][m] = link[b][m] /\ stale'[b][m] = stale[b][m]
      /\ link'[d][k] = c /\ stale'[d][k] = ~ r.kidEnd
  BY <1>2, <1>5 DEF RestOK
<1>8. AttachedIsLive'
  <2>. SUFFICES ASSUME NEW e \in Conns, conn'[e].kidEnd, conn'[e].deskEnd, conn'[e].mine
                PROVE  link'[conn'[e].desk][Kid(e)] = e \/ stale'[conn'[e].desk][Kid(e)]
    BY DEF AttachedIsLive
  <2>1. CASE e = c
    <3>1. conn'[e].desk = d
      BY <1>4, <1>6, <2>1, OpenOrClosed
    <3>. QED
      BY <1>7, <2>1, <3>1
  <2>2. CASE e # c
    <3>1. conn'[e] = conn[e] /\ conn[e].desk \in Desks /\ Kid(e) \in Kids
      BY <1>6, <2>2, IsOpen, Facts DEF OpenRec
    <3>2. CASE conn[e].desk = d /\ Kid(e) = k
      <4>1. ~ r.kidEnd
        BY <2>2, <3>1, <3>2 DEF IInv, OneDial
      <4>. QED
        BY <1>7, <3>1, <3>2, <4>1
    <3>3. CASE conn[e].desk # d \/ Kid(e) # k
      BY <1>7, <3>1, <3>3 DEF LInv, AttachedIsLive
    <3>. QED
      BY <3>2, <3>3
  <2>. QED
    BY <2>1, <2>2
<1>9. RestOK'
  <2>1. link' \in [Desks -> [Kids -> Conns \union {NoConn}]]
    BY <1>2, <1>5 DEF RestOK
  <2>2. stale' \in [Desks -> [Kids -> BOOLEAN]]
    <3>1. (~ r.kidEnd) \in BOOLEAN
      OBVIOUS
    <3>. QED
      BY <1>2, <1>5, <3>1 DEF RestOK
  <2>. QED
    BY <1>2, <1>5, <2>1, <2>2 DEF RestOK
<1>. QED
  BY <1>6, <1>8, <1>9, TypesAgain DEF LInv

\* OnDrop: a link it takes from another connection is stale from then on.
LEMMA DropLive == ASSUME IInv, LInv, NEW c \in Conns, DeskDrop(c) PROVE LInv'
<1>. DEFINE r == conn[c]
            n == [r EXCEPT !.deskEnd = FALSE]
            d == r.desk
            k == Kid(c)
<1>1. r.deskEnd /\ ~ r.kidEnd /\ r \in OpenRec
  BY IsOpen DEF DeskDrop
<1>2. RestOK /\ k \in Kids /\ d \in Desks
  BY <1>1, TypeParts, Facts DEF LInv, OpenRec
<1>3. r.says = "accept" => r.ticket \in Tickets
  BY DEF LInv, AcceptHasTicket
<1>4. n \in OpenRec /\ n.says = r.says /\ n.ticket = r.ticket /\ ~ n.deskEnd /\ ~ n.kidEnd
  BY <1>1 DEF OpenRec
<1>5. /\ Set(c, n) /\ UNCHANGED <<session, paired, pairFile, household, issued, breaks>>
  BY DEF DeskDrop, files
<1>. HIDE DEF n
<1>6. /\ conn' \in [Conns -> OpenRec \union {Closed}]
      /\ AcceptHasTicket' /\ MineIsAttached'
      /\ conn'[c] = n \/ conn'[c] = Closed
      /\ \A e \in Conns \ {c} : conn'[e] = conn[e]
  BY <1>3, <1>4, <1>5, SetKeeps
<1>7. CASE ~ r.mine
  <2>1. UNCHANGED <<link, stale>>
    BY <1>7 DEF DeskDrop
  <2>2. AttachedIsLive'
    BY <1>4, <1>6, <2>1, OpenOrClosed DEF LInv, AttachedIsLive
  <2>3. RestOK'
    BY <1>2, <1>5, <2>1 DEF RestOK
  <2>. QED
    BY <1>6, <2>2, <2>3, TypesAgain DEF LInv
<1>8. CASE r.mine
  <2>1. /\ link' = [link EXCEPT ![d][k] = NoConn]
        /\ stale' = [stale EXCEPT ![d][k] = stale[d][k] \/ link[d][k] # c]
    BY <1>8 DEF DeskDrop
  <2>2. /\ \A b \in Desks, m \in Kids : b # d \/ m # k =>
              link'[b][m] = link[b][m] /\ stale'[b][m] = stale[b][m]
        /\ stale'[d][k] = (stale[d][k] \/ link[d][k] # c)
    BY <1>2, <2>1 DEF RestOK
  <2>3. AttachedIsLive'
    <3>. SUFFICES ASSUME NEW e \in Conns, conn'[e].kidEnd, conn'[e].deskEnd, conn'[e].mine
                  PROVE  link'[conn'[e].desk][Kid(e)] = e \/ stale'[conn'[e].desk][Kid(e)]
      BY DEF AttachedIsLive
    <3>1. e # c
      BY <1>4, <1>6, OpenOrClosed
    <3>2. conn'[e] = conn[e] /\ conn[e].desk \in Desks /\ Kid(e) \in Kids
      BY <1>6, <3>1, IsOpen, Facts DEF OpenRec
    <3>3. link[conn[e].desk][Kid(e)] = e \/ stale[conn[e].desk][Kid(e)]
      BY <3>2 DEF LInv, AttachedIsLive
    <3>4. CASE conn[e].desk = d /\ Kid(e) = k
      BY <2>2, <3>1, <3>2, <3>3, <3>4
    <3>5. CASE conn[e].desk # d \/ Kid(e) # k
      BY <2>2, <3>2, <3>3, <3>5
    <3>. QED
      BY <3>4, <3>5
  <2>4. RestOK'
    <3>1. link' \in [Desks -> [Kids -> Conns \union {NoConn}]]
      BY <1>2, <2>1 DEF RestOK
    <3>2. stale' \in [Desks -> [Kids -> BOOLEAN]]
      <4>1. (stale[d][k] \/ link[d][k] # c) \in BOOLEAN
        OBVIOUS
      <4>. QED
        BY <1>2, <2>1, <4>1 DEF RestOK
    <3>. QED
      BY <1>2, <1>5, <3>1, <3>2 DEF RestOK
  <2>. QED
    BY <1>6, <2>3, <2>4, TypesAgain DEF LInv
<1>. QED
  BY <1>7, <1>8

LEMMA RestartLive == ASSUME LInv, NEW d \in Desks, DeskRestart(d) PROVE LInv'
<1>1. UNCHANGED <<session, paired, pairFile, household, issued>>
  BY DEF DeskRestart, files
<1>2. /\ link' = [link EXCEPT ![d] = [k \in Kids |-> NoConn]]
      /\ stale' = [stale EXCEPT ![d] = [k \in Kids |-> FALSE]]
      /\ breaks' = breaks + 1 /\ breaks < MaxBreaks
  BY DEF DeskRestart
<1>3. RestOK
  BY TypeParts DEF LInv
<1>4. RestOK'
  <2>1. link' \in [Desks -> [Kids -> Conns \union {NoConn}]]
    BY <1>2, <1>3 DEF RestOK
  <2>2. stale' \in [Desks -> [Kids -> BOOLEAN]]
    BY <1>2, <1>3 DEF RestOK
  <2>3. breaks' \in 0 .. MaxBreaks
    BY <1>2, <1>3, SessionAssumption DEF RestOK
  <2>. QED
    BY <1>1, <1>3, <2>1, <2>2, <2>3 DEF RestOK
<1>5. ASSUME NEW e \in Conns
      PROVE  /\ conn'[e] \in OpenRec \union {Closed}
             /\ \/ conn'[e] = Closed
                \/ conn'[e] = conn[e] /\ conn[e].desk # d
                \/ /\ ~ conn'[e].deskEnd
                   /\ conn'[e].says = conn[e].says /\ conn'[e].ticket = conn[e].ticket
  <2>1. \/ conn'[e] = Closed
        \/ conn'[e] = conn[e] /\ conn[e].desk # d
        \/ conn'[e] = [conn[e] EXCEPT !.deskEnd = FALSE, !.file = <<>>] /\ conn[e].kidEnd
    BY DEF DeskRestart
  <2>2. CASE conn'[e] = [conn[e] EXCEPT !.deskEnd = FALSE, !.file = <<>>] /\ conn[e].kidEnd
    <3>1. conn[e] \in OpenRec
      BY <2>2, IsOpen
    <3>. QED
      BY <2>2, <3>1 DEF OpenRec
  <2>. QED
    BY <2>1, <2>2, OpenOrClosed DEF LInv
<1>6. conn' \in [Conns -> OpenRec \union {Closed}]
  <2>1. conn' = [e \in Conns |-> conn'[e]]
    BY DEF DeskRestart
  <2>. QED
    BY <1>5, <2>1
<1>7. AcceptHasTicket' /\ MineIsAttached'
  BY <1>5, OpenOrClosed DEF LInv, AcceptHasTicket, MineIsAttached
<1>8. AttachedIsLive'
  <2>. SUFFICES ASSUME NEW e \in Conns, conn'[e].kidEnd, conn'[e].deskEnd, conn'[e].mine
                PROVE  link'[conn'[e].desk][Kid(e)] = e \/ stale'[conn'[e].desk][Kid(e)]
    BY DEF AttachedIsLive
  <2>1. conn'[e] = conn[e] /\ conn[e].desk # d
    BY <1>5, OpenOrClosed
  <2>2. conn[e].desk \in Desks
    BY <2>1, IsOpen DEF OpenRec
  <2>3. link'[conn[e].desk] = link[conn[e].desk] /\ stale'[conn[e].desk] = stale[conn[e].desk]
    BY <1>2, <1>3, <2>1, <2>2 DEF RestOK
  <2>. QED
    BY <2>1, <2>3 DEF LInv, AttachedIsLive
<1>. QED
  BY <1>4, <1>6, <1>7, <1>8, TypesAgain DEF LInv

LEMMA LInit == Init => LInv
<1>. SUFFICES ASSUME Init PROVE LInv
  OBVIOUS
<1>1. RestOK
  <2>1. issued \in 0 .. MaxTickets /\ breaks \in 0 .. MaxBreaks
    BY SessionAssumption DEF Init
  <2>2. session \in [Kids -> [desk : Desks, ticket : Tickets] \union {NoSession}]
    BY DEF Init
  <2>3. paired \in [Kids -> BOOLEAN] /\ pairFile \in [Kids -> BOOLEAN]
    BY DEF Init
  <2>4. /\ household \in [Desks -> [Kids -> Tickets \union {NoTicket}]]
        /\ link \in [Desks -> [Kids -> Conns \union {NoConn}]]
        /\ stale \in [Desks -> [Kids -> BOOLEAN]]
    BY DEF Init
  <2>. QED
    BY <2>1, <2>2, <2>3, <2>4 DEF RestOK
<1>2. conn = [c \in Conns |-> Closed]
  BY DEF Init
<1>. HIDE DEF Init
<1>3. conn \in [Conns -> OpenRec \union {Closed}] /\ \A c \in Conns : conn[c] = Closed
  BY <1>2, Zenon
<1>4. AcceptHasTicket /\ MineIsAttached /\ AttachedIsLive
  BY <1>3, OpenOrClosed DEF AcceptHasTicket, MineIsAttached, AttachedIsLive
<1>. QED
  BY <1>1, <1>3, <1>4, TypeParts DEF LInv

LEMMA LStep == IInv /\ LInv /\ [Next]_vars => LInv'
<1>. SUFFICES ASSUME IInv, LInv, [Next]_vars PROVE LInv'
  OBVIOUS
<1>1. CASE \E k \in Kids, d \in Desks, c \in Conns : Dial(k, d, c)
  BY <1>1, DialLive
<1>2. ASSUME NEW c \in Conns, KidStep(c) \/ Cut(c) PROVE LInv'
  BY <1>2, KidLive
<1>3. ASSUME NEW c \in Conns, DeskStep(c) PROVE LInv'
  BY <1>3, DeskLive, AttachLive, DropLive DEF DeskStep
<1>4. CASE \E d \in Desks : DeskRestart(d)
  BY <1>4, RestartLive
<1>5. CASE UNCHANGED vars
  BY <1>5 DEF vars, files, LInv, TypeOK, AcceptHasTicket, MineIsAttached, AttachedIsLive
<1>. QED
  BY <1>1, <1>2, <1>3, <1>4, <1>5 DEF Next

\* Every variable of the kid's dialer and of the desk's handlers has its type.
THEOREM SessionTypes == Spec => []TypeOK
<1>1. LInv => TypeOK
  BY DEF LInv
<1>. QED
  BY <1>1, IInit, IStep, LInit, LStep, PTL DEF Spec

\* A kid that is up is live at its desk, unless an older connection of that
\* kid was attached or dropped after it (attach, detach): whatever the order
\* in which the handlers of a desk run, that is the only way to lose the link.
THEOREM ServingKidIsLive == Spec => []UpIsLive
<1>1. LInv => UpIsLive
  <2>. SUFFICES ASSUME LInv, NEW c \in Conns, Up(c), conn[c].deskEnd
                PROVE  link[conn[c].desk][Kid(c)] = c \/ stale[conn[c].desk][Kid(c)]
    BY DEF UpIsLive
  <2>1. conn[c].kidEnd /\ conn[c].mine
    BY DEF Up, LInv, MineIsAttached, Attached
  <2>. QED
    BY <2>1 DEF LInv, AttachedIsLive
<1>. QED
  BY <1>1, IInit, IStep, LInit, LStep, PTL DEF Spec
=============================================================================
