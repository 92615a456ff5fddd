------------------------------ MODULE Session ------------------------------
(***************************************************************************)
(* How a kid's computer finds its parent's desk and stays with it          *)
(* (daemon/internal/dial, desk, reverse, household).  The kid dials; its   *)
(* first frame is an Offer, or a Resume with the ticket of its session     *)
(* file.  The desk answers an Offer with a fresh ticket, which it keeps in *)
(* household.json, and holds the connection as the kid's link.             *)
(*                                                                         *)
(* On the desk every connection has a goroutine; only the map of links is  *)
(* under a lock.  The two ends of a connection close independently: a desk *)
(* may go on for a while with a connection the kid has left.               *)
(***************************************************************************)
EXTENDS Integers

CONSTANTS
    Kids, Desks,
    Slots,       \* bound: connections of a kid with an end open at a time
    NoDesk, NoConn,
    MaxTickets,  \* bound: tickets the desks issue
    MaxBreaks    \* bound: connections cut and desks restarted

ASSUME SessionAssumption ==
    /\ MaxTickets \in Nat /\ MaxBreaks \in Nat
    /\ Slots \in Nat /\ NoDesk \notin Desks

Conns == Kids \X (1 .. Slots)
Kid(c) == c[1]  \* who dialed it

ASSUME ConnAssumption == NoConn \notin Conns

NoTicket == 0
Tickets == 1 .. MaxTickets
NoSession == [desk |-> NoDesk, ticket |-> NoTicket]

VARIABLES
    session,    \* session[k]: parent-session.json
    paired,     \* paired[k]: the kid's bank has given out its pair token
    pairFile,   \* pairFile[k]: parent-pair holds that token
    household,  \* household[d][k]: the ticket of k's record, or NoTicket
    link,       \* link[d][k]: the connection of k's live link, or NoConn
    conn,       \* conn[c]: a connection and the handlers at its two ends
    issued,     \* tickets issued so far
    breaks,     \* cuts and restarts so far
    stale       \* history: the last to attach to or drop from link[d][k] was
                \* a connection the kid had left for another

files == <<session, paired, pairFile>>
vars == <<session, paired, pairFile, household, link, conn, issued, breaks, stale>>

-----------------------------------------------------------------------------
Stages == {"hello",   \* the kid's first frame is under way
           "loaded",  \* acceptOffer has read household.json
           "saved",   \* the record is written, or found; attach is next
           "answer",  \* the desk's answer is under way
           "took",    \* the kid has saved its session; pairOnce is next
           "paired",  \* the bank has paired; parent-pair is next
           "up"}
Answers == {"accept", "ok", "reject"}

\* both ends closed
Closed == [desk |-> NoDesk, kidEnd |-> FALSE, deskEnd |-> FALSE,
           at |-> "", ticket |-> NoTicket, says |-> "", mine |-> FALSE,
           file |-> <<>>]

\* a connection that loses its last open end leaves nothing behind
Set(c, r) == conn' = [conn EXCEPT ![c] = IF r.kidEnd \/ r.deskEnd THEN r ELSE Closed]

Answer(r, what) == [r EXCEPT !.at = "answer", !.says = what,
                             !.deskEnd = what # "reject", !.file = <<>>]

\* the one connection a kid's dialer works on
Dialing(k) == \E c \in Conns : conn[c].kidEnd /\ Kid(c) = k

Init ==
    /\ session = [k \in Kids |-> NoSession]
    /\ paired = [k \in Kids |-> FALSE] /\ pairFile = [k \in Kids |-> FALSE]
    /\ household = [d \in Desks |-> [k \in Kids |-> NoTicket]]
    /\ link = [d \in Desks |-> [k \in Kids |-> NoConn]]
    /\ conn = [c \in Conns |-> Closed]
    /\ issued = 0 /\ breaks = 0
    /\ stale = [d \in Desks |-> [k \in Kids |-> FALSE]]

-----------------------------------------------------------------------------
(* The kid: dial.Run, hello, and the frames it handles.                    *)

\* The endpoints are tried in turn, the session's parent first; which of them
\* can be reached is up to the network.
Dial(k, d, c) ==
    /\ Kid(c) = k /\ ~Dialing(k) /\ conn[c] = Closed
    /\ Set(c, [Closed EXCEPT !.desk = d, !.kidEnd = TRUE, !.deskEnd = TRUE,
                             !.at = "hello", !.ticket = session[k].ticket])
    /\ UNCHANGED <<files, household, link, issued, breaks, stale>>

\* mutant: the ticket is wiped, the desk stays
KidRejectKeepsDesk(c) ==
    LET r == conn[c] IN
    /\ r.kidEnd /\ r.at = "answer" /\ r.says = "reject"
    /\ session' = [session EXCEPT ![Kid(c)].ticket = NoTicket]
    /\ Set(c, [r EXCEPT !.kidEnd = FALSE])
    /\ UNCHANGED <<paired, pairFile, household, link, issued, breaks, stale>>

\* OnReject
KidReject(c) ==
    LET r == conn[c] IN
    /\ r.kidEnd /\ r.at = "answer" /\ r.says = "reject"
    /\ session' = [session EXCEPT ![Kid(c)] = NoSession]
    /\ Set(c, [r EXCEPT !.kidEnd = FALSE])
    /\ UNCHANGED <<paired, pairFile, household, link, issued, breaks, stale>>

\* OnAccept, SaveSession
KidAccept(c) ==
    LET r == conn[c] IN
    /\ r.kidEnd /\ r.at = "answer" /\ r.says = "accept"
    /\ session' = [session EXCEPT ![Kid(c)] =
                       [desk |-> r.desk, ticket |-> r.ticket]]
    /\ Set(c, [r EXCEPT !.at = "took"])
    /\ UNCHANGED <<paired, pairFile, household, link, issued, breaks, stale>>

\* pairOnce: the file, or else the bank, which pairs once.  An error closes.
KidPair(c) ==
    LET r == conn[c] IN
    /\ r.kidEnd /\ r.at = "took"
    /\ \/ /\ pairFile[Kid(c)]
          /\ Set(c, [r EXCEPT !.at = "up"]) /\ UNCHANGED paired
       \/ /\ ~pairFile[Kid(c)] /\ paired[Kid(c)]
          /\ Set(c, [r EXCEPT !.kidEnd = FALSE]) /\ UNCHANGED paired
       \/ /\ ~pairFile[Kid(c)] /\ ~paired[Kid(c)]
          /\ Set(c, [r EXCEPT !.at = "paired"])
          /\ paired' = [paired EXCEPT ![Kid(c)] = TRUE]
    /\ UNCHANGED <<session, pairFile, household, link, issued, breaks, stale>>

\* pairOnce, the file with the token
KidWritePair(c) ==
    LET r == conn[c] IN
    /\ r.kidEnd /\ r.at = "paired"
    /\ pairFile' = [pairFile EXCEPT ![Kid(c)] = TRUE]
    /\ Set(c, [r EXCEPT !.at = "up"])
    /\ UNCHANGED <<session, paired, household, link, issued, breaks, stale>>

\* mutant: the token is left for the first operation to miss
KidResumedBlindly(c) ==
    LET r == conn[c] IN
    /\ r.kidEnd /\ r.at = "answer" /\ r.says = "ok"
    /\ Set(c, [r EXCEPT !.at = "up"])
    /\ UNCHANGED <<files, household, link, issued, breaks, stale>>

\* OnResumeOK: loadPair, whose error closes the connection
KidResumed(c) ==
    LET r == conn[c] IN
    /\ r.kidEnd /\ r.at = "answer" /\ r.says = "ok"
    /\ Set(c, IF pairFile[Kid(c)] THEN [r EXCEPT !.at = "up"]
                                 ELSE [r EXCEPT !.kidEnd = FALSE])
    /\ UNCHANGED <<files, household, link, issued, breaks, stale>>

\* ServeConn reads the end of a connection the desk has closed; what was
\* under way is lost.
KidDrop(c) ==
    LET r == conn[c] IN
    /\ r.kidEnd /\ ~r.deskEnd /\ r.at \notin {"took", "paired"}
    /\ Set(c, [r EXCEPT !.kidEnd = FALSE])
    /\ UNCHANGED <<files, household, link, issued, breaks, stale>>

\* The network goes, or the kid's computer, at any point.
Cut(c) ==
    LET r == conn[c] IN
    /\ r.kidEnd /\ breaks < MaxBreaks
    /\ breaks' = breaks + 1
    /\ Set(c, [r EXCEPT !.kidEnd = FALSE])
    /\ UNCHANGED <<files, household, link, issued, stale>>

KidStep(c) == \/ KidReject(c) \/ KidAccept(c) \/ KidPair(c)
              \/ KidWritePair(c) \/ KidResumed(c) \/ KidDrop(c)

-----------------------------------------------------------------------------
(* The desk: one handler for each connection.                              *)

\* acceptOffer: a kid that has a record is turned down
DeskOffer(c) ==
    LET r == conn[c] IN
    /\ r.deskEnd /\ r.at = "hello" /\ r.ticket = NoTicket
    /\ Set(c, IF household[r.desk][Kid(c)] # NoTicket THEN Answer(r, "reject")
              ELSE [r EXCEPT !.at = "loaded", !.file = household[r.desk]])
    /\ UNCHANGED <<files, household, link, issued, breaks, stale>>

\* acceptOffer: the file as it was read, with the new record
DeskSave(c) ==
    LET r == conn[c] IN
    /\ r.deskEnd /\ r.at = "loaded" /\ issued < MaxTickets
    /\ issued' = issued + 1
    /\ household' = [household EXCEPT ![r.desk] =
                         [r.file EXCEPT ![Kid(c)] = issued']]
    /\ Set(c, [r EXCEPT !.at = "saved", !.says = "accept", !.ticket = issued',
                        !.file = <<>>])
    /\ UNCHANGED <<files, link, breaks, stale>>

\* acceptResume
DeskResume(c) ==
    LET r == conn[c] IN
    /\ r.deskEnd /\ r.at = "hello" /\ r.ticket # NoTicket
    /\ Set(c, IF household[r.desk][Kid(c)] = r.ticket
              THEN [r EXCEPT !.at = "saved", !.says = "ok"]
              ELSE Answer(r, "reject"))
    /\ UNCHANGED <<files, household, link, issued, breaks, stale>>

\* mutant: a link that is live is not replaced
AttachIfFree(c) ==
    LET r == conn[c] IN
    /\ r.deskEnd /\ r.at = "saved"
    /\ link' = IF link[r.desk][Kid(c)] = NoConn
               THEN [link EXCEPT ![r.desk][Kid(c)] = c] ELSE link
    /\ stale' = [stale EXCEPT ![r.desk][Kid(c)] = ~r.kidEnd]
    /\ Set(c, [Answer(r, r.says) EXCEPT !.mine = TRUE])
    /\ UNCHANGED <<files, household, issued, breaks>>

\* attach replaces the link; the answer is written after it
DeskAttach(c) ==
    LET r == conn[c] IN
    /\ r.deskEnd /\ r.at = "saved"
    /\ link' = [link EXCEPT ![r.desk][Kid(c)] = c]
    /\ stale' = [stale EXCEPT ![r.desk][Kid(c)] = ~r.kidEnd]
    /\ Set(c, [Answer(r, r.says) EXCEPT !.mine = TRUE])
    /\ UNCHANGED <<files, household, issued, breaks>>

\* OnDrop, when ServeConn reads the end of a connection the kid has left:
\* detach goes by the kid's id, whichever connection the link is now.
DeskDrop(c) ==
    LET r == conn[c] IN
    /\ r.deskEnd /\ ~r.kidEnd /\ r.at \notin {"loaded", "saved"}
    /\ IF r.mine
       THEN /\ link' = [link EXCEPT ![r.desk][Kid(c)] = NoConn]
            /\ stale' = [stale EXCEPT ![r.desk][Kid(c)] =
                             @ \/ link[r.desk][Kid(c)] # c]
       ELSE UNCHANGED <<link, stale>>
    /\ Set(c, [r EXCEPT !.deskEnd = FALSE])
    /\ UNCHANGED <<files, household, issued, breaks>>

\* The desk is closed and started again: the links go, the file stays.
DeskRestart(d) ==
    /\ breaks < MaxBreaks
    /\ breaks' = breaks + 1
    /\ link' = [link EXCEPT ![d] = [k \in Kids |-> NoConn]]
    /\ stale' = [stale EXCEPT ![d] = [k \in Kids |-> FALSE]]
    /\ conn' = [c \in Conns |->
                  IF conn[c].desk # d THEN conn[c]
                  ELSE IF ~conn[c].kidEnd THEN Closed
                  ELSE [conn[c] EXCEPT !.deskEnd = FALSE, !.file = <<>>]]
    /\ UNCHANGED <<files, household, issued>>

DeskStep(c) == \/ DeskOffer(c) \/ DeskSave(c) \/ DeskResume(c)
               \/ DeskAttach(c) \/ DeskDrop(c)

-----------------------------------------------------------------------------
Next ==
    \/ \E k \in Kids, d \in Desks, c \in Conns : Dial(k, d, c)
    \/ \E c \in Conns : KidStep(c) \/ DeskStep(c) \/ Cut(c)
    \/ \E d \in Desks : DeskRestart(d)

\* The dialer tries for ever, each handler goes on, and the keep-alives of
\* TCP end a connection whose other end is gone.
Fairness ==
    /\ \A k \in Kids, d \in Desks : WF_vars(\E c \in Conns : Dial(k, d, c))
    /\ \A c \in Conns : WF_vars(KidStep(c)) /\ WF_vars(DeskStep(c))

Spec == Init /\ [][Next]_vars /\ Fairness

-----------------------------------------------------------------------------
(* Properties.                                                             *)

\* Every variable has its type.
TypeOK ==
    /\ session \in [Kids -> [desk : Desks, ticket : Tickets] \union {NoSession}]
    /\ paired \in [Kids -> BOOLEAN] /\ pairFile \in [Kids -> BOOLEAN]
    /\ household \in [Desks -> [Kids -> Tickets \union {NoTicket}]]
    /\ link \in [Desks -> [Kids -> Conns \union {NoConn}]]
    /\ conn \in [Conns ->
          [desk : Desks, kidEnd : BOOLEAN, deskEnd : BOOLEAN,
           at : Stages, ticket : Tickets \union {NoTicket},
           says : Answers \union {""}, mine : BOOLEAN,
           file : [Kids -> Tickets \union {NoTicket}] \union {<<>>}]
          \union {Closed}]
    /\ issued \in 0 .. MaxTickets /\ breaks \in 0 .. MaxBreaks
    /\ stale \in [Desks -> [Kids -> BOOLEAN]]

Up(c) == conn[c].kidEnd /\ conn[c].at = "up"

\* A kid that serves a desk has that desk, and the ticket it came with, on
\* its disk, and the token it serves with, however often pairing was cut short
\* and tried again (OnAccept, pairOnce, OnResumeOK).
UpIsPaired ==
    \A c \in Conns : Up(c) =>
        /\ pairFile[Kid(c)]
        /\ session[Kid(c)] =
               [desk |-> conn[c].desk, ticket |-> conn[c].ticket]

\* A kid that is up is live at its desk, unless an older connection of that
\* kid was attached or dropped after it (attach, detach).
UpIsLive ==
    \A c \in Conns : Up(c) /\ conn[c].deskEnd =>
        LET d == conn[c].desk
            k == Kid(c)
        IN  link[d][k] = c \/ stale[d][k]

\* A kid the desk knows comes back after every cut and restart, unless such an
\* older connection has taken its place (README.md, "If you reinstall on
\* yours, the kid computers you already claimed come back").
Known(k, d) ==
    /\ pairFile[k]
    /\ session[k].desk = d /\ household[d][k] = session[k].ticket

ComesBack ==
    \A k \in Kids, d \in Desks :
        Known(k, d) ~> link[d][k] # NoConn \/ stale[d][k] \/ ~Known(k, d)
=============================================================================
