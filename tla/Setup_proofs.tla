----------------------------- MODULE Setup_proofs -----------------------------
(***************************************************************************)
(* For any layouts, retired ids, checkouts and numbers of runs, starts and *)
(* kills: the types, and the pair of tokens of a kid setup, whatever the   *)
(* two programs do at once; and, as long as setup and the panel's program  *)
(* do not run at once, the folder of the new plugin never hangs on a       *)
(* retired folder that is gone, no write of shell.json takes the chip off  *)
(* the bar or moves another widget, and a setup that ended with no error   *)
(* leaves one chip and no retired folder.                                  *)
(***************************************************************************)
EXTENDS Setup, TLAPS, WellFoundedInduction

\* The steps of a setup before it may link the checkout, and those of a
\* migration that has settled what the new folder is.
BeforeLink == {"locked", "config", "seed", "reuse", "mintRead", "mintAsk", "place", "link"}
Retiring == {"retire", "drop", "dropWrite", "next"}

OneRuns == at["setup"] = "off" \/ at["live"] = "off"
CheckoutIsThere == at["setup"] \in BeforeLink /\ repo = "old" => Legacy \in olds
LinkIsMoved == \A p \in Procs : at[p] \in Retiring => dest # "old"

IInv ==
  /\ DOMAIN at = Procs
  /\ OneRuns /\ CheckoutIsThere /\ LinkIsMoved
  /\ NeverDangles

\* A step of p that leaves the folders and the checkout alone keeps the
\* invariant, unless it enters one of the two groups of steps.
LEMMA StepsAside ==
  ASSUME IInv, NEW p \in Procs, at[p] # "off", NEW step,
         at' = [at EXCEPT ![p] = step],
         UNCHANGED <<dest, olds, repo>>,
         step \in BeforeLink => at[p] \in BeforeLink,
         step \in Retiring => at[p] \in Retiring
  PROVE  IInv'
<1>1. DOMAIN at' = Procs /\ at'[p] = step /\ \A q \in Procs \ {p} : at'[q] = at[q]
  BY DEF IInv
<1>2. OneRuns'
  BY <1>1 DEF IInv, OneRuns, Procs
<1>3. CheckoutIsThere'
  BY <1>1 DEF IInv, CheckoutIsThere, Procs
<1>4. LinkIsMoved'
  BY <1>1 DEF IInv, LinkIsMoved
<1>. QED
  BY <1>1, <1>2, <1>3, <1>4 DEF IInv, NeverDangles

-----------------------------------------------------------------------------
(* Setup                                                                   *)

LEMMA StartKeeps ==
  ASSUME ~ Overlap, IInv, NEW r, NEW src, Start(r, src) PROVE IInv'
<1>1. /\ at["live"] = "off" /\ UNCHANGED <<dest, olds>>
      /\ src = "old" => Legacy \in olds
      /\ repo' = src
  BY DEF Start, fileVars
<1>2. \E step \in {"locked", "config"} : at' = [at EXCEPT !["setup"] = step]
  BY DEF Start, Goto
<1>3. /\ DOMAIN at' = Procs /\ at'["live"] = "off"
      /\ at'["setup"] \in {"locked", "config"}
  BY <1>1, <1>2 DEF IInv, Procs
<1>. QED
  BY <1>1, <1>3 DEF IInv, OneRuns, CheckoutIsThere, LinkIsMoved, NeverDangles, Procs,
                    BeforeLink, Retiring

LEMMA SetupAside ==
  ASSUME IInv,
         \/ Locked \/ Config \/ SeedStep \/ Reuse \/ MintRead \/ MintAsk
         \/ Place \/ RoleStep \/ BarStep \/ Ensure \/ Unit \/ End
  PROVE  IInv'
<1>. DEFINE Aside == \E step \in Steps :
              /\ at["setup"] # "off"
              /\ at' = [at EXCEPT !["setup"] = step]
              /\ UNCHANGED <<dest, olds, repo>>
              /\ step \in BeforeLink => at["setup"] \in BeforeLink
              /\ step \notin Retiring
<1>. USE DEF BeforeLink, Retiring, Steps, Goto, fileVars, memVars
<1>1. CASE Locked
  <2>1. Aside
    BY <1>1 DEF Locked
  <2>. QED
    BY <2>1, StepsAside DEF Procs
<1>2. CASE Config
  <2>1. Aside
    BY <1>2 DEF Config
  <2>. QED
    BY <2>1, StepsAside DEF Procs
<1>3. CASE SeedStep
  <2>1. Aside
    BY <1>3 DEF SeedStep
  <2>. QED
    BY <2>1, StepsAside DEF Procs
<1>4. CASE Reuse
  <2>1. Aside
    BY <1>4 DEF Reuse
  <2>. QED
    BY <2>1, StepsAside DEF Procs
<1>5. CASE MintRead \/ MintAsk
  <2>1. Aside
    BY <1>5 DEF MintRead, MintAsk, Mint
  <2>. QED
    BY <2>1, StepsAside DEF Procs
<1>6. CASE Place
  <2>1. Aside
    BY <1>6 DEF Place
  <2>. QED
    BY <2>1, StepsAside DEF Procs
<1>7. CASE RoleStep
  <2>1. Aside
    BY <1>7 DEF RoleStep, WriteRole
  <2>. QED
    BY <2>1, StepsAside DEF Procs
<1>8. CASE BarStep
  <2>1. Aside
    BY <1>8 DEF BarStep
  <2>. QED
    BY <2>1, StepsAside DEF Procs
<1>9. CASE Ensure
  <2>1. Aside
    BY <1>9 DEF Ensure, WriteShell
  <2>. QED
    BY <2>1, StepsAside DEF Procs
<1>10. CASE Unit \/ End
  <2>1. Aside
    BY <1>10 DEF Unit, End
  <2>. QED
    BY <2>1, StepsAside DEF Procs
<1>. QED
  BY <1>1, <1>2, <1>3, <1>4, <1>5, <1>6, <1>7, <1>8, <1>9, <1>10

\* linkPlugin removes what is there and links the checkout, which is there.
LEMMA LinkKeeps == ASSUME IInv, Link PROVE IInv'
<1>1. /\ at["setup"] = "link" /\ dest' = repo /\ UNCHANGED <<olds, repo>>
      /\ at' = [at EXCEPT !["setup"] = "role"]
  BY DEF Link, Goto, memVars
<1>2. /\ DOMAIN at' = Procs /\ at'["setup"] = "role" /\ at'["live"] = "off"
  BY <1>1 DEF IInv, OneRuns, Procs
<1>3. repo = "old" => Legacy \in olds
  BY <1>1 DEF IInv, CheckoutIsThere, BeforeLink
<1>. QED
  BY <1>1, <1>2, <1>3 DEF IInv, OneRuns, CheckoutIsThere, LinkIsMoved, NeverDangles, Procs,
                          BeforeLink, Retiring

-----------------------------------------------------------------------------
(* The migration                                                           *)

LEMMA MigrationAside ==
  ASSUME IInv, NEW p \in Procs,
         \/ Migrate(p) \/ Rewrite(p) \/ Drop(p) \/ NextRetired(p)
         \/ \E next \in {"migrate", "role"} : Import(p, next)
         \/ \E r, next : WriteRole(p, r, next) /\ next = "off"
  PROVE  IInv'
<1>. DEFINE Aside == \E step \in Steps :
              /\ at[p] # "off"
              /\ at' = [at EXCEPT ![p] = step]
              /\ UNCHANGED <<dest, olds, repo>>
              /\ step \in BeforeLink => at[p] \in BeforeLink
              /\ step \in Retiring => at[p] \in Retiring
<1>. USE DEF BeforeLink, Retiring, Steps, Goto, fileVars, memVars, After
<1>1. CASE Migrate(p)
  <2>1. Aside
    BY <1>1 DEF Migrate
  <2>. QED
    BY <2>1, StepsAside
<1>2. CASE Rewrite(p)
  <2>1. Aside
    BY <1>2 DEF Rewrite, ReadShell, WriteShell
  <2>. QED
    BY <2>1, StepsAside
<1>3. CASE Drop(p)
  <2>1. Aside
    BY <1>3 DEF Drop, ReadShell, WriteShell
  <2>. QED
    BY <2>1, StepsAside
<1>4. CASE NextRetired(p)
  <2>1. Aside
    BY <1>4 DEF NextRetired
  <2>. QED
    BY <2>1, StepsAside
<1>5. ASSUME NEW next \in {"migrate", "role"}, Import(p, next) PROVE IInv'
  <2>1. Aside
    BY <1>5 DEF Import
  <2>. QED
    BY <2>1, StepsAside
<1>6. ASSUME NEW r, WriteRole(p, r, "off") PROVE IInv'
  <2>1. Aside
    BY <1>6 DEF WriteRole
  <2>. QED
    BY <2>1, StepsAside
<1>. QED
  BY <1>1, <1>2, <1>3, <1>4, <1>5, <1>6

\* Only one of the two runs: while p does, the other is off.
LEMMA OtherIsOff ==
  ASSUME IInv, NEW p \in Procs, at[p] # "off", NEW step, at' = [at EXCEPT ![p] = step]
  PROVE  /\ DOMAIN at' = Procs /\ at'[p] = step
         /\ \A q \in Procs \ {p} : at[q] = "off" /\ at'[q] = "off"
  BY DEF IInv, OneRuns, Procs

LEMMA FolderSteps ==
  ASSUME IInv, NEW p \in Procs, Links(p) \/ Unlink(p) \/ Swap(p) \/ Retire(p)
  PROVE  IInv'
<1>. USE DEF IInv, OneRuns, CheckoutIsThere, LinkIsMoved, NeverDangles, BeforeLink, Retiring
<1>1. CASE Links(p)
  <2>0. /\ at[p] = "links" /\ UNCHANGED <<dest, olds, repo>>
        /\ at' = [at EXCEPT ![p] = IF dest # "old" THEN "retire"
                                  ELSE IF Legacy \in olds THEN "unlink" ELSE "off"]
    BY <1>1 DEF Links, Goto, fileVars, memVars
  <2>1. /\ at[p] = "links" /\ UNCHANGED <<dest, olds, repo>>
        /\ \E step : /\ at' = [at EXCEPT ![p] = step]
                     /\ step \in {"retire", "unlink", "off"}
                     /\ step = "retire" => dest # "old"
    <3>. DEFINE step == IF dest # "old" THEN "retire"
                        ELSE IF Legacy \in olds THEN "unlink" ELSE "off"
    <3>1. step \in {"retire", "unlink", "off"} /\ (step = "retire" => dest # "old")
      OBVIOUS
    <3>2. at' = [at EXCEPT ![p] = step]
      BY <2>0
    <3>. HIDE DEF step
    <3>. QED
      BY <2>0, <3>1, <3>2
  <2>2. PICK step : /\ at' = [at EXCEPT ![p] = step]
                    /\ step \in {"retire", "unlink", "off"}
                    /\ step = "retire" => dest # "old"
    BY <2>1
  <2>3. /\ DOMAIN at' = Procs /\ at'[p] = step
        /\ \A q \in Procs \ {p} : at[q] = "off" /\ at'[q] = "off"
    BY <2>1, <2>2, OtherIsOff
  <2>. QED
    BY <2>1, <2>2, <2>3 DEF Procs
<1>2. CASE Unlink(p)
  <2>1. /\ at[p] = "unlink" /\ UNCHANGED <<olds, repo>>
        /\ dest' \in {"none", "real"}
        /\ \E step \in {"off", "swap"} : at' = [at EXCEPT ![p] = step]
    BY <1>2 DEF Unlink, Goto, memVars
  <2>2. PICK step \in {"off", "swap"} : at' = [at EXCEPT ![p] = step]
    BY <2>1
  <2>3. /\ DOMAIN at' = Procs /\ at'[p] = step
        /\ \A q \in Procs \ {p} : at[q] = "off" /\ at'[q] = "off"
    BY <2>1, <2>2, OtherIsOff
  <2>. QED
    BY <2>1, <2>3 DEF Procs
<1>3. CASE Swap(p)
  <2>1. /\ at[p] = "swap" /\ UNCHANGED <<olds, repo>>
        /\ \/ dest' = "real" /\ at' = [at EXCEPT ![p] = "retire"]
           \/ dest' = dest /\ at' = [at EXCEPT ![p] = "off"]
    BY <1>3 DEF Swap, Goto, memVars
  <2>2. PICK step \in {"off", "retire"} : at' = [at EXCEPT ![p] = step]
    BY <2>1
  <2>3. /\ DOMAIN at' = Procs /\ at'[p] = step
        /\ \A q \in Procs \ {p} : at[q] = "off" /\ at'[q] = "off"
    BY <2>1, <2>2, OtherIsOff
  <2>4. dest' = "real" \/ (dest' = dest /\ at'[p] = "off")
    BY <2>1, <2>3
  <2>. QED
    BY <2>1, <2>3, <2>4 DEF Procs
<1>4. CASE Retire(p)
  <2>1. /\ at[p] = "retire" /\ dest # "old" /\ dest' = dest
        /\ at' = [at EXCEPT ![p] = "drop"]
    BY <1>4 DEF Retire, Goto, memVars
  <2>2. /\ DOMAIN at' = Procs /\ at'[p] = "drop"
        /\ \A q \in Procs \ {p} : at[q] = "off" /\ at'[q] = "off"
    BY <2>1, OtherIsOff
  <2>. QED
    BY <2>1, <2>2 DEF Procs
<1>. QED
  BY <1>1, <1>2, <1>3, <1>4

-----------------------------------------------------------------------------
(* The panel, kills and the link                                           *)

LEMMA OutsideKeeps ==
  ASSUME ~ Overlap, IInv,
         PanelReads \/ LiveStart \/ (\E p \in Procs : Kill(p)) \/ Pairing \/ UNCHANGED vars
  PROVE  IInv'
<1>. USE DEF IInv, OneRuns, CheckoutIsThere, LinkIsMoved, NeverDangles, BeforeLink, Retiring,
             fileVars, memVars
<1>1. CASE PanelReads
  BY <1>1 DEF PanelReads
<1>2. CASE LiveStart
  <2>1. /\ at["live"] = "off" /\ at["setup"] = "off" /\ UNCHANGED <<dest, olds, repo>>
        /\ at' = [at EXCEPT !["live"] = "migrate"]
    BY <1>2 DEF LiveStart, Goto
  <2>2. DOMAIN at' = Procs /\ at'["live"] = "migrate" /\ at'["setup"] = "off"
    BY <2>1 DEF Procs
  <2>. QED
    BY <2>1, <2>2 DEF Procs
<1>3. ASSUME NEW p \in Procs, Kill(p) PROVE IInv'
  <2>1. /\ at[p] # "off" /\ UNCHANGED <<dest, olds, repo>>
        /\ at' = [at EXCEPT ![p] = "off"]
    BY <1>3 DEF Kill, Goto
  <2>. HIDE DEF IInv
  <2>. QED
    BY <2>1, StepsAside
<1>4. CASE Pairing
  BY <1>4 DEF Pairing
<1>5. CASE UNCHANGED vars
  BY <1>5 DEF vars
<1>. QED
  BY <1>1, <1>2, <1>3, <1>4, <1>5

LEMMA IInit == Init => IInv
  BY DEF Init, IInv, OneRuns, CheckoutIsThere, LinkIsMoved, NeverDangles, BeforeLink,
         Retiring, Procs

LEMMA IStep == ASSUME ~ Overlap, IInv, [Next]_vars PROVE IInv'
<1>1. CASE \E r \in {"parent", "kid"}, src \in Repos : Start(r, src)
  BY <1>1, StartKeeps
<1>2. CASE \/ Locked \/ Config \/ SeedStep \/ Reuse \/ MintRead \/ MintAsk
           \/ Place \/ RoleStep \/ BarStep \/ Ensure \/ Unit \/ End
  BY <1>2, SetupAside
<1>3. CASE Link
  BY <1>3, LinkKeeps
<1>4. CASE Import("setup", "migrate") \/ Import("live", "role")
  BY <1>4, MigrationAside DEF Procs
<1>5. CASE WriteRole("live", "parent", "off")
  BY <1>5, MigrationAside DEF Procs
<1>6. ASSUME NEW p \in Procs, Migration(p) PROVE IInv'
  BY <1>6, MigrationAside, FolderSteps DEF Migration
<1>7. CASE PanelReads \/ LiveStart \/ (\E p \in Procs : Kill(p)) \/ Pairing \/ UNCHANGED vars
  BY <1>7, OutsideKeeps
<1>. QED
  BY <1>1, <1>2, <1>3, <1>4, <1>5, <1>6, <1>7 DEF Next

\* The folder of the new plugin never hangs on a folder that is gone
\* (materializeIfLinkToRetired before retireOldPlugins), whatever is killed,
\* as long as setup and the panel's program do not run at once.
THEOREM FolderStays == ~ Overlap => (Spec => []NeverDangles)
<1>. SUFFICES ASSUME ~ Overlap PROVE Spec => []NeverDangles
  OBVIOUS
<1>1. Init => IInv
  BY IInit
<1>2. IInv /\ [Next]_vars => IInv'
  BY IStep
<1>3. IInv => NeverDangles
  BY DEF IInv
<1>. QED
  BY <1>1, <1>2, <1>3, PTL DEF Spec
-----------------------------------------------------------------------------
(* Types                                                                   *)

AtOK == at \in [Procs -> Steps] /\ nth \in [Procs -> DOMAIN Retired]
LinkOK ==
  /\ paired \in BOOLEAN
  /\ pairFile \in Nat /\ pairing \in [at : {"off", "set", "write"}, secret : Nat]
FileOK ==
  /\ dest \in {"none", "real", "share", "old", "self"} /\ olds \subseteq RetiredIds
  /\ role \in Roles /\ panel \in Roles /\ done \in Roles /\ who \in [Procs -> Roles]
  /\ cfg \in {"none", "lan", "ok"} /\ unit \in BOOLEAN /\ kids \in BOOLEAN /\ pin \in BOOLEAN
  /\ runs \in 0..MaxRuns /\ lives \in 0..MaxLives /\ kills \in 0..MaxKills
  /\ repo \in Repos \cup {"share"}
ShellOK ==
  /\ shell \in [file : {"bar", "missing", "corrupt"}, widgets : SUBSET Widgets]
  /\ doc \in [Procs -> SUBSET Widgets]

LEMMA RetiredDomain ==
  /\ Len(Retired) \in Nat /\ DOMAIN Retired = 1..Len(Retired) /\ 1 \in DOMAIN Retired
  /\ \A k \in DOMAIN Retired : Retired[k] \in RetiredIds
<1>1. /\ Retired \in Seq(RetiredIds) /\ RetiredIds = {Retired[k] : k \in DOMAIN Retired}
      /\ Legacy \in RetiredIds
  BY SetupAssumption DEF RetiredIds
<1>. HIDE DEF RetiredIds
<1>2. Len(Retired) \in Nat /\ DOMAIN Retired = 1..Len(Retired)
  BY <1>1
<1>. QED
  BY <1>1, <1>2

\* Every step moves one process to a step, or none.
LEMMA AtStep == ASSUME AtOK, [Next]_vars PROVE AtOK'
<1>. DEFINE Moves ==
              /\ nth' = nth
              /\ at' = at \/ \E p \in Procs, step \in Steps : at' = [at EXCEPT ![p] = step]
<1>0. ASSUME Moves PROVE AtOK'
  BY <1>0 DEF AtOK
<1>. HIDE DEF Moves
<1>1. ASSUME NEW r \in {"parent", "kid"}, NEW src \in Repos, Start(r, src) PROVE AtOK'
  <2>1. Moves
    BY <1>1 DEF Start, Goto, Moves, Procs, Steps
  <2>. QED
    BY <1>0, <2>1
<1>2. CASE Locked \/ Config \/ SeedStep \/ Reuse \/ MintRead \/ MintAsk
  <2>1. Moves
    BY <1>2 DEF Locked, Config, SeedStep, Reuse, MintRead, MintAsk, Mint, Goto, Moves,
                Procs, Steps
  <2>. QED
    BY <1>0, <2>1
<1>3. CASE Place \/ Link \/ RoleStep \/ BarStep \/ Unit \/ End
  <2>1. Moves
    BY <1>3 DEF Place, Link, RoleStep, WriteRole, BarStep, Unit, End, Goto, Moves, Procs, Steps
  <2>. QED
    BY <1>0, <2>1
<1>4. CASE Import("setup", "migrate") \/ Import("live", "role") \/ WriteRole("live", "parent", "off")
  <2>1. Moves
    BY <1>4 DEF Import, WriteRole, Goto, Moves, Procs, Steps
  <2>. QED
    BY <1>0, <2>1
<1>5. CASE Ensure
  <2>1. Moves
    BY <1>5 DEF Ensure, WriteShell, Goto, Moves, Procs, Steps
  <2>. QED
    BY <1>0, <2>1
<1>6. ASSUME NEW p \in Procs, Migration(p) PROVE AtOK'
  <2>1. CASE Migrate(p)
    <3>1. \E step \in Steps : at' = [at EXCEPT ![p] = step]
      BY <2>1 DEF Migrate, After, Steps
    <3>2. nth' = [nth EXCEPT ![p] = 1]
      BY <2>1 DEF Migrate
    <3>. QED
      BY <3>1, <3>2, RetiredDomain DEF AtOK
  <2>2. CASE Rewrite(p) \/ Links(p) \/ Unlink(p) \/ Swap(p) \/ Retire(p) \/ Drop(p)
    <3>1. Moves
      BY <2>2 DEF Rewrite, Links, Unlink, Swap, Retire, Drop, ReadShell, WriteShell, Goto,
                  Moves, Steps
    <3>. QED
      BY <1>0, <3>1
  <2>3. CASE NextRetired(p)
    <3>1. \E step \in Steps : at' = [at EXCEPT ![p] = step]
      BY <2>3 DEF NextRetired, After, Steps
    <3>2. CASE nth[p] = Len(Retired)
      <4>1. nth' = [nth EXCEPT ![p] = 1]
        BY <2>3, <3>2 DEF NextRetired, AtOK
      <4>. QED
        BY <3>1, <4>1, RetiredDomain DEF AtOK
    <3>3. CASE nth[p] # Len(Retired)
      <4>1. nth' = [nth EXCEPT ![p] = nth[p] + 1]
        BY <2>3, <3>3 DEF NextRetired, AtOK
      <4>2. nth[p] + 1 \in DOMAIN Retired
        <5>1. nth[p] \in 1..Len(Retired) /\ Len(Retired) \in Nat
          BY RetiredDomain DEF AtOK
        <5>2. nth[p] + 1 \in 1..Len(Retired)
          BY <3>3, <5>1
        <5>. QED
          BY <5>2, RetiredDomain
      <4>. QED
        BY <3>1, <4>1, <4>2 DEF AtOK
    <3>. QED
      BY <3>2, <3>3
  <2>. QED
    BY <1>6, <2>1, <2>2, <2>3 DEF Migration
<1>7. CASE PanelReads \/ LiveStart \/ (\E p \in Procs : Kill(p)) \/ Pairing \/ UNCHANGED vars
  <2>1. Moves
    BY <1>7 DEF PanelReads, LiveStart, Kill, Pairing, vars, Goto, Moves, Procs, Steps
  <2>. QED
    BY <1>0, <2>1
<1>. QED
  BY <1>1, <1>2, <1>3, <1>4, <1>5, <1>6, <1>7 DEF Next

LEMMA FileStep == ASSUME FileOK, [Next]_vars PROVE FileOK'
<1>. USE DEF FileOK, Goto, fileVars, memVars, Roles
<1>0. MaxRuns \in Nat /\ MaxLives \in Nat /\ MaxKills \in Nat /\ Repos \subseteq {"share", "old", "self"}
  BY SetupAssumption
<1>1. ASSUME NEW r \in {"parent", "kid"}, NEW src \in Repos, Start(r, src) PROVE FileOK'
  <2>1. /\ who' = [who EXCEPT !["setup"] = r] /\ repo' = src /\ done' = "none"
        /\ runs < MaxRuns /\ runs' = runs + 1
        /\ UNCHANGED <<dest, olds, role, cfg, unit, kids, pin, panel, lives, kills>>
    BY <1>1 DEF Start
  <2>2. runs' \in 0..MaxRuns
    BY <1>0, <2>1
  <2>. QED
    BY <2>1, <2>2
<1>2. CASE Locked \/ Config \/ SeedStep \/ Reuse \/ MintRead \/ MintAsk
  BY <1>2 DEF Locked, Config, SeedStep, Reuse, MintRead, MintAsk, Mint
<1>3. CASE Place \/ BarStep \/ Unit
  BY <1>3 DEF Place, BarStep, Unit
<1>11. CASE Link
  BY <1>0, <1>11 DEF Link
<1>4. CASE RoleStep \/ End
  BY <1>4 DEF RoleStep, WriteRole, End, Procs
<1>5. CASE Import("setup", "migrate") \/ Import("live", "role") \/ WriteRole("live", "parent", "off")
  BY <1>5 DEF Import, WriteRole
<1>6. CASE Ensure
  BY <1>6 DEF Ensure, WriteShell
<1>7. ASSUME NEW p \in Procs, Migration(p) PROVE FileOK'
  <2>1. CASE Migrate(p) \/ Rewrite(p) \/ Drop(p) \/ NextRetired(p)
    BY <2>1 DEF Migrate, Rewrite, Drop, NextRetired, ReadShell, WriteShell
  <2>2. CASE Links(p) \/ Unlink(p) \/ Swap(p) \/ Retire(p)
    BY <2>2 DEF Links, Unlink, Swap, Retire
  <2>. QED
    BY <1>7, <2>1, <2>2 DEF Migration
<1>8. CASE PanelReads \/ LiveStart
  BY <1>0, <1>8 DEF PanelReads, LiveStart
<1>9. ASSUME NEW p \in Procs, Kill(p) PROVE FileOK'
  BY <1>0, <1>9 DEF Kill
<1>10. CASE Pairing \/ UNCHANGED vars
  BY <1>10 DEF Pairing, vars
<1>. QED
  BY <1>1, <1>2, <1>3, <1>4, <1>5, <1>6, <1>7, <1>8, <1>9, <1>10, <1>11 DEF Next

\* What is written to the bar is made of the widgets it had and the chip.
LEMMA EditsAreWidgets ==
  ASSUME NEW l \in SUBSET Widgets
  PROVE  /\ Rewritten(l) \in SUBSET Widgets /\ Ensured(l) \in SUBSET Widgets
         /\ \A id : Without(l, id) \in SUBSET Widgets
<1>1. \A id : Without(l, id) \in SUBSET Widgets
  BY DEF Without
<1>2. \A w \in Widgets : [w EXCEPT !.id = New] \in Widgets
  BY DEF Widgets, Ids
<1>3. Renamed(FirstOf(Showing(l, {Legacy}))) \in SUBSET Widgets
  BY <1>2 DEF Renamed, FirstOf, Showing
<1>4. Widget(Last, New, NoBar) \in Widgets
  BY SetupAssumption DEF Widget, Widgets, Ids, OldBars, NoBar
<1>. QED
  BY <1>1, <1>3, <1>4 DEF Rewritten, Ensured

\* Every step writes a process's layout to the bar, or takes one from it, or
\* leaves both alone.
LEMMA ShellStep == ASSUME ShellOK, [Next]_vars PROVE ShellOK'
<1>1. ASSUME NEW l \in SUBSET Widgets, NEW p \in Procs, doc' = [doc EXCEPT ![p] = l],
             shell' = shell \/ shell' = Bar(doc[p])
      PROVE  ShellOK'
  BY <1>1 DEF ShellOK, Bar
<1>2. ASSUME NEW p \in Procs, Rewrite(p) \/ Drop(p) PROVE ShellOK'
  <2>. DEFINE gone == Without(shell.widgets, Retired[nth[p]])
  <2>1. /\ Rewritten(shell.widgets) \in SUBSET Widgets /\ gone \in SUBSET Widgets
        /\ {} \in SUBSET Widgets
    BY EditsAreWidgets DEF ShellOK
  <2>2. \/ UNCHANGED <<shell, doc>>
        \/ /\ shell' = shell \/ shell' = Bar(doc[p])
           /\ \E l \in {Rewritten(shell.widgets), gone, {}} : doc' = [doc EXCEPT ![p] = l]
    BY <1>2 DEF Rewrite, Drop, ReadShell, WriteShell, Goto, fileVars
  <2>. HIDE DEF gone
  <2>3. CASE UNCHANGED <<shell, doc>>
    BY <2>3 DEF ShellOK
  <2>. QED
    BY <1>1, <2>1, <2>2, <2>3
<1>3. CASE Ensure
  <2>1. Ensured(shell.widgets) \in SUBSET Widgets /\ {} \in SUBSET Widgets
    BY EditsAreWidgets DEF ShellOK
  <2>2. \/ UNCHANGED <<shell, doc>>
        \/ /\ shell' = shell \/ shell' = Bar(doc["setup"])
           /\ \E l \in {Ensured(shell.widgets), {}} : doc' = [doc EXCEPT !["setup"] = l]
    BY <1>3 DEF Ensure, WriteShell, Goto, fileVars
  <2>3. CASE UNCHANGED <<shell, doc>>
    BY <2>3 DEF ShellOK
  <2>. QED
    BY <1>1, <2>1, <2>2, <2>3 DEF Procs
<1>. USE DEF Goto, fileVars, memVars
<1>4. CASE UNCHANGED <<shell, doc>>
  BY <1>4 DEF ShellOK
<1>5. ASSUME NEW r \in {"parent", "kid"}, NEW src \in Repos, Start(r, src) PROVE ShellOK'
  BY <1>4, <1>5 DEF Start
<1>6. CASE Locked \/ Config \/ SeedStep \/ Reuse \/ MintRead \/ MintAsk
  BY <1>4, <1>6 DEF Locked, Config, SeedStep, Reuse, MintRead, MintAsk, Mint
<1>7. CASE Place \/ Link \/ RoleStep \/ BarStep \/ Unit \/ End
  BY <1>4, <1>7 DEF Place, Link, RoleStep, WriteRole, BarStep, Unit, End
<1>8. CASE Import("setup", "migrate") \/ Import("live", "role") \/ WriteRole("live", "parent", "off")
  BY <1>4, <1>8 DEF Import, WriteRole
<1>9. ASSUME NEW p \in Procs, Migration(p) PROVE ShellOK'
  BY <1>2, <1>4, <1>9 DEF Migration, Migrate, Links, Unlink, Swap, Retire, NextRetired
<1>10. CASE PanelReads \/ LiveStart \/ (\E p \in Procs : Kill(p)) \/ Pairing \/ UNCHANGED vars
  BY <1>4, <1>10 DEF PanelReads, LiveStart, Kill, Pairing, vars
<1>. QED
  BY <1>3, <1>5, <1>6, <1>7, <1>8, <1>9, <1>10 DEF Next

-----------------------------------------------------------------------------
(* The tokens of the bar                                                   *)

\* What a row may be under each name: only setup and the link renew the rows
\* they read.
KindOf(n) ==
  IF n = "kid-bar-read" THEN {"none", "read"}
  ELSE IF n = "kid-bar" THEN {"none", "ask", "app"}
  ELSE IF n = "app" THEN {"none", "app"}
  ELSE {"none", "parent"}

RowsAreFresh ==
  /\ fresh \in Nat /\ fresh > OldAsk
  /\ toks \in [Names -> [kind : Kinds \cup {"none"}, secret : Nat]]
  /\ \A n \in Names :
       /\ toks[n].kind \in KindOf(n)
       /\ toks[n].secret < fresh
       /\ toks[n] # NoRow => toks[n].secret # NoSecret

\* A secret that is out, and opens nothing but rows of one kind.
Opens(s, kind) ==
  s \in Nat /\ s < fresh /\ \A n \in Holders(toks, s) : toks[n].kind = kind
PairOK(b) == b \in Nat \X Nat /\ Opens(b[1], "read") /\ Opens(b[2], "ask")
PairsOpen ==
  /\ Opens(NoSecret, "read") /\ Opens(NoSecret, "ask")
  /\ Opens(OldRead, "read") /\ Opens(OldAsk, "ask")
  /\ PairOK(kidBar) /\ PairOK(bar)

\* How far the setup of a kid is: with one token, with the pair, with the
\* pair in the file.
Minted == {"place", "link", "role", "bar"}
Written == {"migrate", "rewrite", "rewriteWrite", "links", "unlink", "swap", "retire", "drop",
            "dropWrite", "next", "ensure", "ensureWrite", "unit", "end"}
Works(b) == Accepted(toks, b[1]) /\ Accepted(toks, b[2])
BarIsHeld ==
  /\ at["setup"] \in {"locked", "import", "importPin"} => who["setup"] # "kid"
  /\ at["setup"] = "mintRead" => bar = NoBar
  /\ at["setup"] = "mintAsk" => Accepted(toks, bar[1])
  /\ who["setup"] = "kid" =>
       /\ at["setup"] \in Minted \cup Written => Works(bar)
       /\ at["setup"] \in Written => kidBar = bar
  /\ done = "kid" => Works(kidBar)
  /\ done # "none" => at["setup"] = "off"

KInv == RowsAreFresh /\ PairsOpen /\ BarIsHeld

\* A token minted under n, where there was none or one the bar does not hold.
NewRow(n, kind) == toks' = Replaced(toks, n, kind, fresh) /\ fresh' = fresh + 1

LEMMA NewRowKeeps ==
  ASSUME RowsAreFresh, NEW n \in Names, NEW kind \in KindOf(n) \ {"none"}, NewRow(n, kind)
  PROVE  /\ RowsAreFresh'
         /\ \A s, k : Opens(s, k) => Opens(s, k)'
         /\ \A s : s = fresh => Opens(s, kind)' /\ Accepted(toks', s)
         /\ \A s : \A m \in Names \ {n} : m \in Holders(toks, s) => Accepted(toks', s)
<1>1. /\ toks' = [toks EXCEPT ![n] = [kind |-> kind, secret |-> fresh]]
      /\ fresh' = fresh + 1 /\ fresh \in Nat /\ fresh > OldAsk
  BY DEF NewRow, Replaced, Row, RowsAreFresh
<1>2. kind \in Kinds /\ fresh # NoSecret
  BY <1>1 DEF KindOf, Kinds, OldAsk, NoSecret
<1>3. /\ toks' \in [Names -> [kind : Kinds \cup {"none"}, secret : Nat]]
      /\ toks'[n] = [kind |-> kind, secret |-> fresh]
      /\ \A m \in Names \ {n} : toks'[m] = toks[m]
  BY <1>1, <1>2 DEF RowsAreFresh
<1>4. \A m \in Names : toks[m].secret < fresh /\ toks[m].secret \in Nat
  BY DEF RowsAreFresh
<1>5. RowsAreFresh'
  <2>1. ASSUME NEW m \in Names PROVE toks'[m].kind \in KindOf(m)
    <3>1. CASE m = n
      BY <1>3, <3>1
    <3>2. CASE m # n
      BY <1>3, <3>2 DEF RowsAreFresh
    <3>. QED
      BY <3>1, <3>2
  <2>2. \A m \in Names : toks'[m].secret < fresh'
    BY <1>1, <1>3, <1>4
  <2>3. ASSUME NEW m \in Names PROVE toks'[m] # NoRow => toks'[m].secret # NoSecret
    <3>1. CASE m = n
      BY <1>2, <1>3, <3>1
    <3>2. CASE m # n
      BY <1>3, <3>2 DEF RowsAreFresh
    <3>. QED
      BY <3>1, <3>2
  <2>4. fresh' \in Nat /\ fresh' > OldAsk
    BY <1>1 DEF OldAsk
  <2>. QED
    BY <1>3, <2>1, <2>2, <2>3, <2>4 DEF RowsAreFresh
<1>6. ASSUME NEW s, NEW k, Opens(s, k) PROVE Opens(s, k)'
  <2>1. s \in Nat /\ s < fresh' /\ s # fresh
    BY <1>1, <1>6 DEF Opens
  <2>2. ASSUME NEW m \in Holders(toks', s) PROVE toks'[m].kind = k
    <3>1. m \in Names /\ m # n
      BY <1>3, <2>1 DEF Holders
    <3>2. m \in Holders(toks, s)
      BY <1>3, <3>1 DEF Holders
    <3>. QED
      BY <1>3, <1>6, <3>1, <3>2 DEF Opens
  <2>. QED
    BY <2>1, <2>2 DEF Opens
<1>7. ASSUME NEW s, s = fresh PROVE Opens(s, kind)' /\ Accepted(toks', s)
  <2>1. \A m \in Holders(toks', s) : m = n
    <3>1. \A m \in Names \ {n} : toks'[m].secret # s
      BY <1>1, <1>3, <1>4, <1>7
    <3>. QED
      BY <3>1 DEF Holders
  <2>2. s \in Nat /\ s < fresh'
    BY <1>1, <1>7
  <2>3. \A m \in Holders(toks', s) : toks'[m].kind = kind
    BY <1>3, <2>1
  <2>4. Accepted(toks', s)
    BY <1>2, <1>3, <1>7 DEF Accepted, Holders, NoRow
  <2>. QED
    BY <2>2, <2>3, <2>4 DEF Opens
<1>9. \A s : \A m \in Names \ {n} : m \in Holders(toks, s) => Accepted(toks', s)
  BY <1>3 DEF Accepted, Holders
<1>. QED
  BY <1>5, <1>6, <1>7, <1>9

\* A row that is no part of the bar.
LEMMA OtherRow ==
  ASSUME KInv, NEW n \in Names, NEW kind \in KindOf(n) \ {"none"}, NewRow(n, kind),
         MintFree(toks, n) \/ n = "parent-pair",
         UNCHANGED <<kidBar, bar, done>>,
         at'["setup"] = at["setup"] \/ (at["setup"] = "seed" /\ at'["setup"] = "reuse"),
         who'["setup"] = who["setup"]
  PROVE  KInv'
<1>1. /\ RowsAreFresh'
      /\ \A s, k : Opens(s, k) => Opens(s, k)'
      /\ \A s : \A m \in Names \ {n} : m \in Holders(toks, s) => Accepted(toks', s)
  BY NewRowKeeps DEF KInv
<1>2. PairsOpen'
  <2>1. \A s \in {NoSecret, OldRead, OldAsk}, k \in {"read", "ask"} : Opens(s, k) => Opens(s, k)'
    BY <1>1
  <2>2. \A b : PairOK(b) => PairOK(b)'
    BY <1>1 DEF PairOK
  <2>3. PairOK(kidBar) /\ PairOK(bar)
    BY DEF KInv, PairsOpen
  <2>. QED
    BY <2>1, <2>2, <2>3 DEF KInv, PairsOpen
<1>3. ASSUME NEW s, NEW k \in {"read", "ask"}, Opens(s, k), Accepted(toks, s)
      PROVE  Accepted(toks', s)
  <2>1. PICK m \in Names : m \in Holders(toks, s)
    BY <1>3 DEF Accepted, Holders
  <2>2. toks[m].kind = k
    BY <1>3, <2>1 DEF Opens
  <2>3. m # n
    <3>1. CASE MintFree(toks, n)
      BY <2>1, <3>1 DEF MintFree, Holders
    <3>2. CASE n = "parent-pair"
      <4>1. toks[n].kind \in {"none", "parent"}
        BY <3>2 DEF KInv, RowsAreFresh, KindOf
      <4>. QED
        BY <2>2, <4>1
    <3>. QED
      BY <3>1, <3>2
  <2>. QED
    BY <1>1, <2>1, <2>3
<1>4. ASSUME NEW b, PairOK(b)
      PROVE  /\ Accepted(toks, b[1]) => Accepted(toks', b[1])
             /\ Works(b) => Works(b)'
  BY <1>3, <1>4 DEF PairOK, Works
<1>5. BarIsHeld'
  <2>1. PairOK(kidBar) /\ PairOK(bar) /\ BarIsHeld
    BY DEF KInv, PairsOpen
  <2>2. /\ Accepted(toks, bar[1]) => Accepted(toks', bar[1])
        /\ Works(bar) => Accepted(toks', bar[1]) /\ Accepted(toks', bar[2])
        /\ Works(kidBar) => Accepted(toks', kidBar[1]) /\ Accepted(toks', kidBar[2])
    BY <1>4, <2>1 DEF Works
  <2>3. CASE at'["setup"] = at["setup"]
    <3>1. /\ at'["setup"] \in {"locked", "import", "importPin"} => who'["setup"] # "kid"
          /\ at'["setup"] = "mintRead" => bar' = NoBar
          /\ at'["setup"] = "mintAsk" => Accepted(toks', bar'[1])
          /\ done' # "none" => at'["setup"] = "off"
      BY <2>1, <2>2, <2>3 DEF BarIsHeld
    <3>2. /\ who'["setup"] = "kid" /\ at'["setup"] \in Minted \cup Written => Works(bar)'
          /\ who'["setup"] = "kid" /\ at'["setup"] \in Written => kidBar' = bar'
          /\ done' = "kid" => Works(kidBar)'
      BY <2>1, <2>2, <2>3 DEF BarIsHeld, Works
    <3>. QED
      BY <3>1, <3>2 DEF BarIsHeld
  <2>4. CASE at["setup"] = "seed" /\ at'["setup"] = "reuse"
    BY <2>1, <2>4 DEF BarIsHeld, Minted, Written
  <2>. QED
    BY <2>3, <2>4
<1>. QED
  BY <1>1, <1>2, <1>5 DEF KInv

\* A step that leaves the tokens alone, and of a kid's setup goes no further
\* than its pair allows.
LEMMA TokensAside ==
  ASSUME KInv, UNCHANGED <<toks, fresh, kidBar, bar, done>>, who'["setup"] = who["setup"],
         \/ at'["setup"] = at["setup"]
         \/ /\ at["setup"] # "off"
            /\ \/ at'["setup"] \in {"off", "seed", "reuse"}
               \/ who["setup"] # "kid" /\ at'["setup"] \notin {"mintRead", "mintAsk"}
               \/ at["setup"] \in Minted /\ at'["setup"] \in Minted
               \/ at["setup"] \in Written /\ at'["setup"] \in Written
  PROVE  KInv'
<1>1. RowsAreFresh'
  BY DEF KInv, RowsAreFresh
<1>2. PairsOpen'
  BY DEF KInv, PairsOpen, PairOK, Opens
<1>3. BarIsHeld'
  BY DEF KInv, BarIsHeld, Works, Minted, Written
<1>. QED
  BY <1>1, <1>2, <1>3 DEF KInv

LEMMA StartTokens ==
  ASSUME AtOK, FileOK, KInv, NEW r, NEW src, Start(r, src), r \in {"parent", "kid"}
  PROVE  KInv'
<1>1. /\ UNCHANGED <<toks, fresh, kidBar>> /\ bar' = NoBar /\ done' = "none"
      /\ who' = [who EXCEPT !["setup"] = r]
      /\ at' = [at EXCEPT !["setup"] = IF r = "parent" THEN "locked" ELSE "config"]
  BY DEF Start, Goto, keyVars
<1>2. /\ at'["setup"] = (IF r = "parent" THEN "locked" ELSE "config")
      /\ who'["setup"] = r
  BY <1>1 DEF AtOK, FileOK, Procs
<1>3. RowsAreFresh'
  BY <1>1 DEF KInv, RowsAreFresh
<1>4. PairsOpen'
  BY <1>1 DEF KInv, PairsOpen, PairOK, Opens, NoBar, NoSecret
<1>5. BarIsHeld'
  BY <1>1, <1>2 DEF BarIsHeld, Minted, Written
<1>. QED
  BY <1>3, <1>4, <1>5 DEF KInv

LEMMA SeedTokens == ASSUME AtOK, KInv, SeedStep PROVE KInv'
<1>1. /\ at["setup"] = "seed" /\ Seed /\ at' = [at EXCEPT !["setup"] = "reuse"]
      /\ UNCHANGED <<kidBar, bar, done, who>>
  BY DEF SeedStep, Goto, memVars
<1>2. at'["setup"] = "reuse"
  BY <1>1 DEF AtOK, Procs
<1>3. CASE NoRows
  <2>1. NewRow("bootstrap", "parent")
    BY <1>1, <1>3 DEF Seed, NewRow
  <2>2. "bootstrap" \in Names /\ "parent" \in KindOf("bootstrap") \ {"none"}
    BY DEF Names, KindOf
  <2>3. MintFree(toks, "bootstrap")
    BY <1>3, <2>2 DEF NoRows, MintFree
  <2>. QED
    BY <1>1, <1>2, <2>1, <2>2, <2>3, OtherRow
<1>4. CASE ~ NoRows
  <2>1. UNCHANGED <<toks, fresh>>
    BY <1>1, <1>4 DEF Seed
  <2>. QED
    BY <1>1, <1>2, <2>1, TokensAside
<1>. QED
  BY <1>3, <1>4

\* existingKidTokens: the file's pair, or that of a chip.
LEMMA DiskPairOK == ASSUME ShellOK, KInv PROVE PairOK(BarOnDisk)
<1>. DEFINE first == FirstOf(Showing(shell.widgets, {"kidtimer.kid", Legacy, New}))
<1>1. PairOK(kidBar) /\ Opens(NoSecret, "read") /\ Opens(NoSecret, "ask")
      /\ Opens(OldRead, "read") /\ Opens(OldAsk, "ask")
  BY DEF KInv, PairsOpen
<1>2. \A b \in OldBars : PairOK(b)
  BY <1>1 DEF OldBars, PairOK, NoSecret, OldRead, OldAsk
<1>3. NoBar \in OldBars
  BY DEF NoBar, OldBars
<1>4. \A w \in first : w.bar \in OldBars
  BY DEF ShellOK, FirstOf, Showing, Widgets
<1>5. BarOnDisk \in {kidBar, NoBar} \/ \E w \in first : BarOnDisk = w.bar
  <2>1. CASE kidBar # NoBar
    BY <2>1 DEF BarOnDisk
  <2>2. CASE kidBar = NoBar /\ first = {}
    BY <2>2 DEF BarOnDisk
  <2>3. CASE kidBar = NoBar /\ first # {}
    <3>1. BarOnDisk = (CHOOSE w \in first : TRUE).bar
      BY <2>3 DEF BarOnDisk
    <3>2. (CHOOSE w \in first : TRUE) \in first
      BY <2>3
    <3>. QED
      BY <3>1, <3>2
  <2>. QED
    BY <2>1, <2>2, <2>3
<1>. HIDE DEF first
<1>. QED
  BY <1>1, <1>2, <1>3, <1>4, <1>5

LEMMA ReuseTokens == ASSUME AtOK, ShellOK, KInv, Reuse PROVE KInv'
<1>1. /\ at["setup"] = "reuse" /\ UNCHANGED <<toks, fresh, kidBar, who, done>>
      /\ \/ /\ Reusable(BarOnDisk) /\ bar' = BarOnDisk
            /\ at' = [at EXCEPT !["setup"] = "place"]
         \/ bar' = NoBar /\ at' = [at EXCEPT !["setup"] = "mintRead"]
  BY DEF Reuse, Goto, keyVars
<1>2. RowsAreFresh'
  BY <1>1 DEF KInv, RowsAreFresh
<1>3. PairOK(BarOnDisk) /\ PairOK(NoBar)
  BY DiskPairOK DEF KInv, PairsOpen, PairOK, NoBar, NoSecret
<1>4. PairsOpen'
  <2>1. PairOK(bar')
    BY <1>1, <1>3
  <2>. QED
    BY <1>1, <2>1 DEF KInv, PairsOpen, PairOK, Opens
<1>5. BarIsHeld'
  <2>1. CASE Reusable(BarOnDisk) /\ bar' = BarOnDisk /\ at' = [at EXCEPT !["setup"] = "place"]
    <3>1. at'["setup"] = "place"
      BY <2>1 DEF AtOK, Procs
    <3>2. Accepted(toks', bar'[1]) /\ Accepted(toks', bar'[2])
      BY <1>1, <2>1 DEF Reusable
    <3>. QED
      BY <1>1, <3>1, <3>2 DEF KInv, BarIsHeld, Works, Minted, Written
  <2>2. CASE bar' = NoBar /\ at' = [at EXCEPT !["setup"] = "mintRead"]
    <3>1. at'["setup"] = "mintRead"
      BY <2>2 DEF AtOK, Procs
    <3>. QED
      BY <1>1, <2>2, <3>1 DEF KInv, BarIsHeld, Minted, Written
  <2>. QED
    BY <1>1, <2>1, <2>2
<1>. QED
  BY <1>2, <1>4, <1>5 DEF KInv

\* A fresh token for the bar, which holds the one it had.
LEMMA MintTokens == ASSUME AtOK, KInv, MintRead \/ MintAsk PROVE KInv'
<1>. DEFINE s == fresh
<1>0. fresh \in Nat /\ PairOK(bar) /\ PairOK(kidBar)
  BY DEF KInv, RowsAreFresh, PairsOpen
<1>1. CASE MintRead
  <2>1. /\ at["setup"] = "mintRead" /\ NewRow("kid-bar-read", "read")
        /\ bar' = [bar EXCEPT ![1] = fresh] /\ at' = [at EXCEPT !["setup"] = "mintAsk"]
        /\ UNCHANGED <<kidBar, who, done>>
    BY <1>1 DEF MintRead, Mint, MintBar, NewRow, Goto
  <2>2. "kid-bar-read" \in Names /\ "read" \in KindOf("kid-bar-read") \ {"none"}
    BY DEF Names, KindOf
  <2>3. /\ RowsAreFresh'
        /\ \A t, k : Opens(t, k) => Opens(t, k)'
        /\ \A t : t = fresh => Opens(t, "read")' /\ Accepted(toks', t)
    BY <2>1, <2>2, NewRowKeeps DEF KInv
  <2>4. at'["setup"] = "mintAsk" /\ bar' = <<fresh, NoSecret>>
    BY <2>1 DEF AtOK, Procs, KInv, BarIsHeld, NoBar
  <2>5. PairsOpen'
    <3>1. PairOK(bar)'
      <4>1. Opens(NoSecret, "ask")'
        BY <2>3 DEF KInv, PairsOpen
      <4>2. bar'[1] = fresh /\ bar'[2] = NoSecret /\ bar' \in Nat \X Nat
        BY <1>0, <2>4 DEF NoSecret
      <4>3. \A t : t = bar'[1] => Opens(t, "read")'
        BY <2>3, <4>2
      <4>. QED
        BY <4>1, <4>2, <4>3 DEF PairOK, Opens
    <3>2. \A b : PairOK(b) => PairOK(b)'
      BY <2>3 DEF PairOK
    <3>3. PairOK(kidBar)'
      <4>1. \A b : b = kidBar => PairOK(b)'
        BY <1>0, <3>2
      <4>. QED
        BY <2>1, <4>1 DEF PairOK, Opens
    <3>4. /\ Opens(NoSecret, "read")' /\ Opens(NoSecret, "ask")'
          /\ Opens(OldRead, "read")' /\ Opens(OldAsk, "ask")'
      BY <2>3 DEF KInv, PairsOpen
    <3>. QED
      BY <3>1, <3>3, <3>4 DEF PairsOpen
  <2>6. BarIsHeld'
    <3>1. Accepted(toks', bar'[1])
      <4>1. bar'[1] = fresh
        BY <2>4
      <4>. QED
        BY <2>3, <4>1
    <3>. QED
      BY <2>1, <2>4, <3>1 DEF KInv, BarIsHeld, Minted, Written
  <2>. QED
    BY <2>3, <2>5, <2>6 DEF KInv
<1>2. CASE MintAsk
  <2>1. /\ at["setup"] = "mintAsk" /\ NewRow("kid-bar", "ask")
        /\ bar' = [bar EXCEPT ![2] = fresh] /\ at' = [at EXCEPT !["setup"] = "place"]
        /\ UNCHANGED <<kidBar, who, done>>
    BY <1>2 DEF MintAsk, Mint, MintBar, NewRow, Goto
  <2>2. "kid-bar" \in Names /\ "ask" \in KindOf("kid-bar") \ {"none"}
    BY DEF Names, KindOf
  <2>3. /\ RowsAreFresh'
        /\ \A t, k : Opens(t, k) => Opens(t, k)'
        /\ \A t : t = fresh => Opens(t, "ask")' /\ Accepted(toks', t)
        /\ \A t : \A m \in Names \ {"kid-bar"} : m \in Holders(toks, t) => Accepted(toks', t)
    BY <2>1, <2>2, NewRowKeeps DEF KInv
  <2>4. /\ at'["setup"] = "place"
        /\ bar'[1] = bar[1] /\ bar'[2] = fresh /\ bar' \in Nat \X Nat
    BY <1>0, <2>1 DEF AtOK, Procs, PairOK
  <2>5. PairsOpen'
    <3>1. PairOK(bar)'
      <4>1. \A t : t = bar'[1] => Opens(t, "read")'
        BY <1>0, <2>3, <2>4 DEF PairOK
      <4>2. \A t : t = bar'[2] => Opens(t, "ask")'
        BY <2>3, <2>4
      <4>. QED
        BY <2>4, <4>1, <4>2 DEF PairOK, Opens
    <3>2. \A b : PairOK(b) => PairOK(b)'
      BY <2>3 DEF PairOK
    <3>3. PairOK(kidBar)'
      <4>1. \A b : b = kidBar => PairOK(b)'
        BY <1>0, <3>2
      <4>. QED
        BY <2>1, <4>1 DEF PairOK, Opens
    <3>4. /\ Opens(NoSecret, "read")' /\ Opens(NoSecret, "ask")'
          /\ Opens(OldRead, "read")' /\ Opens(OldAsk, "ask")'
      BY <2>3 DEF KInv, PairsOpen
    <3>. QED
      BY <3>1, <3>3, <3>4 DEF PairsOpen
  <2>6. Works(bar)'
    <3>1. Accepted(toks, bar[1])
      BY <2>1 DEF KInv, BarIsHeld
    <3>2. PICK m \in Names : m \in Holders(toks, bar[1])
      BY <3>1 DEF Accepted, Holders
    <3>3. toks[m].kind = "read"
      BY <1>0, <3>2 DEF PairOK, Opens
    <3>4. m # "kid-bar"
      <4>1. toks["kid-bar"].kind \in {"none", "ask", "app"}
        BY <2>2 DEF KInv, RowsAreFresh, KindOf
      <4>. QED
        BY <3>3, <4>1
    <3>5. Accepted(toks', bar'[1])
      BY <2>3, <2>4, <3>2, <3>4
    <3>6. Accepted(toks', bar'[2])
      BY <2>3, <2>4
    <3>. QED
      BY <3>5, <3>6 DEF Works
  <2>7. BarIsHeld'
    BY <2>1, <2>4, <2>6 DEF KInv, BarIsHeld, Minted, Written
  <2>. QED
    BY <2>3, <2>5, <2>7 DEF KInv
<1>. QED
  BY <1>1, <1>2

LEMMA BarTokens == ASSUME AtOK, KInv, BarStep PROVE KInv'
<1>1. /\ at["setup"] = "bar" /\ kidBar' = bar /\ at' = [at EXCEPT !["setup"] = "migrate"]
      /\ UNCHANGED <<toks, fresh, bar, who, done>>
  BY DEF BarStep, WriteKidBar, Goto, memVars
<1>2. at'["setup"] = "migrate"
  BY <1>1 DEF AtOK, Procs
<1>3. RowsAreFresh'
  BY <1>1 DEF KInv, RowsAreFresh
<1>4. PairsOpen'
  BY <1>1 DEF KInv, PairsOpen, PairOK, Opens
<1>5. BarIsHeld'
  BY <1>1, <1>2 DEF KInv, BarIsHeld, Works, Minted, Written
<1>. QED
  BY <1>3, <1>4, <1>5 DEF KInv

LEMMA EndTokens == ASSUME AtOK, KInv, End PROVE KInv'
<1>1. /\ at["setup"] = "end" /\ done' = who["setup"] /\ at' = [at EXCEPT !["setup"] = "off"]
      /\ UNCHANGED <<toks, fresh, kidBar, bar, who>>
  BY DEF End, Goto, keyVars
<1>2. at'["setup"] = "off"
  BY <1>1 DEF AtOK, Procs
<1>3. RowsAreFresh'
  BY <1>1 DEF KInv, RowsAreFresh
<1>4. PairsOpen'
  BY <1>1 DEF KInv, PairsOpen, PairOK, Opens
<1>5. BarIsHeld'
  BY <1>1, <1>2 DEF KInv, BarIsHeld, Works, Minted, Written
<1>. QED
  BY <1>3, <1>4, <1>5 DEF KInv

LEMMA PairingTokens == ASSUME KInv, Pairing PROVE KInv'
<1>1. UNCHANGED <<kidBar, bar, done, at, who>>
  BY DEF Pairing, PairMint, PairSet, PairWrite, Reclaim, PairStop, PostToken, memVars
<1>2. \/ UNCHANGED <<toks, fresh>>
      \/ NewRow("parent-pair", "parent")
      \/ \E n \in {"kid-bar", "app"} : NewRow(n, "app") /\ MintFree(toks, n)
  BY DEF Pairing, PairMint, PairSet, PairWrite, Reclaim, PairStop, PostToken, NewRow
<1>3. CASE UNCHANGED <<toks, fresh>>
  BY <1>1, <1>3, TokensAside
<1>4. CASE NewRow("parent-pair", "parent")
  BY <1>1, <1>4, OtherRow DEF Names, KindOf
<1>5. ASSUME NEW n \in {"kid-bar", "app"}, NewRow(n, "app"), MintFree(toks, n) PROVE KInv'
  BY <1>1, <1>5, OtherRow DEF Names, KindOf
<1>. QED
  BY <1>2, <1>3, <1>4, <1>5

\* The other steps of a setup.
LEMMA SetupTokens ==
  ASSUME AtOK, FileOK, KInv,
         \/ Locked \/ Config \/ Place \/ Link \/ RoleStep \/ Import("setup", "migrate")
         \/ Ensure \/ Unit \/ Migration("setup") \/ Kill("setup")
  PROVE  KInv'
<1>. DEFINE Aside == \E step \in Steps :
              /\ UNCHANGED <<toks, fresh, kidBar, bar, done, who>>
              /\ at["setup"] # "off" /\ at' = [at EXCEPT !["setup"] = step]
              /\ \/ step \in {"off", "seed", "reuse"}
                 \/ who["setup"] # "kid" /\ step \notin {"mintRead", "mintAsk"}
                 \/ at["setup"] \in Minted /\ step \in Minted
                 \/ at["setup"] \in Written /\ step \in Written
<1>0. ASSUME Aside PROVE KInv'
  BY <1>0, TokensAside DEF AtOK, Procs
<1>. USE DEF Goto, keyVars, memVars, Steps, Minted, Written, After
<1>1. CASE Locked
  <2>1. who["setup"] # "kid"
    BY <1>1 DEF Locked, KInv, BarIsHeld
  <2>. QED
    BY <1>0, <1>1, <2>1 DEF Locked
<1>2. CASE Config \/ Place \/ Link
  BY <1>0, <1>2 DEF Config, Place, Link
<1>3. CASE RoleStep
  BY <1>0, <1>3 DEF RoleStep, WriteRole
<1>4. CASE Import("setup", "migrate")
  <2>1. who["setup"] # "kid"
    BY <1>4 DEF Import, KInv, BarIsHeld
  <2>. QED
    BY <1>0, <1>4, <2>1 DEF Import
<1>5. CASE Ensure \/ Unit
  BY <1>0, <1>5 DEF Ensure, WriteShell, Unit
<1>6. CASE Migration("setup")
  <2>1. CASE Migrate("setup") \/ NextRetired("setup")
    BY <1>0, <2>1 DEF Migrate, NextRetired
  <2>2. CASE Rewrite("setup") \/ Drop("setup")
    BY <1>0, <2>2 DEF Rewrite, Drop, ReadShell, WriteShell
  <2>3. CASE Links("setup") \/ Unlink("setup") \/ Swap("setup") \/ Retire("setup")
    BY <1>0, <2>3 DEF Links, Unlink, Swap, Retire
  <2>. QED
    BY <1>6, <2>1, <2>2, <2>3 DEF Migration
<1>7. CASE Kill("setup")
  BY <1>0, <1>7 DEF Kill
<1>. QED
  BY <1>1, <1>2, <1>3, <1>4, <1>5, <1>6, <1>7

\* The steps of the panel and its program.
LEMMA LiveTokens ==
  ASSUME AtOK, FileOK, KInv,
         \/ PanelReads \/ LiveStart \/ Import("live", "role")
         \/ WriteRole("live", "parent", "off") \/ Migration("live") \/ Kill("live")
         \/ UNCHANGED vars
  PROVE  KInv'
<1>. DEFINE Aside == /\ UNCHANGED <<toks, fresh, kidBar, bar, done>>
                     /\ who'["setup"] = who["setup"] /\ at'["setup"] = at["setup"]
<1>0. ASSUME Aside PROVE KInv'
  BY <1>0, TokensAside
<1>. USE DEF Goto, keyVars, memVars, Procs, AtOK, FileOK
<1>1. CASE PanelReads \/ LiveStart \/ Kill("live") \/ UNCHANGED vars
  BY <1>0, <1>1 DEF PanelReads, LiveStart, Kill, vars
<1>2. CASE Import("live", "role") \/ WriteRole("live", "parent", "off")
  BY <1>0, <1>2 DEF Import, WriteRole
<1>3. CASE Migration("live")
  <2>1. CASE Migrate("live") \/ NextRetired("live")
    BY <1>0, <2>1 DEF Migrate, NextRetired
  <2>2. CASE Rewrite("live") \/ Drop("live")
    BY <1>0, <2>2 DEF Rewrite, Drop, ReadShell, WriteShell
  <2>3. CASE Links("live") \/ Unlink("live") \/ Swap("live") \/ Retire("live")
    BY <1>0, <2>3 DEF Links, Unlink, Swap, Retire
  <2>. QED
    BY <1>3, <2>1, <2>2, <2>3 DEF Migration
<1>. QED
  BY <1>1, <1>2, <1>3

LEMMA TokensStep == ASSUME AtOK, FileOK, ShellOK, KInv, [Next]_vars PROVE KInv'
<1>1. CASE \E r \in {"parent", "kid"}, src \in Repos : Start(r, src)
  BY <1>1, StartTokens
<1>2. CASE SeedStep \/ Reuse \/ MintRead \/ MintAsk \/ BarStep \/ End \/ Pairing
  BY <1>2, SeedTokens, ReuseTokens, MintTokens, BarTokens, EndTokens, PairingTokens
<1>3. CASE \/ Locked \/ Config \/ Place \/ Link \/ RoleStep \/ Import("setup", "migrate")
           \/ Ensure \/ Unit
  BY <1>3, SetupTokens
<1>4. ASSUME NEW p \in Procs, Migration(p) \/ Kill(p) PROVE KInv'
  BY <1>4, SetupTokens, LiveTokens DEF Procs
<1>5. CASE \/ PanelReads \/ LiveStart \/ Import("live", "role")
           \/ WriteRole("live", "parent", "off") \/ UNCHANGED vars
  BY <1>5, LiveTokens
<1>. QED
  BY <1>1, <1>2, <1>3, <1>4, <1>5 DEF Next

LEMMA LinkStep == ASSUME RowsAreFresh, LinkOK, [Next]_vars PROVE LinkOK'
<1>1. CASE UNCHANGED <<paired, pairFile, pairing>>
  BY <1>1 DEF LinkOK
<1>2. CASE Pairing
  <2>1. CASE PairMint \/ PairWrite \/ PairStop
    BY <2>1 DEF PairMint, PairWrite, PairStop, Idle, NoSecret, LinkOK, RowsAreFresh
  <2>2. CASE PairSet
    BY <2>2 DEF PairSet, LinkOK
  <2>3. CASE Reclaim \/ \E n \in {"kid-bar", "app"} : PostToken(n, "app")
    BY <1>1, <2>3 DEF Reclaim, PostToken
  <2>. QED
    BY <1>2, <2>1, <2>2, <2>3 DEF Pairing
<1>. USE DEF keyVars
<1>3. ASSUME NEW r \in {"parent", "kid"}, NEW src \in Repos, Start(r, src) PROVE LinkOK'
  BY <1>1, <1>3 DEF Start
<1>4. CASE Locked \/ Config \/ SeedStep \/ Reuse \/ MintRead \/ MintAsk
  BY <1>1, <1>4 DEF Locked, Config, SeedStep, Reuse, MintRead, MintAsk, Mint
<1>5. CASE Place \/ Link \/ RoleStep \/ BarStep \/ Unit \/ End
  BY <1>1, <1>5 DEF Place, Link, RoleStep, WriteRole, BarStep, Unit, End
<1>6. CASE \/ Import("setup", "migrate") \/ Import("live", "role")
           \/ WriteRole("live", "parent", "off") \/ Ensure
  BY <1>1, <1>6 DEF Import, WriteRole, Ensure, WriteShell
<1>7. ASSUME NEW p \in Procs, Migration(p) PROVE LinkOK'
  BY <1>1, <1>7 DEF Migration, Migrate, Rewrite, Links, Unlink, Swap, Retire, Drop,
                    NextRetired, ReadShell, WriteShell
<1>8. CASE PanelReads \/ LiveStart \/ (\E p \in Procs : Kill(p)) \/ UNCHANGED vars
  BY <1>1, <1>8 DEF PanelReads, LiveStart, Kill, vars
<1>. QED
  BY <1>2, <1>3, <1>4, <1>5, <1>6, <1>7, <1>8 DEF Next

TInv == AtOK /\ LinkOK /\ FileOK /\ ShellOK /\ KInv

LEMMA TokensInit == Init => RowsAreFresh /\ PairsOpen
<1>. SUFFICES ASSUME Init PROVE RowsAreFresh /\ PairsOpen
  OBVIOUS
<1>. USE DEF NoSecret, OldRead, OldAsk, NoBar
<1>1. KeyInit /\ fresh = 4 /\ bar = NoBar
  BY DEF Init, KeyInit
<1>2. \/ /\ \A n \in Names : toks[n] = NoRow
         /\ toks = [n \in Names |-> NoRow] /\ kidBar = NoBar
      \/ /\ toks \in [Names -> [kind : Kinds \cup {"none"}, secret : Nat]]
         /\ toks["bootstrap"] = [kind |-> "parent", secret |-> 1]
         /\ toks["kid-bar-read"] = [kind |-> "read", secret |-> 2]
         /\ toks["kid-bar"] = [kind |-> "ask", secret |-> 3]
         /\ toks["parent-pair"] = NoRow /\ toks["app"] = NoRow
         /\ kidBar \in {NoBar, <<2, 3>>}
  BY <1>1 DEF KeyInit, Names, Row, NoRow, Kinds
<1>3. RowsAreFresh
  <2>1. NoRow \in [kind : Kinds \cup {"none"}, secret : Nat]
    BY DEF NoRow
  <2>2. toks \in [Names -> [kind : Kinds \cup {"none"}, secret : Nat]]
    BY <1>2, <2>1
  <2>3. ASSUME NEW n \in Names
        PROVE  /\ toks[n].kind \in KindOf(n) /\ toks[n].secret < 4
               /\ toks[n] # NoRow => toks[n].secret # 0
    BY <1>2 DEF Names, NoRow, KindOf
  <2>. QED
    BY <1>1, <2>2, <2>3 DEF RowsAreFresh
<1>4. PairsOpen
  <2>1. \A n \in Holders(toks, 0) : FALSE
    BY <1>2 DEF Holders, Names, NoRow
  <2>2. \A n \in Holders(toks, 2) : toks[n].kind = "read"
    BY <1>2 DEF Holders, Names, NoRow
  <2>3. \A n \in Holders(toks, 3) : toks[n].kind = "ask"
    BY <1>2 DEF Holders, Names, NoRow
  <2>4. Opens(0, "read") /\ Opens(0, "ask") /\ Opens(2, "read") /\ Opens(3, "ask")
    BY <1>1, <2>1, <2>2, <2>3 DEF Opens
  <2>5. PairOK(<<0, 0>>) /\ PairOK(<<2, 3>>)
    BY <2>4 DEF PairOK
  <2>. QED
    BY <1>1, <1>2, <2>4, <2>5 DEF PairsOpen
<1>. QED
  BY <1>3, <1>4

LEMMA TInit == Init => TInv
<1>. SUFFICES ASSUME Init PROVE TInv
  OBVIOUS
<1>1. /\ at = [p \in Procs |-> "off"] /\ nth = [p \in Procs |-> 1]
      /\ doc = [p \in Procs |-> {}] /\ who = [p \in Procs |-> "none"]
      /\ done = "none" /\ repo = "share" /\ shell \in Layouts
  BY DEF Init
<1>2. AtOK
  BY <1>1, RetiredDomain DEF AtOK, Steps
<1>3. LinkOK
  BY DEF Init, KeyInit, LinkOK, Idle, NoSecret
<1>4. FileOK
  <2>1. runs \in 0..MaxRuns /\ lives \in 0..MaxLives /\ kills \in 0..MaxKills
    BY SetupAssumption DEF Init
  <2>2. who \in [Procs -> Roles] /\ role \in Roles /\ panel \in Roles /\ done \in Roles
    BY <1>1 DEF Init, Roles
  <2>3. /\ dest \in {"none", "real", "share", "old", "self"} /\ olds \subseteq RetiredIds
        /\ cfg \in {"none", "lan", "ok"} /\ unit \in BOOLEAN /\ kids \in BOOLEAN
        /\ pin \in BOOLEAN
    BY DEF Init
  <2>. QED
    BY <1>1, <2>1, <2>2, <2>3 DEF FileOK
<1>5. ShellOK
  BY <1>1, SetupAssumption DEF ShellOK
<1>6. BarIsHeld
  BY <1>1 DEF BarIsHeld, Minted, Written, Procs
<1>. QED
  BY <1>2, <1>3, <1>4, <1>5, <1>6, TokensInit DEF TInv, KInv

LEMMA TStep == TInv /\ [Next]_vars => TInv'
  BY AtStep, LinkStep, FileStep, ShellStep, TokensStep DEF TInv, KInv

\* Every variable of the setup keeps its type, whatever is killed and whatever
\* the two programs do at once.
THEOREM SetupTypes == Spec => []TypeOK
<1>1. TInv => TypeOK
  BY DEF TInv, KInv, AtOK, LinkOK, FileOK, ShellOK, RowsAreFresh, PairsOpen, PairOK, TypeOK
<1>. QED
  BY <1>1, TInit, TStep, PTL DEF Spec

\* A kid setup that ended with no error has left the bar a read token and an
\* ask token that the bank accepts (mintKidBar, writeKidBar): a pair is used
\* again only if the bank takes both, a secret is never handed out twice, and
\* no row of the bar's is renewed by another hand.
THEOREM BarOfKidWorks == Spec => []BarWorks
<1>1. KInv => BarWorks
  <2>. SUFFICES ASSUME KInv, done = "kid"
                PROVE  /\ \E n \in Holders(toks, kidBar[1]) : toks[n].kind = "read"
                       /\ \E n \in Holders(toks, kidBar[2]) : toks[n].kind = "ask"
    BY DEF BarWorks
  <2>1. Works(kidBar) /\ PairOK(kidBar)
    BY DEF KInv, BarIsHeld, PairsOpen
  <2>. QED
    BY <2>1 DEF Works, Accepted, PairOK, Opens
<1>2. TInv => KInv
  BY DEF TInv
<1>. QED
  BY <1>1, <1>2, TInit, TStep, PTL DEF Spec

-----------------------------------------------------------------------------
(* Edits of shell.json                                                     *)

\* Two widgets have two places, and only ensureWidget puts one at the end.
Placed(ws) ==
  /\ ws \subseteq Widgets
  /\ \A w, v \in ws : w.place = v.place => w = v
  /\ \A w \in ws : w.place = Last => w.id = New
ChipOnce(ws) == \A w, v \in ws : w.id = New /\ v.id = New => w = v
NoneOf(ws, ids) == Showing(ws, ids) = {}

LEMMA SomeLeast ==
  ASSUME NEW T \in SUBSET Nat, T # {} PROVE \E x \in T : \A y \in T : x <= y
<1>. DEFINE R == OpToRel(<, Nat)
<1>1. IsWellFoundedOn(R, Nat)
  BY NatLessThanWellFounded
<1>2. \A x, y \in Nat : y < x => <<y, x>> \in R
  BY DEF OpToRel
<1>. HIDE DEF R
<1>3. PICK x \in T : \A y \in T : <<y, x>> \notin R
  BY <1>1, WFMin
<1>4. \A y \in T : ~ (y < x)
  BY <1>2, <1>3
<1>. QED
  BY <1>3, <1>4

\* Of widgets at different places, one is the first.
LEMMA OneIsFirst ==
  ASSUME NEW ws, Placed(ws), ws # {} PROVE \E w \in ws : FirstOf(ws) = {w}
<1>1. \A w \in ws : w.place \in Nat
  BY SetupAssumption DEF Placed, Widgets
<1>. DEFINE places == {w.place : w \in ws}
<1>2. places \in SUBSET Nat /\ places # {}
  BY <1>1
<1>. HIDE DEF places
<1>3. PICK x \in places : \A y \in places : x <= y
  BY <1>2, SomeLeast
<1>4. PICK w \in ws : \A v \in ws : w.place <= v.place
  BY <1>3 DEF places
<1>5. \A v \in ws \ {w} : w.place < v.place
  BY <1>1, <1>4 DEF Placed
<1>6. \A v \in ws \ {w} : ~ (v.place < w.place)
  BY <1>1, <1>4
<1>. QED
  BY <1>5, <1>6 DEF FirstOf

LEMMA NamesDiffer ==
  /\ Legacy \in RetiredIds /\ Legacy \in Ids /\ New \in Ids /\ Legacy # New
  /\ New \notin RetiredIds /\ Legacy \notin Others /\ New \notin Others
  /\ \A id \in RetiredIds : id # New /\ id \notin Others
  BY SetupAssumption DEF Ids

LEMMA WithoutKeeps ==
  ASSUME NEW ws, Placed(ws), NEW id \in RetiredIds
  PROVE  /\ Placed(Without(ws, id)) /\ NoneOf(Without(ws, id), {id})
         /\ ChipOnce(ws) => ChipOnce(Without(ws, id))
         /\ \A ids : NoneOf(ws, ids) => NoneOf(Without(ws, id), ids)
         /\ Shows(ws, New) => Shows(Without(ws, id), New)
         /\ Showing(Without(ws, id), Others) = Showing(ws, Others)
  BY NamesDiffer DEF Placed, Without, NoneOf, Showing, Shows, ChipOnce

LEMMA EnsuredKeeps ==
  ASSUME NEW ws, Placed(ws)
  PROVE  /\ Placed(Ensured(ws)) /\ Shows(Ensured(ws), New)
         /\ ChipOnce(ws) => ChipOnce(Ensured(ws))
         /\ NoneOf(ws, RetiredIds) => NoneOf(Ensured(ws), RetiredIds)
         /\ Showing(Ensured(ws), Others) = Showing(ws, Others)
<1>1. CASE Shows(ws, New)
  BY <1>1 DEF Ensured
<1>2. CASE ~ Shows(ws, New)
  <2>. DEFINE c == Widget(Last, New, NoBar)
  <2>1. c \in Widgets /\ c.id = New /\ c.place = Last
    <3>1. Last \in 0..Last /\ NoBar \in OldBars
      BY SetupAssumption DEF OldBars, NoBar
    <3>. QED
      BY <3>1, NamesDiffer DEF Widget, Widgets
  <2>2. Ensured(ws) = ws \cup {c}
    BY <1>2 DEF Ensured
  <2>3. \A w \in ws : w.id # New /\ w.place # Last
    BY <1>2 DEF Shows, Showing, Placed
  <2>. HIDE DEF c
  <2>. QED
    BY <2>1, <2>2, <2>3, NamesDiffer DEF Placed, Shows, Showing, ChipOnce, NoneOf
<1>. QED
  BY <1>1, <1>2

\* The first legacy chip takes the new id where it stands, unless the bar has
\* it; the others go.
LEMMA RewrittenKeeps ==
  ASSUME NEW ws, Placed(ws)
  PROVE  /\ Placed(Rewritten(ws)) /\ NoneOf(Rewritten(ws), {Legacy})
         /\ ChipOnce(ws) => ChipOnce(Rewritten(ws))
         /\ ~ NoneOf(ws, {New, Legacy}) => Shows(Rewritten(ws), New)
         /\ Showing(Rewritten(ws), Others) = Showing(ws, Others)
<1>. DEFINE old == Showing(ws, {Legacy})
<1>1. CASE Shows(ws, New) \/ old = {}
  <2>1. Rewritten(ws) = Without(ws, Legacy)
    BY <1>1 DEF Rewritten, Renamed, FirstOf
  <2>2. ~ NoneOf(ws, {New, Legacy}) => Shows(ws, New)
    BY <1>1 DEF NoneOf, Shows, Showing
  <2>. QED
    BY <2>1, <2>2, WithoutKeeps, NamesDiffer
<1>2. CASE ~ Shows(ws, New) /\ old # {}
  <2>1. Placed(old) /\ old \subseteq ws /\ \A w \in old : w.id = Legacy
    BY DEF Placed, Showing
  <2>2. PICK w \in old : FirstOf(old) = {w}
    BY <1>2, <2>1, OneIsFirst
  <2>. DEFINE c == [w EXCEPT !.id = New]
  <2>3. w \in ws /\ w \in Widgets /\ w.id = Legacy
    BY <2>1, <2>2 DEF Placed
  <2>4. c \in Widgets /\ c.id = New /\ c.place = w.place
    BY <2>3, NamesDiffer DEF Widgets
  <2>5. Rewritten(ws) = Without(ws, Legacy) \cup {c}
    BY <1>2, <2>2 DEF Rewritten, Renamed
  <2>6. \A v \in Without(ws, Legacy) : v \in ws /\ v.id \notin {New, Legacy} /\ v.place # w.place
    BY <1>2, <2>3 DEF Without, Shows, Showing, Placed
  <2>. HIDE DEF c
  <2>7. Placed(Rewritten(ws))
    BY <2>3, <2>4, <2>5, <2>6 DEF Placed
  <2>8. NoneOf(Rewritten(ws), {Legacy}) /\ ChipOnce(Rewritten(ws)) /\ Shows(Rewritten(ws), New)
    BY <2>4, <2>5, <2>6, NamesDiffer DEF NoneOf, Showing, ChipOnce, Shows
  <2>9. Showing(Rewritten(ws), Others) = Showing(ws, Others)
    BY <2>4, <2>5, NamesDiffer DEF Showing, Without
  <2>. QED
    BY <2>7, <2>8, <2>9
<1>. QED
  BY <1>1, <1>2

\* An edit that finds nothing to change changes nothing.
LEMMA NothingToEdit ==
  ASSUME NEW ws, NEW id, NoneOf(ws, {id})
  PROVE  Without(ws, id) = ws /\ (id = Legacy => Rewritten(ws) = ws)
<1>1. Showing(ws, {id}) = {} /\ \A w \in ws : w.id # id
  BY DEF NoneOf, Showing
<1>2. Without(ws, id) = ws
  BY <1>1 DEF Without
<1>3. ASSUME id = Legacy PROVE Rewritten(ws) = ws
  BY <1>1, <1>2, <1>3 DEF Rewritten, Renamed, FirstOf
<1>. QED
  BY <1>2, <1>3

-----------------------------------------------------------------------------
(* The chip                                                                *)

Entering == {"rewrite", "rewriteWrite", "links", "unlink", "swap"}
Finishing == {"ensure", "ensureWrite", "unit", "end"}

\* A retired id that has neither a folder nor a chip; all of them.
Lacks(k) == Retired[k] \notin olds /\ NoneOf(shell.widgets, {Retired[k]})
Clean == olds = {} /\ NoneOf(shell.widgets, RetiredIds)

\* What holds of a process p at a step: what it is about to write is made of
\* what is in the file; how far its migration has come; and a setup comes to
\* the migration with a folder that has its manifest.
WhereAt(p, step) ==
  /\ step = "rewriteWrite" => IsBar(shell) /\ doc[p] = Rewritten(shell.widgets)
  /\ step = "dropWrite" =>
       IsBar(shell) /\ doc[p] = Without(shell.widgets, Retired[nth[p]])
  /\ step = "ensureWrite" => doc[p] = Ensured(shell.widgets)
  /\ step \in Entering => nth[p] = 1
  /\ step \in {"links", "unlink", "swap"} \cup Retiring => NoneOf(shell.widgets, {Legacy})
  /\ step \in Retiring => \A k \in 1..(nth[p] - 1) : Lacks(k)
  /\ step \in {"drop", "dropWrite", "next"} => Retired[nth[p]] \notin olds
  /\ step = "next" => Lacks(nth[p])
  /\ step \in Finishing => p = "setup" /\ Clean
  /\ step \in {"unit", "end"} => IsBar(shell) /\ Shows(shell.widgets, New)
  /\ p = "setup" =>
       /\ step \in BeforeLink /\ repo = "self" => Manifest
       /\ step = "link" => ~ Manifest
       /\ step \in {"role", "bar", "import", "importPin", "migrate"} => Manifest

ShellKept == Placed(shell.widgets) /\ (~ IsBar(shell) => shell.widgets = {})
DoneIsClean ==
  done # "none" =>
    /\ at["setup"] = "off" /\ at["live"] \notin {"rewriteWrite", "dropWrite"}
    /\ Clean /\ IsBar(shell) /\ Shows(shell.widgets, New)

CInv == ShellKept /\ (\A p \in Procs : WhereAt(p, at[p])) /\ DoneIsClean

LEMMA OffIsNowhere == ASSUME NEW p PROVE WhereAt(p, "off")
  BY DEF WhereAt, Entering, Retiring, Finishing, BeforeLink

\* A step of p alone.
LEMMA ActsAlone ==
  ASSUME IInv, CInv, NEW p \in Procs, at[p] # "off", NEW step, at' = [at EXCEPT ![p] = step],
         ShellKept', WhereAt(p, step)', DoneIsClean'
  PROVE  CInv'
<1>1. /\ at'[p] = step /\ \A q \in Procs \ {p} : at'[q] = "off"
  BY OtherIsOff
<1>2. \A q \in Procs \ {p} : WhereAt(q, at[q])'
  BY <1>1 DEF WhereAt, Entering, Retiring, Finishing, BeforeLink
<1>3. WhereAt(p, at[p])'
  BY <1>1 DEF WhereAt
<1>. QED
  BY <1>2, <1>3 DEF CInv

\* A step of p that leaves the files alone.
LEMMA Quietly ==
  ASSUME IInv, CInv, NEW p \in Procs, at[p] # "off", NEW step, at' = [at EXCEPT ![p] = step],
         UNCHANGED <<dest, olds, shell, doc, nth, repo, done>>,
         step \notin {"rewriteWrite", "dropWrite"},
         WhereAt(p, step)
  PROVE  CInv'
<1>1. ShellKept'
  BY DEF CInv, ShellKept
<1>2. Manifest' = Manifest /\ Clean' = Clean /\ \A k : Lacks(k)' = Lacks(k)
  BY DEF Manifest, Clean, Lacks
<1>3. WhereAt(p, step)'
  BY <1>2 DEF WhereAt
<1>4. at'[p] = step /\ \A q \in Procs \ {p} : at'[q] = "off" /\ at[q] = "off"
  BY OtherIsOff
<1>5. DoneIsClean'
  BY <1>2, <1>4 DEF CInv, DoneIsClean, Procs
<1>. QED
  BY <1>1, <1>3, <1>5, ActsAlone

LEMMA SetupQuiet ==
  ASSUME TInv, IInv, CInv,
         \/ Locked \/ Config \/ SeedStep \/ Reuse \/ MintRead \/ MintAsk
         \/ Place \/ RoleStep \/ BarStep \/ Import("setup", "migrate") \/ Unit
  PROVE  CInv'
<1>. DEFINE Quiet == \E step \in Steps :
              /\ at["setup"] # "off" /\ at' = [at EXCEPT !["setup"] = step]
              /\ UNCHANGED <<dest, olds, shell, doc, nth, repo, done>>
              /\ step \notin {"rewriteWrite", "dropWrite"}
              /\ WhereAt("setup", step)
<1>0. ASSUME Quiet PROVE CInv'
  BY <1>0, Quietly DEF Procs
<1>. HIDE DEF Quiet
<1>1. WhereAt("setup", at["setup"])
  BY DEF CInv, Procs
<1>2. /\ dest \in {"none", "real", "share", "old", "self"}
      /\ repo \in {"share", "old", "self"}
  BY SetupAssumption DEF TInv, FileOK
<1>. USE DEF Goto, fileVars, memVars, Steps, WhereAt, Entering, Retiring, Finishing, BeforeLink,
             Quiet
<1>3. CASE Locked
  BY <1>0, <1>1, <1>3, OffIsNowhere DEF Locked
<1>4. CASE Config \/ SeedStep \/ Reuse
  BY <1>0, <1>1, <1>4 DEF Config, SeedStep, Reuse
<1>5. CASE MintRead \/ MintAsk
  BY <1>0, <1>1, <1>5 DEF MintRead, MintAsk, Mint
<1>6. CASE Place
  <2>1. repo = "old" => Legacy \in olds
    BY <1>6 DEF Place, IInv, CheckoutIsThere
  <2>2. Manifest \/ dest = repo => Manifest
    BY <1>1, <1>2, <1>6, <2>1 DEF Place, Manifest
  <2>. QED
    BY <1>0, <1>1, <1>6, <2>2 DEF Place
<1>7. CASE RoleStep
  BY <1>0, <1>1, <1>7 DEF RoleStep, WriteRole
<1>8. CASE BarStep
  BY <1>0, <1>1, <1>8 DEF BarStep
<1>9. CASE Import("setup", "migrate")
  BY <1>0, <1>1, <1>9 DEF Import
<1>10. CASE Unit
  BY <1>0, <1>1, <1>10 DEF Unit
<1>. QED
  BY <1>3, <1>4, <1>5, <1>6, <1>7, <1>8, <1>9, <1>10

LEMMA MigrationQuiet ==
  ASSUME TInv, IInv, CInv, NEW p \in Procs,
         \/ Links(p) \/ Kill(p)
         \/ p = "live" /\ (Import("live", "role") \/ WriteRole("live", "parent", "off"))
  PROVE  CInv'
<1>. DEFINE Quiet == \E step \in Steps :
              /\ at[p] # "off" /\ at' = [at EXCEPT ![p] = step]
              /\ UNCHANGED <<dest, olds, shell, doc, nth, repo, done>>
              /\ step \notin {"rewriteWrite", "dropWrite"}
              /\ WhereAt(p, step)
<1>0. ASSUME Quiet PROVE CInv'
  BY <1>0, Quietly
<1>. HIDE DEF Quiet
<1>1. WhereAt(p, at[p])
  BY DEF CInv
<1>. USE DEF Goto, fileVars, memVars, Steps, Quiet
<1>2. CASE Kill(p)
  BY <1>0, <1>2, OffIsNowhere DEF Kill
<1>3. CASE Links(p)
  <2>1. at[p] = "links" /\ nth[p] = 1 /\ NoneOf(shell.widgets, {Legacy})
    BY <1>1, <1>3 DEF Links, WhereAt, Entering
  <2>2. \A step \in {"retire", "unlink", "off"} : WhereAt(p, step)
    BY <2>1 DEF WhereAt, Entering, Retiring, Finishing, BeforeLink
  <2>. QED
    BY <1>0, <1>3, <2>2 DEF Links
<1>4. CASE p = "live" /\ (Import("live", "role") \/ WriteRole("live", "parent", "off"))
  <2>1. \A step \in {"off", "role", "importPin"} : WhereAt("live", step)
    BY DEF WhereAt, Entering, Retiring, Finishing, BeforeLink
  <2>. QED
    BY <1>0, <1>4, <2>1 DEF Import, WriteRole
<1>. QED
  BY <1>2, <1>3, <1>4

\* The steps that read shell.json: an edit that changes nothing writes nothing.
LEMMA ReadsShell ==
  ASSUME TInv, IInv, CInv, NEW p \in Procs, NEW here, NEW edited, NEW write, NEW next,
         ReadShell(p, here, edited, write, next), here # "off",
         next \notin {"rewriteWrite", "dropWrite"},
         edited = shell.widgets => WhereAt(p, next),
         write \in {"rewriteWrite", "dropWrite"},
         write = "rewriteWrite" => edited = Rewritten(shell.widgets) /\ nth[p] = 1,
         write = "dropWrite" =>
           /\ edited = Without(shell.widgets, Retired[nth[p]])
           /\ NoneOf(shell.widgets, {Legacy}) /\ Retired[nth[p]] \notin olds
           /\ \A k \in 1..(nth[p] - 1) : Lacks(k),
         Clean => edited = shell.widgets,
         shell.file = "missing" => edited = shell.widgets
  PROVE  CInv'
<1>. USE DEF fileVars, memVars
<1>1. at[p] = here /\ UNCHANGED <<dest, olds, shell, repo, done>>
  BY DEF ReadShell
<1>2. CASE shell = Corrupt
  BY <1>1, <1>2, Quietly, OffIsNowhere DEF ReadShell, Goto
<1>3. CASE shell # Corrupt /\ edited = shell.widgets
  BY <1>1, <1>3, Quietly DEF ReadShell, Goto
<1>4. CASE shell # Corrupt /\ edited # shell.widgets
  <2>1. /\ doc' = [doc EXCEPT ![p] = edited] /\ at' = [at EXCEPT ![p] = write] /\ nth' = nth
    BY <1>4 DEF ReadShell
  <2>2. IsBar(shell)
    <3>1. /\ shell \in [file : {"bar", "missing", "corrupt"}, widgets : SUBSET Widgets]
          /\ ~ IsBar(shell) => shell.widgets = {}
      BY DEF TInv, ShellOK, CInv, ShellKept
    <3>2. shell.file = "corrupt" => shell = Corrupt
      BY <3>1 DEF Corrupt, IsBar
    <3>. QED
      BY <1>4, <3>1, <3>2 DEF IsBar
  <2>3. doc'[p] = edited
    BY <2>1 DEF TInv, ShellOK
  <2>4. WhereAt(p, write)'
    BY <1>1, <2>1, <2>2, <2>3 DEF WhereAt, Lacks, Entering, Retiring, Finishing, BeforeLink
  <2>5. ShellKept' /\ DoneIsClean'
    <3>1. done = "none"
      BY <1>4 DEF CInv, DoneIsClean
    <3>. QED
      BY <1>1, <3>1 DEF CInv, ShellKept, DoneIsClean
  <2>. QED
    BY <1>1, <2>1, <2>4, <2>5, ActsAlone
<1>. QED
  BY <1>2, <1>3, <1>4

\* What a write of shell.json does.
LEMMA Writes ==
  ASSUME TInv, NEW p \in Procs, NEW here, NEW next, WriteShell(p, here, next)
  PROVE  /\ at[p] = here /\ UNCHANGED <<dest, olds, nth, repo, done>>
         /\ at' = [at EXCEPT ![p] = next]
         /\ IsBar(shell)' /\ shell'.widgets = doc[p]
  BY DEF WriteShell, Bar, IsBar, memVars

LEMMA RewriteKeepsChip == ASSUME TInv, IInv, CInv, NEW p \in Procs, Rewrite(p) PROVE CInv'
<1>. DEFINE ws == shell.widgets
<1>1. WhereAt(p, at[p]) /\ Placed(ws)
  BY DEF CInv, ShellKept
<1>2. CASE ReadShell(p, "rewrite", Rewritten(ws), "rewriteWrite", "links")
  <2>1. nth[p] = 1
    BY <1>1, <1>2 DEF ReadShell, WhereAt, Entering
  <2>2. NoneOf(Rewritten(ws), {Legacy})
    BY <1>1, RewrittenKeeps
  <2>3. Rewritten(ws) = ws => WhereAt(p, "links")
    BY <2>1, <2>2 DEF WhereAt, Entering, Retiring, Finishing, BeforeLink
  <2>4. Clean => Rewritten(ws) = ws
    <3>1. Clean => NoneOf(ws, {Legacy})
      BY NamesDiffer DEF Clean, NoneOf, Showing
    <3>. QED
      BY <3>1, NothingToEdit
  <2>5. shell.file = "missing" => Rewritten(ws) = ws
    <3>1. shell.file = "missing" => NoneOf(ws, {Legacy})
      BY DEF CInv, ShellKept, IsBar, NoneOf, Showing
    <3>. QED
      BY <3>1, NothingToEdit
  <2>. HIDE DEF ws
  <2>6. /\ "rewrite" # "off" /\ "links" \notin {"rewriteWrite", "dropWrite"}
        /\ "rewriteWrite" \in {"rewriteWrite", "dropWrite"}
    OBVIOUS
  <2>. QED
    BY <1>2, <2>1, <2>3, <2>4, <2>5, <2>6, ReadsShell DEF ws
<1>3. CASE WriteShell(p, "rewriteWrite", "links")
  <2>1. /\ at[p] = "rewriteWrite" /\ UNCHANGED <<dest, olds, nth, repo, done>>
        /\ at' = [at EXCEPT ![p] = "links"]
        /\ IsBar(shell)' /\ shell'.widgets = doc[p]
    BY <1>3, Writes
  <2>2. doc[p] = Rewritten(ws) /\ nth[p] = 1
    BY <1>1, <2>1 DEF WhereAt, Entering
  <2>3. Placed(shell'.widgets) /\ NoneOf(shell'.widgets, {Legacy})
    BY <1>1, <2>1, <2>2, RewrittenKeeps
  <2>4. WhereAt(p, "links")'
    BY <2>1, <2>2, <2>3 DEF WhereAt, Entering, Retiring, Finishing, BeforeLink
  <2>5. ShellKept' /\ DoneIsClean'
    <3>1. done = "none"
      BY <2>1 DEF CInv, DoneIsClean, Procs
    <3>. QED
      BY <2>1, <2>3, <3>1 DEF ShellKept, DoneIsClean
  <2>. QED
    BY <2>1, <2>4, <2>5, ActsAlone
<1>. QED
  BY <1>2, <1>3 DEF Rewrite

LEMMA DropKeepsChip == ASSUME TInv, IInv, CInv, NEW p \in Procs, Drop(p) PROVE CInv'
<1>. DEFINE ws == shell.widgets
            id == Retired[nth[p]]
            after == Without(ws, id)
<1>1. WhereAt(p, at[p]) /\ Placed(ws)
  BY DEF CInv, ShellKept
<1>2. nth[p] \in DOMAIN Retired /\ id \in RetiredIds
  BY RetiredDomain DEF TInv, AtOK
<1>3. NoneOf(after, {id}) /\ Placed(after)
  BY <1>1, <1>2, WithoutKeeps
<1>4. \A ids : NoneOf(ws, ids) => NoneOf(after, ids)
  BY <1>1, <1>2, WithoutKeeps
<1>5. CASE ReadShell(p, "drop", after, "dropWrite", "next")
  <2>1. /\ NoneOf(ws, {Legacy}) /\ id \notin olds
        /\ \A k \in 1..(nth[p] - 1) : Lacks(k)
    BY <1>1, <1>5 DEF ReadShell, WhereAt, Retiring
  <2>2. after = ws => WhereAt(p, "next")
    BY <1>3, <2>1 DEF WhereAt, Lacks, Entering, Retiring, Finishing, BeforeLink
  <2>3. Clean => after = ws
    <3>1. Clean => NoneOf(ws, {id})
      BY <1>2 DEF Clean, NoneOf, Showing
    <3>. QED
      BY <3>1, NothingToEdit
  <2>4. shell.file = "missing" => after = ws
    <3>1. shell.file = "missing" => ws = {}
      BY DEF CInv, ShellKept, IsBar
    <3>. QED
      BY <3>1 DEF Without
  <2>5. after = Without(shell.widgets, Retired[nth[p]])
    OBVIOUS
  <2>. HIDE DEF after
  <2>6. /\ "drop" # "off" /\ "next" \notin {"rewriteWrite", "dropWrite"}
        /\ "dropWrite" \in {"rewriteWrite", "dropWrite"} /\ "dropWrite" # "rewriteWrite"
    OBVIOUS
  <2>. QED
    BY <1>5, <2>1, <2>2, <2>3, <2>4, <2>5, <2>6, ReadsShell
<1>6. CASE WriteShell(p, "dropWrite", "next")
  <2>1. /\ at[p] = "dropWrite" /\ UNCHANGED <<dest, olds, nth, repo, done>>
        /\ at' = [at EXCEPT ![p] = "next"]
        /\ IsBar(shell)' /\ shell'.widgets = doc[p]
    BY <1>6, Writes
  <2>2. /\ doc[p] = after /\ NoneOf(ws, {Legacy}) /\ id \notin olds
        /\ \A k \in 1..(nth[p] - 1) : Lacks(k)
    BY <1>1, <2>1 DEF WhereAt, Retiring
  <2>3. /\ Placed(shell'.widgets)
        /\ NoneOf(shell'.widgets, {Legacy}) /\ NoneOf(shell'.widgets, {id})
    BY <1>3, <1>4, <2>1, <2>2
  <2>4. \A k \in 1..(nth[p] - 1) : Lacks(k)'
    BY <1>4, <2>1, <2>2 DEF Lacks
  <2>5. WhereAt(p, "next")'
    BY <2>1, <2>2, <2>3, <2>4 DEF WhereAt, Lacks, Entering, Retiring, Finishing, BeforeLink
  <2>6. ShellKept' /\ DoneIsClean'
    <3>1. done = "none"
      BY <2>1 DEF CInv, DoneIsClean, Procs
    <3>. QED
      BY <2>1, <2>3, <3>1 DEF ShellKept, DoneIsClean
  <2>. QED
    BY <2>1, <2>5, <2>6, ActsAlone
<1>. QED
  BY <1>5, <1>6 DEF Drop

LEMMA RetireKeepsChip ==
  ASSUME TInv, IInv, CInv, NEW p \in Procs, Retire(p) \/ NextRetired(p) \/ Migrate(p)
  PROVE  CInv'
<1>. USE DEF fileVars, memVars
<1>1. WhereAt(p, at[p]) /\ nth[p] \in DOMAIN Retired /\ DOMAIN nth = Procs
  BY DEF CInv, TInv, AtOK
<1>2. CASE Retire(p)
  <2>1. /\ at[p] = "retire" /\ at' = [at EXCEPT ![p] = "drop"]
        /\ olds' = olds \ {Retired[nth[p]]}
        /\ UNCHANGED <<dest, shell, doc, nth, repo, done>>
    BY <1>2 DEF Retire, Goto
  <2>2. \A k : Lacks(k) => Lacks(k)'
    BY <2>1 DEF Lacks
  <2>3. WhereAt(p, "drop")'
    BY <1>1, <2>1, <2>2 DEF WhereAt, Entering, Retiring, Finishing, BeforeLink
  <2>4. at'[p] = "drop" /\ \A q \in Procs \ {p} : at'[q] = "off" /\ at[q] = "off"
    BY <2>1, OtherIsOff
  <2>5. ShellKept' /\ DoneIsClean'
    BY <2>1, <2>4 DEF CInv, ShellKept, DoneIsClean, Clean, Procs
  <2>. QED
    BY <2>1, <2>3, <2>5, ActsAlone
<1>3. CASE NextRetired(p)
  <2>1. /\ at[p] = "next" /\ UNCHANGED <<dest, olds, shell, doc, repo, done>>
        /\ NoneOf(shell.widgets, {Legacy})
        /\ Lacks(nth[p]) /\ \A k \in 1..(nth[p] - 1) : Lacks(k)
    BY <1>1, <1>3 DEF NextRetired, WhereAt, Retiring
  <2>2. nth[p] \in 1..Len(Retired) /\ Len(Retired) \in Nat
    BY <1>1, RetiredDomain
  <2>3. \A k \in 1..nth[p] : Lacks(k)
    BY <2>1, <2>2
  <2>4. ShellKept' /\ Clean' = Clean /\ \A k : Lacks(k)' = Lacks(k)
    BY <2>1 DEF CInv, ShellKept, Clean, Lacks
  <2>5. CASE nth[p] = Len(Retired)
    <3>1. at' = [at EXCEPT ![p] = After(p)] /\ nth' = [nth EXCEPT ![p] = 1]
      BY <1>3, <2>5 DEF NextRetired
    <3>2. Clean
      <4>1. \A k \in DOMAIN Retired : Lacks(k)
        BY <2>3, <2>5, RetiredDomain
      <4>2. \A id \in RetiredIds : id \notin olds /\ NoneOf(shell.widgets, {id})
        BY <4>1 DEF RetiredIds, Lacks
      <4>3. olds \subseteq RetiredIds
        BY DEF TInv, FileOK
      <4>. QED
        BY <4>2, <4>3 DEF Clean, NoneOf, Showing
    <3>3. WhereAt(p, After(p))'
      BY <2>1, <2>4, <3>1, <3>2
      DEF WhereAt, After, Entering, Retiring, Finishing, BeforeLink, Procs
    <3>4. \E step \in {"ensure", "import", "off"} : After(p) = step
      BY DEF After
    <3>5. at'[p] = After(p) /\ \A q \in Procs \ {p} : at'[q] = "off" /\ at[q] = "off"
      BY <2>1, <3>1, OtherIsOff
    <3>6. DoneIsClean'
      BY <2>1, <2>4, <3>4, <3>5 DEF CInv, DoneIsClean, Procs
    <3>7. PICK step \in {"ensure", "import", "off"} : After(p) = step
      BY <3>4
    <3>8. After(p)' = After(p)
      BY <1>3 DEF NextRetired, After
    <3>9. WhereAt(p, step)'
      BY <3>3, <3>7, <3>8 DEF WhereAt
    <3>. QED
      BY <2>1, <2>4, <3>1, <3>6, <3>7, <3>9, ActsAlone
  <2>6. CASE nth[p] # Len(Retired)
    <3>1. at' = [at EXCEPT ![p] = "retire"] /\ nth'[p] = nth[p] + 1
      BY <1>1, <1>3, <2>6 DEF NextRetired
    <3>2. \A k \in 1..(nth'[p] - 1) : Lacks(k)'
      BY <2>2, <2>3, <2>4, <3>1
    <3>3. WhereAt(p, "retire")'
      BY <2>1, <3>2 DEF WhereAt, Entering, Retiring, Finishing, BeforeLink
    <3>4. at'[p] = "retire" /\ \A q \in Procs \ {p} : at'[q] = "off" /\ at[q] = "off"
      BY <2>1, <3>1, OtherIsOff
    <3>5. DoneIsClean'
      BY <2>1, <2>4, <3>4 DEF CInv, DoneIsClean, Procs
    <3>. QED
      BY <2>1, <2>4, <3>1, <3>3, <3>5, ActsAlone
  <2>. QED
    BY <2>5, <2>6
<1>4. CASE Migrate(p)
  <2>1. /\ at[p] = "migrate" /\ UNCHANGED <<dest, olds, shell, doc, repo, done>>
        /\ nth'[p] = 1 /\ (p = "setup" => Manifest)
    BY <1>1, <1>4 DEF Migrate, WhereAt
  <2>2. \E step \in {"rewrite", "off", "import"} : at' = [at EXCEPT ![p] = step]
    BY <1>4, <2>1 DEF Migrate, After, Procs
  <2>3. PICK step \in {"rewrite", "off", "import"} :
          at' = [at EXCEPT ![p] = step] /\ (p = "setup" => step = "rewrite")
    <3>1. CASE p = "setup"
      BY <1>4, <2>1, <3>1 DEF Migrate
    <3>2. CASE p # "setup"
      BY <2>2, <3>2
    <3>. QED
      BY <3>1, <3>2
  <2>4. WhereAt(p, step)'
    BY <2>1, <2>3 DEF WhereAt, Entering, Retiring, Finishing, BeforeLink
  <2>5. at'[p] = step /\ \A q \in Procs \ {p} : at'[q] = "off" /\ at[q] = "off"
    BY <2>1, <2>3, OtherIsOff
  <2>6. ShellKept' /\ DoneIsClean'
    BY <2>1, <2>3, <2>5 DEF CInv, ShellKept, DoneIsClean, Clean, Procs
  <2>. QED
    BY <2>1, <2>3, <2>4, <2>6, ActsAlone
<1>. QED
  BY <1>2, <1>3, <1>4

LEMMA UnlinkKeepsChip ==
  ASSUME TInv, IInv, CInv, NEW p \in Procs, Unlink(p) \/ Swap(p) PROVE CInv'
<1>1. /\ at[p] \in {"unlink", "swap"} /\ UNCHANGED <<olds, shell, doc, nth, repo, done>>
      /\ \E step \in {"off", "swap", "retire"} : at' = [at EXCEPT ![p] = step]
  BY DEF Unlink, Swap, Goto, memVars
<1>2. PICK step \in {"off", "swap", "retire"} : at' = [at EXCEPT ![p] = step]
  BY <1>1
<1>3. nth[p] = 1 /\ NoneOf(shell.widgets, {Legacy})
  BY <1>1 DEF CInv, WhereAt, Entering
<1>4. WhereAt(p, step)'
  BY <1>1, <1>2, <1>3 DEF WhereAt, Entering, Retiring, Finishing, BeforeLink
<1>5. at'[p] = step /\ \A q \in Procs \ {p} : at'[q] = "off" /\ at[q] = "off"
  BY <1>1, <1>2, OtherIsOff
<1>6. ShellKept' /\ DoneIsClean'
  BY <1>1, <1>2, <1>5 DEF CInv, ShellKept, DoneIsClean, Clean, Procs
<1>. QED
  BY <1>1, <1>2, <1>4, <1>6, ActsAlone

LEMMA EnsureKeepsChip == ASSUME TInv, IInv, CInv, Ensure PROVE CInv'
<1>. DEFINE ws == shell.widgets
<1>. USE DEF fileVars, memVars
<1>1. /\ WhereAt("setup", at["setup"]) /\ Placed(ws)
      /\ "setup" \in Procs
  BY DEF CInv, ShellKept, Procs
<1>2. CASE WriteShell("setup", "ensureWrite", IF who["setup"] = "kid" THEN "unit" ELSE "end")
  <2>1. PICK step \in {"unit", "end"} : WriteShell("setup", "ensureWrite", step)
    BY <1>2
  <2>2. /\ at["setup"] = "ensureWrite" /\ UNCHANGED <<dest, olds, nth, repo, done>>
        /\ at' = [at EXCEPT !["setup"] = step]
        /\ IsBar(shell)' /\ shell'.widgets = doc["setup"]
    BY <1>1, <2>1, Writes
  <2>3. doc["setup"] = Ensured(ws) /\ Clean
    BY <1>1, <2>2 DEF WhereAt, Finishing
  <2>4. /\ Placed(shell'.widgets) /\ Shows(shell'.widgets, New)
        /\ NoneOf(shell'.widgets, RetiredIds)
    BY <1>1, <2>2, <2>3, EnsuredKeeps DEF Clean
  <2>5. WhereAt("setup", step)'
    BY <2>1, <2>2, <2>3, <2>4 DEF WhereAt, Clean, Entering, Retiring, Finishing, BeforeLink
  <2>6. ShellKept' /\ DoneIsClean'
    <3>1. done = "none"
      BY <2>2 DEF CInv, DoneIsClean
    <3>. QED
      BY <2>2, <2>4, <3>1 DEF ShellKept, DoneIsClean
  <2>. QED
    BY <1>1, <2>2, <2>5, <2>6, ActsAlone
<1>3. CASE /\ at["setup"] = "ensure" /\ UNCHANGED <<fileVars, memVars>>
           /\ shell = Corrupt /\ Goto("setup", "off")
  BY <1>1, <1>3, Quietly, OffIsNowhere DEF Goto
<1>4. CASE /\ at["setup"] = "ensure" /\ UNCHANGED <<fileVars, memVars>>
           /\ doc' = [doc EXCEPT !["setup"] = Ensured(ws)]
           /\ at' = [at EXCEPT !["setup"] = "ensureWrite"]
           /\ UNCHANGED nth
  <2>1. doc'["setup"] = Ensured(shell'.widgets) /\ Clean'
    BY <1>1, <1>4 DEF TInv, ShellOK, WhereAt, Finishing, Clean
  <2>2. WhereAt("setup", "ensureWrite")'
    BY <2>1 DEF WhereAt, Entering, Retiring, Finishing, BeforeLink
  <2>3. ShellKept' /\ DoneIsClean'
    BY <1>4 DEF CInv, ShellKept, DoneIsClean
  <2>. QED
    BY <1>1, <1>4, <2>2, <2>3, ActsAlone
<1>. QED
  BY <1>2, <1>3, <1>4 DEF Ensure

LEMMA LinkKeepsChip == ASSUME TInv, IInv, CInv, Link PROVE CInv'
<1>1. /\ at["setup"] = "link" /\ dest' = repo
      /\ UNCHANGED <<olds, shell, doc, nth, repo, done>>
      /\ at' = [at EXCEPT !["setup"] = "role"] /\ "setup" \in Procs
  BY DEF Link, Goto, memVars, Procs
<1>2. WhereAt("setup", "link")
  BY <1>1 DEF CInv
<1>3. repo # "self" /\ (repo = "old" => Legacy \in olds) /\ repo \in {"share", "old", "self"}
  BY <1>1, <1>2, SetupAssumption
  DEF WhereAt, BeforeLink, IInv, CheckoutIsThere, TInv, FileOK
<1>4. Manifest'
  BY <1>1, <1>3 DEF Manifest
<1>5. WhereAt("setup", "role")'
  BY <1>4 DEF WhereAt, Entering, Retiring, Finishing, BeforeLink
<1>6. ShellKept' /\ DoneIsClean'
  BY <1>1 DEF CInv, ShellKept, DoneIsClean
<1>. QED
  BY <1>1, <1>5, <1>6, ActsAlone

LEMMA StartsKeepChip ==
  ASSUME ~ Overlap, TInv, IInv, CInv,
         LiveStart \/ \E r \in {"parent", "kid"}, src \in Repos : Start(r, src)
  PROVE  CInv'
<1>. USE DEF fileVars
<1>1. CASE LiveStart
  <2>1. /\ UNCHANGED <<dest, olds, shell, doc, nth, repo, done>>
        /\ at' = [at EXCEPT !["live"] = "migrate"] /\ at["setup"] = "off"
    BY <1>1 DEF LiveStart, Goto
  <2>2. at'["live"] = "migrate" /\ at'["setup"] = "off"
    BY <2>1 DEF TInv, AtOK, Procs
  <2>3. \A p \in Procs : WhereAt(p, at[p])'
    BY <2>2 DEF WhereAt, Entering, Retiring, Finishing, BeforeLink, Procs
  <2>4. ShellKept' /\ DoneIsClean'
    BY <2>1, <2>2 DEF CInv, ShellKept, DoneIsClean, Clean
  <2>. QED
    BY <2>3, <2>4 DEF CInv
<1>2. ASSUME NEW r \in {"parent", "kid"}, NEW src \in Repos, Start(r, src) PROVE CInv'
  <2>1. /\ UNCHANGED <<dest, olds, shell, doc, nth>> /\ done' = "none" /\ repo' = src
        /\ at["live"] = "off" /\ (src = "self" => Manifest)
        /\ \E step \in {"locked", "config"} : at' = [at EXCEPT !["setup"] = step]
    BY <1>2 DEF Start, Goto
  <2>2. at'["setup"] \in {"locked", "config"} /\ at'["live"] = "off"
    BY <2>1 DEF TInv, AtOK, Procs
  <2>3. Manifest' = Manifest
    BY <2>1 DEF Manifest
  <2>4. \A p \in Procs : WhereAt(p, at[p])'
    BY <2>1, <2>2, <2>3 DEF WhereAt, Entering, Retiring, Finishing, BeforeLink, Procs
  <2>5. ShellKept' /\ DoneIsClean'
    BY <2>1 DEF CInv, ShellKept, DoneIsClean
  <2>. QED
    BY <2>4, <2>5 DEF CInv
<1>. QED
  BY <1>1, <1>2

LEMMA OthersKeepChip ==
  ASSUME TInv, IInv, CInv, PanelReads \/ End \/ Pairing \/ UNCHANGED vars PROVE CInv'
<1>. USE DEF fileVars, memVars
<1>1. CASE PanelReads \/ Pairing \/ UNCHANGED vars
  <2>1. UNCHANGED <<dest, olds, shell, doc, nth, repo, done, at>>
    BY <1>1 DEF PanelReads, Pairing, vars
  <2>. QED
    BY <2>1 DEF CInv, ShellKept, WhereAt, DoneIsClean, Clean, Lacks, Manifest
<1>2. CASE End
  <2>1. /\ UNCHANGED <<dest, olds, shell, doc, nth, repo>> /\ at["setup"] = "end"
        /\ at' = [at EXCEPT !["setup"] = "off"] /\ "setup" \in Procs
    BY <1>2 DEF End, Goto, Procs
  <2>2. Clean /\ IsBar(shell) /\ Shows(shell.widgets, New)
    BY <2>1 DEF CInv, WhereAt, Finishing
  <2>3. at'["setup"] = "off" /\ at'["live"] = "off"
    BY <2>1, OtherIsOff DEF Procs
  <2>4. ShellKept' /\ DoneIsClean'
    BY <2>1, <2>2, <2>3 DEF CInv, ShellKept, DoneIsClean, Clean
  <2>5. WhereAt("setup", "off")'
    BY DEF WhereAt, Entering, Retiring, Finishing, BeforeLink
  <2>. QED
    BY <2>1, <2>4, <2>5, ActsAlone
<1>. QED
  BY <1>1, <1>2

LEMMA CStep == ~ Overlap /\ TInv /\ IInv /\ CInv /\ [Next]_vars => CInv'
<1>. SUFFICES ASSUME ~ Overlap, TInv, IInv, CInv, [Next]_vars PROVE CInv'
  OBVIOUS
<1>1. CASE LiveStart \/ \E r \in {"parent", "kid"}, src \in Repos : Start(r, src)
  BY <1>1, StartsKeepChip
<1>2. CASE \/ Locked \/ Config \/ SeedStep \/ Reuse \/ MintRead \/ MintAsk
           \/ Place \/ RoleStep \/ BarStep \/ Import("setup", "migrate") \/ Unit
  BY <1>2, SetupQuiet
<1>3. CASE Link \/ Ensure
  BY <1>3, LinkKeepsChip, EnsureKeepsChip
<1>4. ASSUME NEW p \in Procs, Migration(p) PROVE CInv'
  BY <1>4, MigrationQuiet, RewriteKeepsChip, DropKeepsChip, RetireKeepsChip, UnlinkKeepsChip
  DEF Migration
<1>5. CASE \/ Import("live", "role") \/ WriteRole("live", "parent", "off")
           \/ \E p \in Procs : Kill(p)
  BY <1>5, MigrationQuiet DEF Procs
<1>6. CASE PanelReads \/ End \/ Pairing \/ UNCHANGED vars
  BY <1>6, OthersKeepChip
<1>. QED
  BY <1>1, <1>2, <1>3, <1>4, <1>5, <1>6 DEF Next

LEMMA CInit == Init => CInv
<1>. SUFFICES ASSUME Init PROVE CInv
  OBVIOUS
<1>1. /\ at = [p \in Procs |-> "off"] /\ done = "none" /\ shell \in Layouts
  BY DEF Init
<1>2. \A p \in Procs : WhereAt(p, at[p])
  BY <1>1, OffIsNowhere
<1>3. ShellKept
  BY <1>1, SetupAssumption DEF ShellKept, Placed
<1>. QED
  BY <1>1, <1>2, <1>3 DEF CInv, DoneIsClean

\* A step that writes shell.json writes an edit of what is there.
LEMMA WritesEdit ==
  ASSUME TInv, CInv, [Next]_vars, shell' # shell
  PROVE  /\ IsBar(shell')
         /\ \/ shell'.widgets = Rewritten(shell.widgets)
            \/ shell'.widgets = Ensured(shell.widgets)
            \/ /\ NoneOf(shell.widgets, {Legacy})
               /\ \E id \in RetiredIds : shell'.widgets = Without(shell.widgets, id)
<1>. USE DEF fileVars, memVars, Goto
<1>1. PICK p \in Procs : \/ WriteShell(p, "rewriteWrite", "links")
                         \/ WriteShell(p, "dropWrite", "next")
                         \/ /\ p = "setup"
                            /\ \E next : WriteShell(p, "ensureWrite", next)
  <2>1. ~ \E r \in {"parent", "kid"}, src \in Repos : Start(r, src)
    BY DEF Start
  <2>2. ~ (\/ Locked \/ Config \/ SeedStep \/ Reuse \/ MintRead \/ MintAsk
           \/ Place \/ Link \/ RoleStep \/ BarStep \/ Import("setup", "migrate"))
    BY DEF Locked, Config, SeedStep, Reuse, MintRead, MintAsk, Mint, Place, Link, RoleStep,
           WriteRole, BarStep, Import
  <2>3. ~ (\/ Unit \/ End \/ PanelReads \/ LiveStart \/ Import("live", "role")
           \/ WriteRole("live", "parent", "off") \/ (\E p \in Procs : Kill(p))
           \/ Pairing \/ UNCHANGED vars)
    BY DEF Unit, End, PanelReads, LiveStart, Import, WriteRole, Kill, Pairing, vars
  <2>4. Ensure \/ \E p \in Procs : Migration(p)
    BY <2>1, <2>2, <2>3 DEF Next
  <2>5. CASE Ensure
    BY <2>5 DEF Ensure, Procs
  <2>6. ASSUME NEW p \in Procs, Migration(p)
        PROVE  WriteShell(p, "rewriteWrite", "links") \/ WriteShell(p, "dropWrite", "next")
    BY <2>6 DEF Migration, Migrate, Rewrite, ReadShell, Links, Unlink, Swap, Retire, Drop,
                NextRetired
  <2>. QED
    BY <2>4, <2>5, <2>6
<1>2. IsBar(shell') /\ shell'.widgets = doc[p] /\ WhereAt(p, at[p])
  BY <1>1, Writes DEF CInv, WriteShell, Bar, IsBar
<1>3. nth[p] \in DOMAIN Retired /\ Retired[nth[p]] \in RetiredIds
  BY RetiredDomain DEF TInv, AtOK
<1>. QED
  BY <1>1, <1>2, <1>3 DEF WriteShell, WhereAt, Retiring

\* A bar that shows the chip shows it after every step, and the other widgets
\* keep their places (rewriteWidgetID before retireOldPlugins, ensureWidget
\* after), whatever is killed, as long as setup and the panel's program do not
\* run at once.
THEOREM ChipNeverLeaves == ~ Overlap => (Spec => ChipStays)
<1>. SUFFICES ASSUME ~ Overlap PROVE Spec => ChipStays
  OBVIOUS
<1>. DEFINE Stays ==
       IsBar(shell) =>
         /\ IsBar(shell')
         /\ ~ NoneOf(shell.widgets, {New, Legacy}) => ~ NoneOf(shell'.widgets, {New, Legacy})
         /\ Showing(shell'.widgets, Others) = Showing(shell.widgets, Others)
<1>1. TInv /\ CInv /\ [Next]_vars => [Stays]_shell
  <2>. SUFFICES ASSUME TInv, CInv, [Next]_vars, shell' # shell PROVE Stays
    OBVIOUS
  <2>1. Placed(shell.widgets)
    BY DEF CInv, ShellKept
  <2>2. \A l : Shows(l, New) => ~ NoneOf(l, {New, Legacy})
    BY DEF Shows, NoneOf, Showing
  <2>3. CASE shell'.widgets = Rewritten(shell.widgets)
    BY <2>1, <2>2, <2>3, WritesEdit, RewrittenKeeps
  <2>4. CASE shell'.widgets = Ensured(shell.widgets)
    BY <2>1, <2>2, <2>4, WritesEdit, EnsuredKeeps
  <2>5. ASSUME NoneOf(shell.widgets, {Legacy}), NEW id \in RetiredIds,
               shell'.widgets = Without(shell.widgets, id)
        PROVE  Stays
    <3>1. ~ NoneOf(shell.widgets, {New, Legacy}) => Shows(shell.widgets, New)
      BY <2>5 DEF NoneOf, Shows, Showing
    <3>. QED
      BY <2>1, <2>2, <2>5, <3>1, WritesEdit, WithoutKeeps
  <2>. QED
    BY <2>3, <2>4, <2>5, WritesEdit
<1>2. Init => TInv /\ IInv /\ CInv
  BY TInit, IInit, CInit
<1>3. TInv /\ IInv /\ CInv /\ [Next]_vars => (TInv /\ IInv /\ CInv)'
  BY TStep, IStep, CStep
<1>4. [Stays]_shell =>
        [IsBar(shell) =>
           LET old == shell.widgets
               new == shell'.widgets
           IN /\ IsBar(shell')
              /\ Showing(old, {New, Legacy}) # {} => Showing(new, {New, Legacy}) # {}
              /\ Showing(new, Others) = Showing(old, Others)]_shell
  BY DEF NoneOf
<1>. HIDE DEF Stays
<1>. QED
  BY <1>1, <1>2, <1>3, <1>4, PTL DEF Spec, ChipStays

\* A bar that shows the new chip at most once never shows it twice.
LEMMA OnceStep ==
  ASSUME TInv, CInv, ChipOnce(shell.widgets), [Next]_vars PROVE ChipOnce(shell.widgets)'
<1>1. Placed(shell.widgets)
  BY DEF CInv, ShellKept
<1>2. CASE shell' = shell
  BY <1>2
<1>3. CASE shell' # shell
  BY <1>1, <1>3, WritesEdit, RewrittenKeeps, EnsuredKeeps, WithoutKeeps
<1>. QED
  BY <1>2, <1>3

\* After a setup that ended with no error the bar shows one chip of the new id
\* and none of a retired id, and no retired folder is left, whatever was
\* killed before it: as long as the bar did not show two new chips to begin
\* with, and setup and the panel's program do not run at once.
THEOREM BarShowsOneChip ==
  /\ ~ Overlap
  /\ \A l \in Layouts : \A w, v \in l.widgets : w.id = New /\ v.id = New => w = v
  => (Spec => []OneChip)
<1>. SUFFICES ASSUME ~ Overlap, \A l \in Layouts : ChipOnce(l.widgets)
              PROVE  Spec => []OneChip
  BY DEF ChipOnce
<1>1. Init => ChipOnce(shell.widgets)
  BY DEF Init
<1>2. Init => TInv /\ IInv /\ CInv
  BY TInit, IInit, CInit
<1>3. TInv /\ IInv /\ CInv /\ [Next]_vars => (TInv /\ IInv /\ CInv)'
  BY TStep, IStep, CStep
<1>4. TInv /\ CInv /\ ChipOnce(shell.widgets) /\ [Next]_vars => ChipOnce(shell.widgets)'
  BY OnceStep
<1>5. CInv /\ ChipOnce(shell.widgets) => OneChip
  <2>. SUFFICES ASSUME CInv, ChipOnce(shell.widgets), done # "none" PROVE OneChip
    BY DEF OneChip
  <2>1. Clean /\ IsBar(shell) /\ Shows(shell.widgets, New)
    BY DEF CInv, DoneIsClean
  <2>2. PICK w \in shell.widgets : w.id = New
    BY <2>1 DEF Shows, Showing
  <2>3. Showing(shell.widgets, {New}) = {w}
    BY <2>2 DEF ChipOnce, Showing
  <2>. QED
    BY <2>1, <2>2, <2>3 DEF OneChip, Clean, NoneOf
<1>. QED
  BY <1>1, <1>2, <1>3, <1>4, <1>5, PTL DEF Spec
=============================================================================
