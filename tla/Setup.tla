------------------------------- MODULE Setup --------------------------------
(***************************************************************************)
(* "kidtimer setup parent|kid" (cmd/kidtimer/setup.go) and the migration   *)
(* of the plugin that a starting "kidtimer parent" or "kidtimer kid" also  *)
(* runs (migrateLivePlugin), as two processes over the files they share:   *)
(* the plugin folders, the bar's shell.json, the role, the kid's config    *)
(* and unit, and the secrets of module Keys.                               *)
(*                                                                         *)
(* A step is what the file system or SQLite makes atomic: a rename, a      *)
(* link, the removal of a folder, one statement.  shell.json is read,      *)
(* changed in memory and renamed into place, so reading and writing it are *)
(* two steps.  Either process may be killed between any two steps, and     *)
(* setup may be run again.                                                 *)
(***************************************************************************)
EXTENDS Keys, Sequences

CONSTANTS
  Retired,      \* retiredPluginIDs, in the order they are retired
  Legacy,       \* legacyPluginID, a member of Retired
  New,          \* pluginID
  Others,       \* ids of other widgets
  Layouts,      \* the contents shell.json may start with
  Last,         \* the place at the end of the right side of the bar
  Repos,        \* where -repo may point: an installed "share", the legacy
                \* folder ("old"), the plugin's own folder ("self")
  Overlap,      \* setup and the live process may run at the same time
  MaxRuns,      \* bounds the runs of setup
  MaxLives,     \* bounds the starts of the live process
  MaxKills      \* bounds the stops of either process

VARIABLES
  dest,         \* the folder of New: "none", "real", or what it links to
  olds,         \* the retired ids whose folder exists
  shell,        \* shell.json: a layout, or Missing, or Corrupt
  role,         \* the role file: "none", "parent" or "kid"
  cfg,          \* /etc/kidtimer/config.toml: "none", "lan" or "ok"
  unit,         \* the systemd unit is installed
  kids,         \* kids.json holds the kids of the old household
  pin,          \* parent-pin holds the PIN of the old household
  panel,        \* the role the panel last read
  at,           \* process -> its next step
  doc,          \* process -> the layout it read
  nth,          \* process -> which retired id it is retiring
  who,          \* process -> the role it was started for
  repo,         \* the checkout of the running setup
  bar,          \* the pair of tokens that setup holds in memory
  done,         \* the role of the last setup that ended with no error
  runs, lives, kills

fileVars == <<dest, olds, shell, role, cfg, unit, kids, pin>>
memVars == <<who, repo, bar, done, panel, runs, lives, kills>>
vars == <<keyVars, fileVars, at, doc, nth, memVars>>

Procs == {"setup", "live"}
RetiredIds == {Retired[k] : k \in DOMAIN Retired}
Ids == RetiredIds \cup {New} \cup Others

\* A file that parses holds a set of widgets, each with its place on the bar
\* (barSections, from left to right), its id and the tokens an older setup
\* left in it.
Widget(place, id, b) == [place |-> place, id |-> id, bar |-> b]
Widgets == [place : 0..Last, id : Ids, bar : OldBars]
Bar(ws) == [file |-> "bar", widgets |-> ws]
Missing == [file |-> "missing", widgets |-> {}]
Corrupt == [file |-> "corrupt", widgets |-> {}]
IsBar(l) == l.file = "bar"

ASSUME SetupAssumption ==
  /\ Retired \in Seq(RetiredIds) /\ Legacy \in RetiredIds
  /\ New \notin RetiredIds
  /\ Others \cap (RetiredIds \cup {New}) = {}
  /\ Overlap \in BOOLEAN
  /\ MaxRuns \in Nat /\ MaxLives \in Nat /\ MaxKills \in Nat
  /\ Repos \subseteq {"share", "old", "self"}
  /\ Last \in Nat
  /\ Layouts \subseteq [file : {"bar", "missing", "corrupt"}, widgets : SUBSET Widgets]
  /\ \A l \in Layouts :
       /\ ~ IsBar(l) => l.widgets = {}
       /\ \A w, v \in l.widgets : w.place # Last /\ (w.place = v.place => w = v)

-----------------------------------------------------------------------------
(* shell.json                                                              *)

Showing(l, ids) == {w \in l : w.id \in ids}
Shows(l, id) == Showing(l, {id}) # {}

FirstOf(ws) == {w \in ws : \A v \in ws \ {w} : w.place < v.place}

Without(l, id) == {w \in l : w.id # id}

Renamed(ws) == {[w EXCEPT !.id = New] : w \in ws}

\* A bug: a legacy chip is renamed even when the bar has the new chip.
RewrittenAlways(l) ==
  Without(l, Legacy) \cup Renamed(FirstOf(Showing(l, {Legacy})))

\* A bug: the legacy chips go, and none takes the new id.
RewrittenAway(l) == Without(l, Legacy)

\* rewriteWidgetID(legacy, new): the first legacy chip takes the new id
\* where it stands, unless the bar has it already; the others go.
Rewritten(l) ==
  Without(l, Legacy) \cup
    (IF Shows(l, New) THEN {} ELSE Renamed(FirstOf(Showing(l, {Legacy}))))

\* ensureWidget: a bar without the chip gets it at the end of the right side.
Ensured(l) == IF Shows(l, New) THEN l ELSE l \cup {Widget(Last, New, NoBar)}

\* existingKidTokens: kid-bar.json, else the first chip that may hold them.
BarOnDisk ==
  LET first == FirstOf(Showing(shell.widgets, {"kidtimer.kid", Legacy, New}))
  IN IF kidBar # NoBar THEN kidBar
     ELSE IF first = {} THEN NoBar ELSE (CHOOSE w \in first : TRUE).bar

\* os.Stat(dest/manifest.json) follows the link.
Manifest ==
  \/ dest \in {"real", "share"}
  \/ dest = "old" /\ Legacy \in olds

-----------------------------------------------------------------------------
Init ==
  /\ KeyInit
  /\ shell \in Layouts
  /\ olds \in {{}, RetiredIds}
  /\ dest \in {"none", "real", "share", "old"}
  /\ dest = "old" => Legacy \in olds
  /\ \/ role \in {"none", "parent"} /\ cfg = "none" /\ unit = FALSE /\ NoRows
     \/ role = "kid" /\ cfg = "lan" /\ unit = TRUE /\ ~ NoRows
  /\ kids = FALSE /\ pin = FALSE
  /\ panel = role
  /\ at = [p \in Procs |-> "off"]
  /\ doc = [p \in Procs |-> {}]
  /\ nth = [p \in Procs |-> 1]
  /\ who = [p \in Procs |-> "none"]
  /\ repo = "share" /\ bar = NoBar /\ done = "none"
  /\ runs = 0 /\ lives = 0 /\ kills = 0

\* The process p goes on to another step; its layout and counter stay.
Goto(p, step) == at' = [at EXCEPT ![p] = step] /\ UNCHANGED <<doc, nth>>

\* An error returns from the whole command.
Fail(p) == Goto(p, "off") /\ UNCHANGED <<keyVars, fileVars, memVars>>

-----------------------------------------------------------------------------
(* Setup, up to the migration                                              *)

Start(r, src) ==
  /\ at["setup"] = "off"
  /\ runs < MaxRuns
  /\ Overlap \/ at["live"] = "off"
  /\ r = "kid" => src = "share"
  /\ src = "old" => Legacy \in olds
  /\ src = "self" => Manifest
  /\ Goto("setup", IF r = "parent" THEN "locked" ELSE "config")
  /\ who' = [who EXCEPT !["setup"] = r]
  /\ repo' = src
  /\ bar' = NoBar
  /\ done' = "none"
  /\ runs' = runs + 1
  /\ UNCHANGED <<keyVars, fileVars, panel, lives, kills>>

\* kidComputerLocked
Locked ==
  /\ at["setup"] = "locked"
  /\ Goto("setup", IF role = "kid" \/ cfg # "none" \/ unit THEN "off" ELSE "place")
  /\ UNCHANGED <<keyVars, fileVars, memVars>>

\* ensureKidConfig: a file that does not parse is written anew, one that
\* listens on the LAN or advertises is pinned to loopback.
Config ==
  /\ at["setup"] = "config"
  /\ cfg' = "ok"
  /\ Goto("setup", "seed")
  /\ UNCHANGED <<keyVars, dest, olds, shell, role, unit, kids, pin, memVars>>

\* mintKidBar
SeedStep ==
  /\ at["setup"] = "seed"
  /\ Seed
  /\ Goto("setup", "reuse")
  /\ UNCHANGED <<paired, kidBar, pairFile, pairing, fileVars, memVars>>

\* A bug: the pair of tokens found on disk is taken without asking the bank.
ReuseUnchecked ==
  /\ at["setup"] = "reuse"
  /\ IF BarOnDisk # NoBar
       THEN bar' = BarOnDisk /\ Goto("setup", "place")
       ELSE bar' = NoBar /\ Goto("setup", "mintRead")
  /\ UNCHANGED <<keyVars, fileVars, who, repo, done, panel, runs, lives, kills>>

Reuse ==
  /\ at["setup"] = "reuse"
  /\ IF Reusable(BarOnDisk)
       THEN bar' = BarOnDisk /\ Goto("setup", "place")
       ELSE bar' = NoBar /\ Goto("setup", "mintRead")
  /\ UNCHANGED <<keyVars, fileVars, who, repo, done, panel, runs, lives, kills>>

\* One ReplaceToken; the secret stays in memory until writeKidBar.
Mint(here, n, kind, k, next) ==
  /\ at["setup"] = here
  /\ MintBar(n, kind)
  /\ bar' = [bar EXCEPT ![k] = fresh]
  /\ Goto("setup", next)
  /\ UNCHANGED <<paired, kidBar, pairFile, pairing, fileVars,
                 who, repo, done, panel, runs, lives, kills>>

MintRead == Mint("mintRead", "kid-bar-read", "read", 1, "mintAsk")
MintAsk == Mint("mintAsk", "kid-bar", "ask", 2, "place")

\* placePlugin: a folder with a manifest is left alone, and so is a link
\* that already goes to the checkout.
Place ==
  /\ at["setup"] = "place"
  /\ Goto("setup", IF Manifest \/ dest = repo THEN "role" ELSE "link")
  /\ UNCHANGED <<keyVars, fileVars, memVars>>

\* linkPlugin: RemoveAll(dst), Symlink.
Link ==
  /\ at["setup"] = "link"
  /\ dest' = repo
  /\ Goto("setup", "role")
  /\ UNCHANGED <<keyVars, olds, shell, role, cfg, unit, kids, pin, memVars>>

\* household.WriteRole, by setup or by a starting "kidtimer parent".
WriteRole(p, r, next) ==
  /\ at[p] = "role"
  /\ role' = r
  /\ Goto(p, next)
  /\ UNCHANGED <<keyVars, dest, olds, shell, cfg, unit, kids, pin, memVars>>

RoleStep ==
  WriteRole("setup", who["setup"], IF who["setup"] = "kid" THEN "bar" ELSE "import")

BarStep ==
  /\ at["setup"] = "bar"
  /\ WriteKidBar(bar)
  /\ Goto("setup", "migrate")
  /\ UNCHANGED <<toks, paired, fresh, pairFile, pairing, fileVars, memVars>>

\* household.ImportIfEmpty: the kids of the old household, then its PIN.
Import(p, next) ==
  \/ /\ at[p] = "import"
     /\ kids' = TRUE
     /\ Goto(p, IF kids \/ pin THEN next ELSE "importPin")
     /\ UNCHANGED <<keyVars, dest, olds, shell, role, cfg, unit, pin, memVars>>
  \/ /\ at[p] = "importPin"
     /\ pin' = TRUE
     /\ Goto(p, next)
     /\ UNCHANGED <<keyVars, dest, olds, shell, role, cfg, unit, kids, memVars>>

-----------------------------------------------------------------------------
(* migrateInstalledPlugin, by either process                               *)

\* Where p goes when the migration is over.
After(p) ==
  IF p = "setup" THEN "ensure" ELSE IF who[p] = "parent" THEN "import" ELSE "off"

\* os.Stat of the manifest: absent ends the migration, a loop of links is
\* an error.
Migrate(p) ==
  /\ at[p] = "migrate"
  /\ at' = [at EXCEPT ![p] = IF Manifest THEN "rewrite"
                             ELSE IF dest = "self" THEN "off" ELSE After(p)]
  /\ nth' = [nth EXCEPT ![p] = 1]
  /\ UNCHANGED <<keyVars, fileVars, doc, memVars>>

\* Reads shell.json and edits what it read; nothing to change, nothing to
\* write.  A file that does not parse is an error.
ReadShell(p, here, edited, write, next) ==
  /\ at[p] = here
  /\ IF shell = Corrupt THEN Goto(p, "off")
     ELSE IF edited = shell.widgets THEN Goto(p, next)
     ELSE /\ doc' = [doc EXCEPT ![p] = edited]
          /\ at' = [at EXCEPT ![p] = write]
          /\ UNCHANGED nth
  /\ UNCHANGED <<keyVars, fileVars, memVars>>

\* writeFileAtomic
WriteShell(p, here, next) ==
  /\ at[p] = here
  /\ shell' = Bar(doc[p])
  /\ doc' = [doc EXCEPT ![p] = {}]
  /\ at' = [at EXCEPT ![p] = next]
  /\ UNCHANGED <<keyVars, dest, olds, role, cfg, unit, kids, pin, nth, memVars>>

Rewrite(p) ==
  \/ ReadShell(p, "rewrite", Rewritten(shell.widgets), "rewriteWrite", "links")
  \/ WriteShell(p, "rewriteWrite", "links")

\* A bug: the link to a retired folder is kept.
LinksKept(p) ==
  /\ at[p] = "links"
  /\ Goto(p, "retire")
  /\ UNCHANGED <<keyVars, fileVars, memVars>>

\* materializeIfLinkToRetired: copy the folder beside, then swap it in.
Links(p) ==
  /\ at[p] = "links"
  /\ Goto(p, IF dest # "old" THEN "retire"
             ELSE IF Legacy \in olds THEN "unlink" ELSE "off")
  /\ UNCHANGED <<keyVars, fileVars, memVars>>

\* os.Remove fails on a folder that is not empty and on nothing.
Unlink(p) ==
  /\ at[p] = "unlink"
  /\ IF dest \in {"none", "real"}
       THEN Goto(p, "off") /\ dest' = dest
       ELSE Goto(p, "swap") /\ dest' = "none"
  /\ UNCHANGED <<keyVars, olds, shell, role, cfg, unit, kids, pin, memVars>>

\* os.Rename fails on a link and on a folder that is not empty.
Swap(p) ==
  /\ at[p] = "swap"
  /\ IF dest = "none"
       THEN Goto(p, "retire") /\ dest' = "real"
       ELSE Goto(p, "off") /\ dest' = dest
  /\ UNCHANGED <<keyVars, olds, shell, role, cfg, unit, kids, pin, memVars>>

\* retireOldPlugins: RemoveAll of the next folder, then its chips.
Retire(p) ==
  /\ at[p] = "retire"
  /\ olds' = olds \ {Retired[nth[p]]}
  /\ Goto(p, "drop")
  /\ UNCHANGED <<keyVars, dest, shell, role, cfg, unit, kids, pin, memVars>>

Drop(p) ==
  \/ ReadShell(p, "drop", Without(shell.widgets, Retired[nth[p]]), "dropWrite", "next")
  \/ WriteShell(p, "dropWrite", "next")

NextRetired(p) ==
  /\ at[p] = "next"
  /\ LET last == nth[p] = Len(Retired) IN
       /\ at' = [at EXCEPT ![p] = IF last THEN After(p) ELSE "retire"]
       /\ nth' = [nth EXCEPT ![p] = IF last THEN 1 ELSE @ + 1]
  /\ UNCHANGED <<keyVars, fileVars, doc, memVars>>

Migration(p) ==
  Migrate(p) \/ Rewrite(p) \/ Links(p) \/ Unlink(p) \/ Swap(p) \/ Retire(p)
    \/ Drop(p) \/ NextRetired(p)

-----------------------------------------------------------------------------
(* Setup, after the migration                                              *)

\* ensureWidget writes the file whether or not the chip was there.
Ensure ==
  \/ /\ at["setup"] = "ensure"
     /\ IF shell = Corrupt
          THEN Goto("setup", "off")
          ELSE /\ doc' = [doc EXCEPT !["setup"] = Ensured(shell.widgets)]
               /\ at' = [at EXCEPT !["setup"] = "ensureWrite"]
               /\ UNCHANGED nth
     /\ UNCHANGED <<keyVars, fileVars, memVars>>
  \/ WriteShell("setup", "ensureWrite", IF who["setup"] = "kid" THEN "unit" ELSE "end")

\* copyFile of the unit, from the checkout; then chown and systemctl.
Unit ==
  /\ at["setup"] = "unit"
  /\ unit' = TRUE
  /\ Goto("setup", "end")
  /\ UNCHANGED <<keyVars, dest, olds, shell, role, cfg, kids, pin, memVars>>

End ==
  /\ at["setup"] = "end"
  /\ done' = who["setup"]
  /\ Goto("setup", "off")
  /\ UNCHANGED <<keyVars, fileVars, who, repo, bar, panel, runs, lives, kills>>

-----------------------------------------------------------------------------
(* The panel starts the program of the role it last read; the program      *)
(* migrates, and "kidtimer parent" imports and writes the role again.      *)

\* The plugin the bar shows is loaded, and follows the role file.
Loaded == Manifest /\ Shows(shell.widgets, New)

PanelReads ==
  /\ Loaded
  /\ panel' = role
  /\ UNCHANGED <<keyVars, fileVars, at, doc, nth, who, repo, bar, done, runs, lives, kills>>

LiveStart ==
  /\ at["live"] = "off"
  /\ lives < MaxLives
  /\ Loaded /\ panel # "none"
  /\ Overlap \/ at["setup"] = "off"
  /\ Goto("live", "migrate")
  /\ who' = [who EXCEPT !["live"] = panel]
  /\ lives' = lives + 1
  /\ UNCHANGED <<keyVars, fileVars, repo, bar, done, panel, runs, kills>>

Kill(p) ==
  /\ at[p] # "off"
  /\ kills < MaxKills
  /\ kills' = kills + 1
  /\ Goto(p, "off")
  /\ UNCHANGED <<keyVars, fileVars, who, repo, bar, done, panel, runs, lives>>

\* The link pairs once the kid's daemon runs (role kid, config and unit).
Pairing ==
  /\ \/ role = "kid" /\ unit /\ (PairMint \/ PairSet \/ PairWrite \/ Reclaim)
     \/ PairStop
     \/ unit /\ \E n \in {"kid-bar", "app"} : PostToken(n, "app")
  /\ UNCHANGED <<fileVars, at, doc, nth, memVars>>

Next ==
  \/ \E r \in {"parent", "kid"}, src \in Repos : Start(r, src)
  \/ Locked \/ Config \/ SeedStep \/ Reuse \/ MintRead \/ MintAsk
  \/ Place \/ Link \/ RoleStep \/ BarStep \/ Import("setup", "migrate")
  \/ \E p \in Procs : Migration(p)
  \/ Ensure \/ Unit \/ End
  \/ PanelReads \/ LiveStart
  \/ Import("live", "role") \/ WriteRole("live", "parent", "off")
  \/ \E p \in Procs : Kill(p)
  \/ Pairing

Spec == Init /\ [][Next]_vars

-----------------------------------------------------------------------------
Steps == {"off", "locked", "config", "seed", "reuse", "mintRead", "mintAsk",
          "place", "link", "role", "bar", "import", "importPin", "migrate",
          "rewrite", "rewriteWrite", "links", "unlink", "swap", "retire",
          "drop", "dropWrite", "next", "ensure", "ensureWrite", "unit", "end"}
Roles == {"none", "parent", "kid"}

\* Every variable keeps its type.
TypeOK ==
  /\ at \in [Procs -> Steps]
  /\ dest \in {"none", "real", "share", "old", "self"}
  /\ olds \subseteq RetiredIds
  /\ role \in Roles /\ panel \in Roles /\ done \in Roles
  /\ who \in [Procs -> Roles]
  /\ cfg \in {"none", "lan", "ok"}
  /\ unit \in BOOLEAN /\ kids \in BOOLEAN /\ pin \in BOOLEAN /\ paired \in BOOLEAN
  /\ toks \in [Names -> [kind : Kinds \cup {"none"}, secret : Nat]]
  /\ fresh \in Nat
  /\ \A n \in Names : toks[n].secret < fresh
  /\ kidBar \in Nat \X Nat /\ bar \in Nat \X Nat
  /\ pairFile \in Nat
  /\ pairing \in [at : {"off", "set", "write"}, secret : Nat]
  /\ nth \in [Procs -> DOMAIN Retired]
  /\ shell \in [file : {"bar", "missing", "corrupt"}, widgets : SUBSET Widgets]
  /\ doc \in [Procs -> SUBSET Widgets]
  /\ runs \in 0..MaxRuns /\ lives \in 0..MaxLives /\ kills \in 0..MaxKills

\* A kid setup that ended with no error has left the bar a read token and an
\* ask token that the bank accepts, whatever was killed before it
\* (TestSetupKidRepairsStaleTokens, TestMintKidBarAfterPartialSetup).
BarWorks ==
  done = "kid" =>
    /\ \E n \in Holders(toks, kidBar[1]) : toks[n].kind = "read"
    /\ \E n \in Holders(toks, kidBar[2]) : toks[n].kind = "ask"

\* After a setup that ended with no error, the bar shows one chip of the new
\* id and none of a retired id (TestSetupParentMigratesBarePluginID), and no
\* retired folder is left (README.md:49: "Kidtimer moves the chip to the new id
\* and removes the old plugin folder").
OneChip ==
  done # "none" /\ at = [p \in Procs |-> "off"] =>
    /\ IsBar(shell)
    /\ \E w \in shell.widgets : Showing(shell.widgets, {New}) = {w}
    /\ Showing(shell.widgets, RetiredIds) = {}
    /\ olds = {}

\* A bar that shows the chip, under the new id or the legacy one, shows it
\* after every step: no stale copy of shell.json is written over it, and the
\* other widgets keep their places (TestSetupParentRewritesCenterChip).
ChipStays ==
  [][IsBar(shell) =>
       LET old == shell.widgets
           new == shell'.widgets
       IN /\ IsBar(shell')
          /\ Showing(old, {New, Legacy}) # {} => Showing(new, {New, Legacy}) # {}
          /\ Showing(new, Others) = Showing(old, Others)]_shell

\* The folder of the new plugin never hangs on a folder that is gone: it is
\* made real before the retired folder it links to is removed
\* (TestRetireOldPluginsMaterializesSymlink).
NeverDangles == dest = "old" => Legacy \in olds
=============================================================================
