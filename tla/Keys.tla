-------------------------------- MODULE Keys --------------------------------
(***************************************************************************)
(* The token table of a kid's bank (bank.go) and the two secrets a kid's   *)
(* computer keeps in files: the pair of tokens of the bar chip             *)
(* (kid-bar.json, written by "kidtimer setup kid") and the parent token of *)
(* the reverse link (parent-pair, written by "kidtimer kid").              *)
(*                                                                         *)
(* Every statement of SQLite commits on its own, and a secret is shown     *)
(* once, when its row is written: only its hash is kept.  So a row and the *)
(* file that names its secret are two steps, and the process may stop      *)
(* between them.                                                           *)
(***************************************************************************)
EXTENDS Naturals, FiniteSets

CONSTANT
  MaxSecrets    \* bounds the secrets handed out by Reclaim and PostToken

ASSUME SecretsAssumption == MaxSecrets \in Nat

VARIABLES
  toks,         \* name -> [kind, secret]: the rows of the table tokens
  paired,       \* the row "paired" of the table meta is "true"
  fresh,        \* the next secret that randomSecret returns
  kidBar,       \* <<read secret, ask secret>> in kid-bar.json, or NoBar
  pairFile,     \* the secret in parent-pair, or NoSecret
  pairing       \* the link's POST /v1/pair: [at, secret]

keyVars == <<toks, paired, fresh, kidBar, pairFile, pairing>>

Names == {"bootstrap", "kid-bar-read", "kid-bar", "parent-pair", "app"}
Kinds == {"parent", "read", "ask", "app"}

NoSecret == 0
NoBar == <<NoSecret, NoSecret>>
NoRow == [kind |-> "none", secret |-> NoSecret]
Idle == [at |-> "off", secret |-> NoSecret]

\* The pair of tokens an older setup may have left in the bar or in a file, of
\* a bank that is here or gone: randomSecret never returns them again.
OldRead == 2
OldAsk == 3
OldBars == {NoSecret, OldRead} \X {NoSecret, OldAsk}

Row(kind, s) == [kind |-> kind, secret |-> s]

\* LookupSecret: the rows whose hash is that of s.
Holders(t, s) == {n \in Names : t[n] # NoRow /\ t[n].secret = s}
Accepted(t, s) == Holders(t, s) # {}

\* mintLocked: INSERT fails on a name that is taken (UNIQUE).
MintFree(t, n) == t[n] = NoRow

\* ReplaceToken: mint, or on a conflict a new secret in the old row.
Replaced(t, n, kind, s) == [t EXCEPT ![n] = Row(kind, s)]

NoRows == \A n \in Names : toks[n] = NoRow

KeyInit ==
  /\ paired = FALSE
  /\ pairFile = NoSecret
  /\ pairing = Idle
  /\ fresh = 4
  /\ \/ /\ toks = [n \in Names |-> NoRow]
        /\ kidBar = NoBar
     \/ /\ toks = [n \in Names |->
                     CASE n = "bootstrap" -> Row("parent", 1)
                       [] n = "kid-bar-read" -> Row("read", OldRead)
                       [] n = "kid-bar" -> Row("ask", OldAsk)
                       [] OTHER -> NoRow]
        /\ kidBar \in {NoBar, <<OldRead, OldAsk>>}

-----------------------------------------------------------------------------
(* mintKidBar, as steps of the setup.  Each returns the new table; the     *)
(* setup keeps what it minted in memory until writeKidBar.                 *)

\* TokenCount = 0: SeedParent("bootstrap").
Seed ==
  IF NoRows
    THEN /\ toks' = Replaced(toks, "bootstrap", "parent", fresh)
         /\ fresh' = fresh + 1
    ELSE UNCHANGED <<toks, fresh>>

\* existingKidTokens and the two LookupSecret: the kinds are not looked at.
Reusable(bar) == bar # NoBar /\ Accepted(toks, bar[1]) /\ Accepted(toks, bar[2])

\* A bug: the same secret may be handed out again.
MintBarAgain(n, kind) ==
  /\ toks' = Replaced(toks, n, kind, fresh)
  /\ UNCHANGED fresh

MintBar(n, kind) ==
  /\ toks' = Replaced(toks, n, kind, fresh)
  /\ fresh' = fresh + 1

WriteKidBar(bar) == kidBar' = bar

-----------------------------------------------------------------------------
(* Pair, as the daemon and the kid's link perform it (pairHTTP).           *)

\* loadPair failed and the bank is not paired: INSERT the parent token.
PairMint ==
  /\ pairing.at = "off"
  /\ pairFile = NoSecret
  /\ ~ paired
  /\ MintFree(toks, "parent-pair")
  /\ toks' = Replaced(toks, "parent-pair", "parent", fresh)
  /\ pairing' = [at |-> "set", secret |-> fresh]
  /\ fresh' = fresh + 1
  /\ UNCHANGED <<paired, kidBar, pairFile>>

PairSet ==
  /\ pairing.at = "set"
  /\ paired' = TRUE
  /\ pairing' = [pairing EXCEPT !.at = "write"]
  /\ UNCHANGED <<toks, fresh, kidBar, pairFile>>

\* The answer reached the link, which writes parent-pair.
PairWrite ==
  /\ pairing.at = "write"
  /\ pairFile' = pairing.secret
  /\ pairing' = Idle
  /\ UNCHANGED <<toks, paired, fresh, kidBar>>

\* The daemon or the link stops before the file is written.
PairStop ==
  /\ pairing.at # "off"
  /\ pairing' = Idle
  /\ UNCHANGED <<toks, paired, fresh, kidBar, pairFile>>

\* POST /v1/reclaim, answered to loopback only: a new secret in the old row.
Reclaim ==
  /\ paired
  /\ toks["parent-pair"] # NoRow
  /\ fresh < MaxSecrets
  /\ toks' = Replaced(toks, "parent-pair", "parent", fresh)
  /\ fresh' = fresh + 1
  /\ UNCHANGED <<paired, kidBar, pairFile, pairing>>

\* POST /v1/tokens: a parent mints a token under a name that is free.
PostToken(n, kind) ==
  /\ \E p \in Names : toks[p].kind = "parent"
  /\ MintFree(toks, n)
  /\ fresh < MaxSecrets
  /\ toks' = Replaced(toks, n, kind, fresh)
  /\ fresh' = fresh + 1
  /\ UNCHANGED <<paired, kidBar, pairFile, pairing>>

=============================================================================
