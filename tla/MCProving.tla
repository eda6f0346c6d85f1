----------------------------- MODULE MCProving ------------------------------
(***************************************************************************)
(* A small instance of Proving: three blocks of four accounts, one agent, *)
(* and runs of every mode, each with one thing different from a plain one. *)
(***************************************************************************)
EXTENDS Proving

Given == [given |-> 32]

Plain ==
  [mode |-> "connected", listed |-> <<1, 2>>, debug |-> FALSE, ownerKey |-> 2, tokenId |-> 0,
   secret |-> NoSecret, skip |-> FALSE, notary |-> TRUE]

MCRuns ==
  { Plain,
    [Plain EXCEPT !.ownerKey = NoKey, !.listed = <<2, 1>>],     \* not in ascending order
    [Plain EXCEPT !.ownerKey = NoKey, !.listed = <<2, 3>>],
    [Plain EXCEPT !.mode = "file", !.listed = <<1>>],           \* too little
    [Plain EXCEPT !.mode = "file", !.listed = <<1, 1>>],
    [Plain EXCEPT !.mode = "file", !.listed = <<>>],
    [Plain EXCEPT !.mode = "file", !.listed = <<1, 2, 9>>],     \* one does not exist
    [Plain EXCEPT !.mode = "file", !.listed = <<3, 2>>],        \* above the width of a balance
    [Plain EXCEPT !.mode = "file", !.listed = <<4>>],           \* just the threshold
    [Plain EXCEPT !.mode = "file", !.secret = Given, !.notary = FALSE],
    [Plain EXCEPT !.mode = "file", !.skip = TRUE, !.tokenId = 7],
    [Plain EXCEPT !.mode = "file", !.debug = TRUE, !.ownerKey = NoKey, !.listed = <<2, 1, 2>>],
    [Plain EXCEPT !.mode = "legacy"],
    [Plain EXCEPT !.mode = "browser", !.listed = <<3>>],
    [Plain EXCEPT !.mode = "browser", !.listed = <<3>>, !.secret = Given],
    [Plain EXCEPT !.mode = "browser", !.listed = <<1>>] }

Account(balance) == [balance |-> balance, rest |-> "no code"]

Balances(a, b, c) == <<Account(a), Account(b), Account(c), Account(11)>>

MCStateAt == 2 :> Balances(5, 7, 12) @@ 4 :> Balances(5, 7, 14) @@ 6 :> Balances(4, 7, 12)

MCOtherState == Balances(5, 8, 12)

MCChallenges ==
  {[nonce |-> "n", agent |-> "agent", threshold |-> 11, chainId |-> c, blocks |-> <<2, 4, 6>>] :
     c \in {11155111, 5}}

MCToken == [a \in {"agent"} |-> 5]

MCCommitments ==
  {Commits(SecretFrom(Sign(k, IdentityDigest(5)))) : k \in {2, 3}}

\* Half-closes only matter where a message ends with one.
MCLinks ==
  { [framing |-> "length", collapses |-> TRUE],
    [framing |-> "close", collapses |-> FALSE], [framing |-> "close", collapses |-> TRUE] }

=============================================================================
