---------------------------- MODULE SigningWizard ---------------------------
(***************************************************************************)
(* The browser between --prepare and --finalize: signFinalizePoll of       *)
(* app/web/src/pages/ProveReserves.tsx.  It waits until the wallet shows   *)
(* the account asked for, then has the message signed by whatever account  *)
(* is active when the user confirms.  One reserves wallet signs the        *)
(* blocks, the registered owner the challenge and the identity message.    *)
(***************************************************************************)
EXTENDS Prover

CONSTANTS Accounts, MaxSlips      \* the wallet's accounts

ASSUME SignatureAssumption ==
  \A key \in Accounts, r \in Runs, ch \in Challenges :
     \A t \in {r.tokenId, Token[ch.agent]} :
        None # [sig |-> Sign(key, IdentityDigest(t)), v |-> 27]

VARIABLES
  account,      \* the active one
  checked,      \* ensureAccount has returned, the signature is pending
  signed,       \* the signatures so far
  slips         \* how often the account changed in between; bounded

wizardVars == <<account, checked, signed, slips>>

WizardInit ==
  /\ account \in Accounts
  /\ checked = FALSE
  /\ signed = <<>>
  /\ slips = 0

BlockCount == Len(fetched)

\* signIdentity: a custom secret replaces the identity signature.
Total == BlockCount + (IF run.secret = NoSecret THEN 2 ELSE 1)

Message(i) ==
  CASE i <= BlockCount -> [by |-> run.listed[1], digest |-> BlockDigest(fetched[i].header)]
    [] i = BlockCount + 1 -> [by |-> RegistryOwner, digest |-> ChallengeDigest(challenge)]
    [] OTHER -> [by |-> RegistryOwner, digest |-> IdentityDigest(TokenId)]

Asked == Message(Len(signed) + 1)

EnsureAccount ==
  /\ stage = "prepared"
  /\ ~checked /\ Len(signed) < Total
  /\ account = Asked.by
  /\ checked' = TRUE
  /\ UNCHANGED <<proverVars, account, signed, slips>>

SwitchAccount ==
  /\ stage = "prepared" /\ Len(signed) < Total
  /\ IF checked THEN slips < MaxSlips /\ slips' = slips + 1
                ELSE account # Asked.by /\ slips' = slips
  /\ account' \in Accounts \ {account}
  /\ UNCHANGED <<proverVars, checked, signed>>

SignMessage ==
  /\ stage = "prepared"
  /\ checked
  /\ signed' = Append(signed, [sig |-> Sign(account, Asked.digest), v |-> 27])
  /\ checked' = FALSE
  /\ UNCHANGED <<proverVars, account, slips>>

OwnerRecovers(w) == w.sig.signer = RegistryOwner

Finalize ==
  /\ stage = "prepared"
  /\ Len(signed) = Total
  /\ OwnerRecovers(signed[BlockCount + 1])
  /\ sigs' = [blocks |-> [i \in 1..BlockCount |-> <<signed[i]>>],
              owner |-> signed[BlockCount + 1],
              identity |-> IF run.secret = NoSecret THEN signed[Total] ELSE None]
  /\ Goto("identify")
  /\ UNCHANGED <<run, challenge, identity, commitment, fetched, output, wizardVars>>

\* "Switch to the owner account and retry"
SignAgain ==
  /\ stage = "prepared"
  /\ Len(signed) = Total
  /\ ~OwnerRecovers(signed[BlockCount + 1])
  /\ signed' = <<>>
  /\ UNCHANGED <<proverVars, account, checked, slips>>

-----------------------------------------------------------------------------
(***************************************************************************)
(* One key signs the identity message and the challenge: in the browser    *)
(* the owner's, if the account was still its own when the identity was     *)
(* confirmed; on the command line POR_OWNER_KEY, or else the first key of  *)
(* the list, if that one has the lowest address, too.                      *)
(***************************************************************************)
OneSigner ==
  IF run.mode = "browser" THEN sigs.identity.sig.signer = RegistryOwner
  ELSE run.ownerKey # NoKey \/ FirstListed = FirstKey

(***************************************************************************)
(* "The derived secret stays tied to the agent identity, stable across     *)
(* proofs": the secret in the proofs of an answer is the one that the      *)
(* signer of the challenge derives if one key has signed both, and never   *)
(* otherwise; in the browser one has, unless the account changed behind    *)
(* the check; and where it has not, the proofs are made only while the     *)
(* gateway does not show the signer's commitment: the preflight stops a    *)
(* stranger's identity of an agent that is known.                          *)
(***************************************************************************)
IdentityFollowsKeys ==
  bundles # <<>> /\ run.mode # "legacy" /\ ~run.debug /\ run.secret = NoSecret =>
    LET signers == OwnersSecret(OwnerSign.signer)
    IN /\ secret = signers <=> OneSigner
       /\ run.mode = "browser" /\ slips = 0 => OneSigner
       /\ read \notin {Unread, NoCommitment} /\ read = Commits(signers) => OneSigner

=============================================================================
