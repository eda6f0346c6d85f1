------------------------------ MODULE Programs ------------------------------
(***************************************************************************)
(* The programs that take one input and give one answer: the zkVM guest,   *)
(* step by step, and the pure algorithms of the verifier, the readers of   *)
(* headers and the byte layouts, where a state is one input.               *)
(***************************************************************************)
EXTENDS Guest, SelfTest, Rlp, Journal

CONSTANT Calls        \* the inputs of the algorithms

(***************************************************************************)
(* The types of the parameters.  What the offsets helper runs the guest on *)
(* is made such that the two fields stand out in its journal.              *)
(***************************************************************************)
BlockCall == [kind : {"blocks"}, head : Nat, window : Nat, draw : [1..BLOCK_COUNT -> Nat]]
WindowCall == [kind : {"window"}, days : Nat, chainId : Nat, slot : Nat \cup {NoOverride}]
ChainCall == [kind : {"chain"}, selector : Nat, testnetMode : BOOLEAN]
ListCall == [kind : {"list"}, items : Seq(RlpItem)]
HeaderCall == [kind : {"header"}, header : Seq(Byte)]
GoodCall == [kind : {"good"}, items : Seq(RlpItem)]
JournalCall == [kind : {"journal"}, own : JournalBytes, of : JournalBytes]
SigningCall == [kind : {"signing"}, one : ChallengeBytes, other : ChallengeBytes]

ASSUME CallAssumption ==
  \A c \in Calls :
    \/ c \in BlockCall \/ c \in WindowCall \/ c \in ChainCall \/ c \in HeaderCall
    \/ c \in ListCall /\ Encodable(c.items)
    \/ c \in GoodCall /\ IsHeader(c.items)
    \/ c \in JournalCall /\ StandsOut(c.own)
    \/ c \in SigningCall

ASSUME NoRunAssumption == \E w \in Witnesses : w.wallets = <<>>

VARIABLE input

-----------------------------------------------------------------------------
\* No run of the guest: one that has panicked at once.
NoRun == CHOOSE w \in Witnesses : w.wallets = <<>>

GuestOff ==
  /\ witness = NoRun
  /\ at = 1 /\ prev = 0 /\ total = 0
  /\ outcome = "refused"

Init ==
  \/ input = [kind |-> "guest"] /\ GuestInit
  \/ input \in Calls /\ GuestOff

\* One call, one answer: nothing happens after it.
Answered == outcome # "summing" /\ UNCHANGED guestVars

Next ==
  \/ NoWallets /\ UNCHANGED input
  \/ CheckWallet /\ UNCHANGED input
  \/ RefuseWallet /\ UNCHANGED input
  \/ Commit /\ UNCHANGED input
  \/ RefuseSum /\ UNCHANGED input
  \/ Answered /\ UNCHANGED input

Spec == Init /\ [][Next]_<<input, guestVars>>

-----------------------------------------------------------------------------
(***************************************************************************)
(* What a challenge asks for: its blocks, one from each third of the       *)
(* window (select_blocks), a window that fits and is not empty             *)
(* (window_blocks), and a chain on the right side of the testnet flag, by  *)
(* a host of its own (resolve_chain, expected_host).                       *)
(***************************************************************************)
EveryChallengeSound ==
  /\ input.kind = "blocks" => SelectionSound(input.draw, input.head, input.window)
  /\ input.kind = "window" => WindowSound(input.days, input.chainId, input.slot)
  /\ input.kind = "chain" => ResolutionSound(input.selector, input.testnetMode)

(***************************************************************************)
(* The guest's self-test: each control ends as the test asserts.           *)
(***************************************************************************)
SelfTestPasses ==
  \A c \in Controls :
    witness = c.run /\ outcome # "summing" => (outcome = "committed" <=> c.passes)

(***************************************************************************)
(* The readers of a header: see DecoderInverts, ReadersAgree and           *)
(* ReadersComplete.                                                        *)
(***************************************************************************)
EveryHeaderAgrees ==
  /\ input.kind = "list" => DecoderInverts(input.items)
  /\ input.kind = "header" => ReadersAgree(input.header)
  /\ input.kind = "good" => ReadersComplete(input.items)

(***************************************************************************)
(* The journal and the signed bytes: see JournalRoundTrips,                *)
(* OffsetsAreTheFields and SigningBinds.                                   *)
(***************************************************************************)
EveryLayoutHolds ==
  /\ input.kind = "journal" =>
       /\ JournalRoundTrips(input.of)
       /\ OffsetsAreTheFields(input.own, input.of)
  /\ input.kind = "signing" => SigningBinds(input.one, input.other)

=============================================================================
