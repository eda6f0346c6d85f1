------------------------------ MODULE Journal -------------------------------
(***************************************************************************)
(* The journal of a guest run as bytes: what the guest commits, what the   *)
(* verifier decodes, and where the marketplace gateway, which knows only   *)
(* byte offsets, finds its two fields (bin/marketplace_offsets.rs).  And   *)
(* the bytes of a challenge that its owner signs (por-types).              *)
(*                                                                         *)
(* Values are little-endian byte sequences of their width.  risc0's serde  *)
(* (external) writes words of four bytes: each byte of an array takes a    *)
(* word, a bool too, integers of 32 bits and more are contiguous.          *)
(***************************************************************************)
EXTENDS Naturals, SequencesExt

Bytes(n) == [1..n -> 0..255]

JournalBytes ==
  [blockHash : Bytes(32), threshold : Bytes(16), chainId : Bytes(4), debug : 0..1,
   nonce : Bytes(32), agentId : Bytes(32), blockNumber : Bytes(8),
   agentTokenId : Bytes(8), identity : Bytes(32)]

ChallengeBytes ==
  [nonce : Bytes(32), agentId : Bytes(32), threshold : Bytes(16), chainId : Bytes(4),
   blocks : [1..3 -> Bytes(8)]]

Word(byte) == <<byte, 0, 0, 0>>

Expanded(bytes) == FlattenSeq([i \in DOMAIN bytes |-> Word(bytes[i])])

(***************************************************************************)
(* The nine commits of the guest, in order.  The identity is committed as  *)
(* four u64 limbs: its 32 bytes, contiguous.                               *)
(***************************************************************************)
\* Seeded fault: the identity is committed as a byte array.
CommitBytesExpanded(j) ==
  Expanded(j.blockHash) \o j.threshold \o j.chainId \o Word(j.debug)
    \o Expanded(j.nonce) \o Expanded(j.agentId) \o j.blockNumber
    \o j.agentTokenId \o Expanded(j.identity)

CommitBytes(j) ==
  Expanded(j.blockHash) \o j.threshold \o j.chainId \o Word(j.debug)
    \o Expanded(j.nonce) \o Expanded(j.agentId) \o j.blockNumber
    \o j.agentTokenId \o j.identity

(***************************************************************************)
(* decode_journal: positional; a byte of an array is the low one of a word.*)
(***************************************************************************)
Squeezed(bytes, from, n) == [i \in 1..n |-> bytes[from + 4 * (i - 1)]]

DecodeJournal(bytes) ==
  [blockHash |-> Squeezed(bytes, 1, 32), threshold |-> SubSeq(bytes, 129, 144),
   chainId |-> SubSeq(bytes, 145, 148), debug |-> bytes[149],
   nonce |-> Squeezed(bytes, 153, 32), agentId |-> Squeezed(bytes, 281, 32),
   blockNumber |-> SubSeq(bytes, 409, 416), agentTokenId |-> SubSeq(bytes, 417, 424),
   identity |-> SubSeq(bytes, 425, 456)]

(***************************************************************************)
(* The helper runs the guest on labels of its own, looks for the two byte  *)
(* patterns and registers the offsets (0-based) of their first occurrence. *)
(***************************************************************************)
OccursAt(hay, needle, offset) == SubSeq(hay, offset + 1, offset + Len(needle)) = needle

Occurrences(hay, needle) ==
  {o \in 0..(Len(hay) - Len(needle)) : OccursAt(hay, needle, o)}

Find(hay, needle) ==
  {o \in Occurrences(hay, needle) : \A p \in Occurrences(hay, needle) : o <= p}

MeasuredOffsets(own) ==
  [tokenId |-> Find(CommitBytes(own), own.agentTokenId),
   identity |-> Find(CommitBytes(own), own.identity)]

(* Its labels are distinctive: the two patterns occur once in its journal. *)
StandsOut(own) ==
  \A needle \in {own.agentTokenId, own.identity} :
     \A o, p \in Occurrences(CommitBytes(own), needle) : o = p

(***************************************************************************)
(* The gateway's _extractField (external), and the commitment to register: *)
(* the little-endian field as a big-endian bytes32.                        *)
(***************************************************************************)
ExtractField(bytes, offset, length) == SubSeq(bytes, offset + 1, offset + length)

Commitment(identity) == Reverse(identity)

(***************************************************************************)
(* canonical_bytes, big-endian and of fixed width; the domain tag and the  *)
(* order are the code's.                                                   *)
(***************************************************************************)
CHALLENGE_DOMAIN == <<"POR-CHALLENGE-v1">>

CanonicalBytes(c) ==
  CHALLENGE_DOMAIN \o c.nonce \o c.agentId \o Reverse(c.threshold)
    \o Reverse(c.chainId) \o FlattenSeq([i \in 1..3 |-> Reverse(c.blocks[i])])

-----------------------------------------------------------------------------
(***************************************************************************)
(* The verifier reads from a journal what the guest committed.             *)
(***************************************************************************)
JournalRoundTrips(j) == DecodeJournal(CommitBytes(j)) = j

(***************************************************************************)
(* "Offsets are value-independent": what the helper measures on its own    *)
(* labels is where the gateway finds the token id and the commitment of    *)
(* any other run.                                                          *)
(***************************************************************************)
OffsetsAreTheFields(own, j) ==
  LET at == MeasuredOffsets(own)
  IN /\ \A o \in at.tokenId : ExtractField(CommitBytes(j), o, 8) = j.agentTokenId
     /\ \A o \in at.identity : 
          Reverse(ExtractField(CommitBytes(j), o, 32)) = Commitment(j.identity)
     /\ at.tokenId # {} /\ at.identity # {}

(***************************************************************************)
(* "The security-relevant fields": two challenges with the same bytes to   *)
(* sign are the same in every field an answer is checked against.          *)
(***************************************************************************)
SigningBinds(c, d) == CanonicalBytes(c) = CanonicalBytes(d) => c = d

=============================================================================
