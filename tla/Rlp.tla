-------------------------------- MODULE Rlp ---------------------------------
(***************************************************************************)
(* The three programs that read a raw block header, byte by byte:          *)
(*  - the zkVM guest (extract_header_fields, methods/guest/src/main.rs)    *)
(*    takes the state root and the number,                                 *)
(*  - the verifier (header_block_number, host/src/verify.rs) takes the     *)
(*    number, "mirrors the guest's header walk",                           *)
(*  - the first-generation witness builder (por-zk/por_witness.rs) reads   *)
(*    all items with a decoder of its own.                                 *)
(* The first two walk with alloy-rlp, which is external: canonical items   *)
(* only, each inside what is left of the input.                            *)
(*                                                                         *)
(* A result is a set: empty for an error, else its one value.  A number is *)
(* its big-endian bytes without leading zeros.                             *)
(***************************************************************************)
EXTENDS Naturals, SequencesExt

Byte == 0..255

RlpItem == [list : BOOLEAN, bytes : Seq(Byte)]

Slice(s, first, count) == SubSeq(s, first, first + count - 1)

BigEndian(bytes) == FoldLeft(LAMBDA acc, b : acc * 256 + b, 0, bytes)

Stripped(bytes) == \A i \in DOMAIN bytes : bytes[i] = 0

Numeral(bytes) ==
  IF Stripped(bytes) THEN <<>>
  ELSE LET first == CHOOSE i \in DOMAIN bytes :
                       bytes[i] # 0 /\ \A j \in 1..(i - 1) : bytes[j] = 0
       IN SubSeq(bytes, first, Len(bytes))

(***************************************************************************)
(* The lead byte of an item splits into five classes, which both decoders  *)
(* know: [list, long, head, len] with the length of the payload, or of its *)
(* length when it is long.                                                 *)
(***************************************************************************)
Lead(b) ==
  CASE b <= 127 -> [list |-> FALSE, long |-> FALSE, head |-> 0, len |-> 1]
    [] b \in 128..183 -> [list |-> FALSE, long |-> FALSE, head |-> 1, len |-> b - 128]
    [] b \in 184..191 -> [list |-> FALSE, long |-> TRUE, head |-> 1, len |-> b - 183]
    [] b \in 192..247 -> [list |-> TRUE, long |-> FALSE, head |-> 1, len |-> b - 192]
    [] OTHER -> [list |-> TRUE, long |-> TRUE, head |-> 1, len |-> b - 247]

(***************************************************************************)
(* One item at a position: where its payload starts and how long it is.    *)
(* rlp_read_item, and the head of rlp_decode_list: the item must end       *)
(* within the body.                                                        *)
(***************************************************************************)
ReadItem(body, pos) ==
  IF pos > Len(body) THEN {}
  ELSE LET lead  == Lead(body[pos])
           start == pos + lead.head + (IF lead.long THEN lead.len ELSE 0)
           size  == IF lead.long THEN BigEndian(Slice(body, pos + 1, lead.len))
                    ELSE lead.len
       IN IF start - 1 > Len(body) \/ start + size - 1 > Len(body) THEN {}
          ELSE {[list |-> lead.list, start |-> start, size |-> size]}

Payload(body, item) == Slice(body, item.start, item.size)

After(item) == item.start + item.size

(***************************************************************************)
(* alloy_rlp::Header::decode: the same, and canonical.                     *)
(***************************************************************************)
Canonical(body, pos, item) ==
  LET lead == Lead(body[pos])
  IN /\ lead.long => item.size > 55 /\ body[pos + 1] # 0
     /\ (lead.head = 1 /\ ~lead.long /\ ~item.list /\ item.size = 1)
          => body[item.start] > 127

AlloyHeader(body, pos) == {item \in ReadItem(body, pos) : Canonical(body, pos, item)}

(***************************************************************************)
(* Decoding a u64: a string of at most 8 bytes without a leading zero.     *)
(***************************************************************************)
AlloyU64(body, pos) ==
  {Numeral(Payload(body, item)) : item \in
     {i \in AlloyHeader(body, pos) :
        /\ ~i.list /\ i.size <= 8
        /\ i.size > 0 => body[i.start] # 0}}

(***************************************************************************)
(* Walking over n items; the positions reached, none on an error.  The     *)
(* walk starts behind the head of the outer list and does not look at the  *)
(* length that head states.                                                *)
(***************************************************************************)
Enter(header) == {i.start : i \in {j \in AlloyHeader(header, 1) : j.list}}

Skip(header, from, n) ==
  FoldLeft(LAMBDA at, k : UNION {{After(i) : i \in AlloyHeader(header, p)} : p \in at},
           from, [k \in 1..n |-> k])

GuestFields(header) ==
  LET root   == UNION {{i \in AlloyHeader(header, p) : i.size = 32} :
                         p \in Skip(header, Enter(header), 3)}
      number == UNION {AlloyU64(header, p) :
                         p \in Skip(header, {After(r) : r \in root}, 4)}
  IN {[root |-> Payload(header, r), number |-> n] : r \in root, n \in number}

\* Seeded fault: the verifier stops one item early, at the difficulty.
VerifierNumberEarly(header) ==
  UNION {AlloyU64(header, p) : p \in Skip(header, Enter(header), 7)}

VerifierNumber(header) ==
  UNION {AlloyU64(header, p) : p \in Skip(header, Enter(header), 8)}

(***************************************************************************)
(* rlp_decode_list: the outer item is a list that takes up the whole       *)
(* input; then its items until the body ends, or an error.                 *)
(***************************************************************************)
OuterList(input) == {i \in ReadItem(input, 1) : i.list /\ After(i) = Len(input) + 1}

Items(body) ==
  LET from[pos \in 1..(Len(body) + 1)] ==
        IF pos > Len(body) THEN {<<>>}
        ELSE UNION {{<<[list |-> i.list, bytes |-> Payload(body, i)]>> \o rest :
                       rest \in from[After(i)]} : i \in ReadItem(body, pos)}
  IN from[1]

DecodeList(input) ==
  UNION {Items(Payload(input, outer)) : outer \in OuterList(input)}

(***************************************************************************)
(* decode_header: 32-byte strings at 3, 4 and 5, and at 8 at most 8 bytes, *)
(* in a header that fits the circuit.                                      *)
(***************************************************************************)
MAX_HEADER_RLP_LEN == 708

Is32(item) == ~item.list /\ Len(item.bytes) = 32

DecodeHeader(header) ==
  {[root |-> items[4].bytes, number |-> Numeral(items[9].bytes)] : items \in
     {s \in DecodeList(header) :
        /\ Len(header) <= MAX_HEADER_RLP_LEN
        /\ Len(s) >= 9
        /\ Is32(s[4]) /\ Is32(s[5]) /\ Is32(s[6])
        /\ Len(s[9].bytes) <= 8}}

(***************************************************************************)
(* Encoding, as the chain and the test fixtures do it (wrap_list and the   *)
(* Encodable of the host's binaries): the reference for the readers.       *)
(***************************************************************************)
Prefix(size, short, long) ==
  IF size <= 55 THEN <<short + size>>
  ELSE IF size < 256 THEN <<long + 1, size>>
  ELSE <<long + 2, size \div 256, size % 256>>

EncodeString(bytes) ==
  IF Len(bytes) = 1 /\ bytes[1] <= 127 THEN bytes
  ELSE Prefix(Len(bytes), 128, 183) \o bytes

WrapList(payload) == Prefix(Len(payload), 192, 247) \o payload

EncodeItem(item) == IF item.list THEN WrapList(item.bytes) ELSE EncodeString(item.bytes)

Joined(items) == FoldLeft(LAMBDA acc, i : acc \o EncodeItem(i), <<>>, items)

EncodeList(items) == WrapList(Joined(items))

(***************************************************************************)
(* What the readers are asked: lists whose length takes two bytes at most, *)
(* and headers that decode_header has room for.                            *)
(***************************************************************************)
Encodable(items) == items \in Seq(RlpItem) /\ Len(Joined(items)) < 65536

IsU64(item) ==
  /\ ~item.list /\ Len(item.bytes) <= 8
  /\ item.bytes # <<>> => item.bytes[1] # 0

IsHeader(items) ==
  /\ items \in Seq(RlpItem) /\ Len(items) >= 9
  /\ Is32(items[4]) /\ Is32(items[5]) /\ Is32(items[6]) /\ IsU64(items[9])
  /\ Len(EncodeList(items)) <= MAX_HEADER_RLP_LEN

-----------------------------------------------------------------------------
(***************************************************************************)
(* The witness builder's decoder inverts the encoding of every list, and   *)
(* refuses what is cut short or has a tail.                                *)
(***************************************************************************)
DecoderInverts(items) ==
  LET whole == EncodeList(items)
  IN /\ DecodeList(whole) = {items}
     /\ DecodeList(whole \o <<0>>) = {}
     /\ \A n \in 1..(Len(whole) - 1) : DecodeList(SubSeq(whole, 1, n)) = {}

(***************************************************************************)
(* "Mirrors the guest's header walk": on every header, also a malformed    *)
(* one, that the guest commits a number for, the verifier reads the same   *)
(* number; and the witness builder, where it accepts too, the same root    *)
(* and number.  A proof and its check are about one block.                 *)
(***************************************************************************)
ReadersAgree(header) ==
  \A f \in GuestFields(header) :
    /\ VerifierNumber(header) = {f.number}
    /\ DecodeHeader(header) \in {{}, {f}}

(***************************************************************************)
(* And a well-formed header is read by all three, to what it encodes.      *)
(***************************************************************************)
ReadersComplete(items) ==
  LET truth == {[root |-> items[4].bytes, number |-> items[9].bytes]}
  IN /\ GuestFields(EncodeList(items)) = truth
     /\ DecodeHeader(EncodeList(items)) = truth

=============================================================================
