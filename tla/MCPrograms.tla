---------------------------- MODULE MCPrograms ------------------------------
(***************************************************************************)
(* Instance of Programs for TLC: witnesses and inputs, at the limits and   *)
(* with one thing wrong.                                                   *)
(***************************************************************************)
EXTENDS Programs, TLC

CONSTANTS MaxHead, MaxWindow, MaxDays, MaxSlot

-----------------------------------------------------------------------------
(***************************************************************************)
(* Witnesses: the controls of the self-test, and up to three wallets on a  *)
(* state of three accounts, each honest or with one thing wrong.           *)
(***************************************************************************)
TheState == <<Eoa(1), Eoa(9), Eoa(8)>>
OldState == <<Eoa(7), Eoa(9), Eoa(8)>>
TheHeader == [number |-> 5, root |-> Keccak(TheState)]
OldHeader == [number |-> 4, root |-> Keccak(OldState)]

HonestWallet(a) ==
  [address |-> a, account |-> TheState[a], proof |-> TheHeader.root,
   sig |-> SignEip191(TheHeader, a)]

FaultyWallets(a) ==
  { HonestWallet(a),
    [HonestWallet(a) EXCEPT !.account.balance = 12],
    [HonestWallet(a) EXCEPT !.account = OldState[a], !.proof = OldHeader.root],
    [HonestWallet(a) EXCEPT !.sig = SignEip191(OldHeader, a)],
    [HonestWallet(a) EXCEPT !.sig = SignEip191(TheHeader, 4)],
    [HonestWallet(a) EXCEPT !.sig = BadSignature] }

WalletLists ==
  {<<>>}
    \cup {<<v>> : v \in FaultyWallets(1)}
    \cup {<<v, w>> : v \in FaultyWallets(1) \cup FaultyWallets(2), w \in FaultyWallets(2)}
    \cup [1..3 -> {HonestWallet(a) : a \in 1..3}]

MCWitnesses ==
  {c.run : c \in Controls} \cup
  {[header |-> TheHeader, wallets |-> ws, threshold |-> t, chainId |-> 1, debug |-> d,
    nonce |-> "nonce", agentId |-> Keccak("agent"), agentTokenId |-> 5, secret |-> "s"] :
     ws \in WalletLists, t \in {0, 1, 10, 15}, d \in BOOLEAN}

-----------------------------------------------------------------------------
(***************************************************************************)
(* Inputs of the verifier's algorithms.                                    *)
(***************************************************************************)
AllSelectors == {c.chainId : c \in CHAINS} \cup {NoChain, 5}

BlockInputs ==
  [kind : {"blocks"}, head : 0..MaxHead, window : 0..MaxWindow,
   draw : [1..BLOCK_COUNT -> 0..(MaxWindow \div BLOCK_COUNT)]]

WindowInputs ==
  [kind : {"window"}, days : 0..MaxDays, chainId : AllSelectors,
   slot : 0..MaxSlot \cup {NoOverride, 14400, 86400, 86401}]

ChainInputs == [kind : {"chain"}, selector : AllSelectors, testnetMode : BOOLEAN]

(***************************************************************************)
(* Lists of up to two items at the limits of the RLP length classes, and   *)
(* headers put together from well-formed and malformed items.              *)
(***************************************************************************)
Filled(n, b) == [i \in 1..n |-> b]

RlpItems ==
  {[list |-> FALSE, bytes |-> b] : b \in {<<>>, <<0>>, <<127>>, <<128>>, <<1, 2>>}
       \cup {Filled(n, 7) : n \in {55, 56}}}
    \cup {[list |-> TRUE, bytes |-> Filled(n, 1)] : n \in {0, 1, 56}}

BigItem == [list |-> FALSE, bytes |-> Filled(256, 7)]

ListInputs ==
  {[kind |-> "list", items |-> s] :
     s \in {<<>>, <<BigItem>>} \cup {<<i>> : i \in RlpItems}
             \cup {<<i, j>> : i, j \in RlpItems}}

RawRoots ==
  {EncodeString(Filled(32, 9)), EncodeString(Filled(31, 9)), WrapList(Filled(32, 9)),
   <<184, 32>> \o Filled(32, 9)}

RawNumbers ==
  {EncodeString(n) : n \in {<<>>, <<5>>, <<200>>, <<1, 0>>, <<0, 5>>, Filled(9, 3)}}
    \cup {<<129, 5>>, <<0>>, WrapList(<<5>>), <<>>}

RawHeader(root, filler, number, tail, short) ==
  LET item == EncodeString(Filled(32, 1))
      body == item \o item \o EncodeString(Filled(20, 2)) \o root \o filler \o filler
                \o EncodeString(Filled(60, 4)) \o EncodeString(<<>>) \o number \o tail
      whole == WrapList(body)
  IN SubSeq(whole, 1, Len(whole) - short)

HeaderInputs ==
  {[kind |-> "header", header |-> h] :
     h \in {RawHeader(r, f, n, t, s) :
              r \in RawRoots, n \in RawNumbers,
              f \in {EncodeString(Filled(32, 1)), EncodeString(<<>>), <<129, 3>>},
              t \in {<<>>, EncodeString(<<3>>), <<248>>}, s \in 0..1}
         \cup {RawHeader(r, <<1>>, n, <<>>, 0) \o <<0>> : r \in RawRoots, n \in RawNumbers}}

GoodHeaderInputs ==
  {[kind |-> "good", items |->
      [i \in 1..(8 + Len(n)) |->
         [list |-> FALSE,
          bytes |-> CASE i = 9 -> n[1] [] i = 7 -> b
                      [] OTHER -> Filled(32, i)]]] :
     n \in {<<m>> \o t : m \in {<<>>, <<5>>, <<200>>, <<1, 0>>}, t \in {<<>>, <<0>>}},
     b \in {<<>>, Filled(256, 0)}}

(***************************************************************************)
(* Journals and challenges as bytes.                                       *)
(***************************************************************************)
Int8(low) == low \o Filled(8 - Len(low), 0)

Sentinel == <<136, 119, 102, 85, 68, 51, 34, 17>>

Journals(tokens) ==
  {[blockHash |-> Filled(32, h), threshold |-> Filled(16, t), chainId |-> <<1, 0, 0, 0>>,
    debug |-> d, nonce |-> Filled(32, 171), agentId |-> Filled(32, h),
    blockNumber |-> Int8(n), agentTokenId |-> k, identity |-> id] :
     h \in {0, 5}, t \in {0, 5}, d \in {0, 1}, n \in {<<>>, <<5>>}, k \in tokens,
     id \in {[i \in 1..32 |-> 100 + i], Filled(32, 5)}}

HelperRuns ==
  {j \in Journals({Sentinel}) :
     j.identity[1] # 5 /\ j.debug = 1 /\ j.threshold[1] = 5 /\ j.blockNumber = Int8(<<5>>)}

JournalInputs ==
  [kind : {"journal"}, own : HelperRuns, of : Journals({Sentinel, Int8(<<5>>), Int8(<<0, 5>>)})]

MCChallenges ==
  {[nonce |-> Filled(32, n), agentId |-> Filled(32, 2), threshold |-> Int8(t) \o Filled(8, 0),
    chainId |-> c \o Filled(4 - Len(c), 0), blocks |-> b] :
     n \in {1, 2}, t \in {<<1>>, <<0, 1>>}, c \in {<<1>>, <<0, 1>>},
     b \in {<<Int8(x), Int8(y), Int8(<<9>>)>> : x, y \in {<<1>>, <<1, 1>>}}}

SigningInputs == [kind : {"signing"}, one : MCChallenges, other : MCChallenges]

MCCalls ==
  BlockInputs \cup WindowInputs \cup ChainInputs \cup ListInputs \cup HeaderInputs
    \cup GoodHeaderInputs \cup JournalInputs \cup SigningInputs

=============================================================================
