------------------------------ MODULE SelfTest ------------------------------
(***************************************************************************)
(* The guest's own test (host/src/bin/ownership_selftest.rs): synthetic    *)
(* states for keys the test holds, and seven controls, each a witness with *)
(* the outcome the test asserts.  Amounts are in ETH.                      *)
(***************************************************************************)
EXTENDS Submission, Sequences

OwnKey == 2         \* addresses of the three keys, in no particular order
SecondKey == 1
OtherKey == 3

Eoa(balance) == [balance |-> balance, rest |-> "no code"]

SingleLeafTrie(address, balance) == Keccak([a \in {address} |-> Eoa(balance)])

TwoLeafTrie(a, balanceA, b, balanceB) ==
  Keccak([x \in {a, b} |-> Eoa(IF x = a THEN balanceA ELSE balanceB)])

HeaderRlp(root) == [number |-> 20345678, root |-> root]

SignEip191(header, key) ==
  [signer |-> key, digest |-> Keccak([personalSign |-> Keccak(header)])]

\* A signature that was made is one that recovers.
ASSUME SignatureAssumption ==
  \A header \in [number : {20345678}, root : {SingleLeafTrie(OwnKey, 5),
                                             TwoLeafTrie(OwnKey, 3, SecondKey, 4)}],
     key \in {OwnKey, SecondKey, OtherKey} : SignEip191(header, key) # BadSignature

Acct(address, balance, root, sig) ==
  [address |-> address, account |-> Eoa(balance), proof |-> root, sig |-> sig]

MakeEnv(header, accts, threshold) ==
  [header |-> header, wallets |-> accts, threshold |-> threshold, chainId |-> 1,
   debug |-> FALSE, nonce |-> "AB", agentId |-> Keccak("0xagent-selftest"),
   agentTokenId |-> 0, secret |-> "zeros"]

SingleRoot == SingleLeafTrie(OwnKey, 5)
SingleHeader == HeaderRlp(SingleRoot)
Single(sig) == Acct(OwnKey, 5, SingleRoot, sig)
GoodSig == SignEip191(SingleHeader, OwnKey)

PairRoot == TwoLeafTrie(OwnKey, 3, SecondKey, 4)
PairHeader == HeaderRlp(PairRoot)
Pair ==         \* sorted by address
  <<Acct(SecondKey, 4, PairRoot, SignEip191(PairHeader, SecondKey)),
    Acct(OwnKey, 3, PairRoot, SignEip191(PairHeader, OwnKey))>>

Control(run, passes) == [run |-> run, passes |-> passes]

Controls ==
  { Control(MakeEnv(SingleHeader, <<Single(GoodSig)>>, 1), TRUE),            \* [1]
    Control(MakeEnv(SingleHeader, <<Single(BadSignature)>>, 1), FALSE),      \* [2]
    Control(MakeEnv(SingleHeader,                                            \* [3]
                    <<Single(SignEip191(SingleHeader, OtherKey))>>, 1), FALSE),
    Control(MakeEnv(SingleHeader, <<Single(GoodSig)>>, 6), FALSE),           \* [4]
    Control(MakeEnv(PairHeader, Pair, 5), TRUE),                             \* [5]
    Control(MakeEnv(PairHeader, Pair, 8), FALSE),                            \* [6]
    Control(MakeEnv(SingleHeader, <<Single(GoodSig), Single(GoodSig)>>, 1),  \* [7]
            FALSE) }

=============================================================================
