------------------------------- MODULE Chains -------------------------------
(***************************************************************************)
(* The supported-chain allowlist shared by the prover and the verifier     *)
(* (por-types/src/chains.rs).  A challenge names a chain by a SELECTOR;    *)
(* ResolveChain turns it into the chain whose reserves are really proved,  *)
(* under the global testnet flag.                                          *)
(*                                                                         *)
(* Names and RPC URLs are left out.  The host that must have served the    *)
(* attested header is kept: it is what binds a proof to a chain.           *)
(***************************************************************************)
EXTENDS Integers

NoChain == 0        \* the Err / None of the lookups; no row has this id

Mainnet(id, host, blockTime, testnetId) ==
  [chainId |-> id, host |-> host, blockTime |-> blockTime,
   testnet |-> FALSE, testnetId |-> testnetId]

Testnet(id, host, blockTime) ==
  [chainId |-> id, host |-> host, blockTime |-> blockTime,
   testnet |-> TRUE, testnetId |-> NoChain]

CHAINS ==
  { Mainnet(1,    "eth.drpc.org",      12, 11155111),
    Mainnet(10,   "optimism.drpc.org",  2, 11155420),
    Mainnet(56,   "bsc.drpc.org",       3, NoChain),
    Mainnet(137,  "polygon.drpc.org",   2, NoChain),
    Mainnet(8453, "base.drpc.org",      2, 84532),
    Testnet(11155111, "sepolia.drpc.org",          12),
    Testnet(11155420, "optimism-sepolia.drpc.org",  2),
    Testnet(84532,    "base-sepolia.drpc.org",      2) }

(***************************************************************************)
(* chain_spec as the set of rows with that id: empty when unsupported.     *)
(***************************************************************************)
ChainSpec(id) == {c \in CHAINS : c.chainId = id}

IsSupported(id) == ChainSpec(id) # {}

(***************************************************************************)
(* expected_host: the hosts a presentation for this chain may name.  Empty *)
(* is the "unsupported chain_id" error.                                    *)
(***************************************************************************)
ExpectedHost(id) == {c.host : c \in ChainSpec(id)}

(***************************************************************************)
(* resolve_chain: the rows a selector resolves to, empty on error.         *)
(*  - testnet mode takes a testnet as it is and a mainnet to its pair;     *)
(*  - mainnet mode takes a mainnet as it is and refuses a testnet.         *)
(***************************************************************************)
ResolveChain(selector, testnetMode) ==
  UNION { IF testnetMode = c.testnet THEN {c}
          ELSE IF testnetMode THEN ChainSpec(c.testnetId)
          ELSE {}
          : c \in ChainSpec(selector) }

(***************************************************************************)
(* selectable_ids: what the service advertises.                            *)
(***************************************************************************)
SelectableIds(testnetMode) ==
  {c.chainId : c \in {r \in CHAINS : ~r.testnet
                                     /\ (testnetMode => r.testnetId # NoChain)}}

-----------------------------------------------------------------------------
(***************************************************************************)
(* The testnet flag decides what is proved: a selector resolves to at most *)
(* one chain, on the flag's side, and no other chain shares its host, so a *)
(* presentation that names the host vouches for that chain alone; and what *)
(* the service advertises are the mainnet selectors that resolve.          *)
(***************************************************************************)
ResolutionSound(selector, testnetMode) ==
  /\ \A c \in ResolveChain(selector, testnetMode) :
       /\ c.testnet = testnetMode
       /\ ResolveChain(selector, testnetMode) = {c}
       /\ \A d \in CHAINS : c.host \in ExpectedHost(d.chainId) => d = c
       /\ ResolveChain(c.chainId, testnetMode) = {c}
  /\ selector \in SelectableIds(testnetMode)
       <=> /\ ResolveChain(selector, testnetMode) # {}
           /\ \E c \in ChainSpec(selector) : ~c.testnet

=============================================================================
