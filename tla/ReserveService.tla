--------------------------- MODULE ReserveService ---------------------------
(***************************************************************************)
(* The first-generation proving service (por-zk/por_service.rs): a client  *)
(* asks for a nonce, signs it with its wallet and has its balance proved.  *)
(* Requests run concurrently; the nonces are behind a mutex, in memory.    *)
(***************************************************************************)
EXTENDS Naturals, FiniteSets, Functions

CONSTANTS
  Nonces,         \* fresh random values
  Requests,       \* POST requests, each served once
  NONCE_TTL,
  Admin,          \* POR_ADMIN_MODE
  MaxClock        \* bound of the clock

VARIABLES
  clock,
  store,          \* nonces: when each was inserted
  drawn,          \* when each nonce was handed out, for ever
  request         \* what came of each request, and the nonce it spent

serviceVars == <<clock, store, drawn, request>>

NoNonce == 0

Outcome(stage, nonce, at) == [stage |-> stage, nonce |-> nonce, at |-> at]

ServiceInit ==
  /\ clock = 0
  /\ store = <<>>
  /\ drawn = <<>>
  /\ request = [r \in Requests |-> Outcome("none", NoNonce, 0)]

Pruned(s) == Restrict(s, {n \in DOMAIN s : clock - s[n] < NONCE_TTL})

GetNonce ==
  /\ \E n \in Nonces \ DOMAIN drawn :
       /\ store' = [m \in DOMAIN Pruned(store) \cup {n} |->
                      IF m = n THEN clock ELSE store[m]]
       /\ drawn' = [m \in DOMAIN drawn \cup {n} |-> IF m = n THEN clock ELSE drawn[m]]
  /\ UNCHANGED <<clock, request>>

Answer(r, outcome) == request' = [request EXCEPT ![r] = outcome]

(***************************************************************************)
(* The signature recovers some signer, whose balance will be proved, or    *)
(* not; then the nonce is taken out, whatever comes of the proof.          *)
(***************************************************************************)
BadSignatureSent(r) ==
  /\ request[r].stage = "none"
  /\ Answer(r, Outcome("bad", NoNonce, clock))
  /\ UNCHANGED <<clock, store, drawn>>

\* Seeded fault: the nonce is looked up, and stays.
TakenLookedUp(s, n) == s

Taken(s, n) == Restrict(s, DOMAIN s \ {n})

Prove(r, n) ==
  /\ request[r].stage = "none"
  /\ store' = Taken(Pruned(store), n)
  /\ Answer(r, IF n \in DOMAIN Pruned(store) THEN Outcome("proving", n, clock)
                                              ELSE Outcome("bad", NoNonce, clock))
  /\ UNCHANGED <<clock, drawn>>

AdminProve(r) ==
  /\ request[r].stage = "none"
  /\ Answer(r, Outcome(IF Admin THEN "proving" ELSE "bad", NoNonce, clock))
  /\ UNCHANGED <<clock, store, drawn>>

\* run_proof: the verifier's verdict, or an error of any of its steps.
RunProof(r, result) ==
  /\ request[r].stage = "proving"
  /\ Answer(r, [request[r] EXCEPT !.stage = result])
  /\ UNCHANGED <<clock, store, drawn>>

ServiceRestart ==
  /\ store' = <<>>
  /\ request' = [r \in Requests |->
       IF request[r].stage = "proving" THEN [request[r] EXCEPT !.stage = "dropped"]
                                       ELSE request[r]]
  /\ store # <<>> \/ request' # request
  /\ UNCHANGED <<clock, drawn>>

ServiceTick == clock < MaxClock /\ clock' = clock + 1 /\ UNCHANGED <<store, drawn, request>>

-----------------------------------------------------------------------------
(***************************************************************************)
(* "Anti-replay": a nonce starts one proof at most, across retries, failed *)
(* proofs and restarts, and only while it is younger than its limit; no    *)
(* other proof is started without admin mode.                              *)
(***************************************************************************)
Started == {r \in Requests : request[r].stage \in {"proving", "answered", "error", "dropped"}}

NonceSpentOnce ==
  \A r \in Started :
    \/ Admin /\ request[r].nonce = NoNonce
    \/ /\ request[r].nonce \in DOMAIN drawn
       /\ request[r].at - drawn[request[r].nonce] < NONCE_TTL
       /\ \A s \in Started : request[s].nonce = request[r].nonce => s = r

=============================================================================
