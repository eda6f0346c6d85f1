------------------------------ MODULE Proving -------------------------------
(***************************************************************************)
(* The two generations of the prover, each over its own notary connection: *)
(*  - main.rs with the signing wizard, over attest.rs and notary.rs, whose *)
(*    messages carry their length;                                         *)
(*  - por_service.rs, over por_core.rs and zerion_notary.rs, whose         *)
(*    messages end with a half-close.                                      *)
(* An attestation is a session of Attestation: the prover goes on with its *)
(* result, and the next one is a new connection.  The service's proofs     *)
(* take the connection one at a time here; in the program each has its     *)
(* own, and they share nothing.                                            *)
(***************************************************************************)
EXTENDS SigningWizard, Attestation, ReserveService

HostOn == link.framing = "length"
ServiceOn == link.framing = "close"

hostVars == <<proverVars, wizardVars>>
provingVars == <<hostVars, attVars, serviceVars>>

Init ==
  /\ AttInit
  /\ ServiceInit
  /\ WizardInit
  /\ ProverInit
  /\ ServiceOn => run = CHOOSE r \in Runs : TRUE

-----------------------------------------------------------------------------
InSession == HostOn /\ stage = "attest" /\ run.notary

Serving == ServiceOn /\ \E r \in Requests : request[r].stage = "proving"

\* The client runs inside of an attestation step of one of the provers.
ConnectNow == (InSession \/ Serving) /\ Connect /\ UNCHANGED <<hostVars, serviceVars>>

HostAttested ==
  /\ InSession /\ client = "done"
  /\ AttestBlock
  /\ NewSession
  /\ UNCHANGED <<wizardVars, serviceVars>>

HostAttestFails ==
  /\ InSession /\ client = "failed"
  /\ AttestFails
  /\ NewSession
  /\ UNCHANGED <<wizardVars, serviceVars>>

ServiceAnswers ==
  /\ ServiceOn /\ client = "done"
  /\ \E r \in Requests : RunProof(r, "answered")
  /\ NewSession
  /\ UNCHANGED hostVars

\* The attestation failed, or what comes after it: the verifier's answer.
ServiceFails ==
  /\ ServiceOn /\ client \in {"failed", "done"}
  /\ \E r \in Requests : RunProof(r, "error")
  /\ NewSession
  /\ UNCHANGED hostVars

HostIdle == UNCHANGED <<wizardVars, attVars, serviceVars>>

Host ==
  \/ HostOn /\ BuildWalletSet /\ HostIdle
  \/ HostOn /\ BadWalletSet /\ HostIdle
  \/ GetChallenge /\ HostIdle
  \/ NotIssued /\ HostIdle
  \/ PickBlock /\ HostIdle
  \/ IdentifyUnread /\ HostIdle
  \/ IdentifyRead /\ HostIdle
  \/ IdentityMismatch /\ HostIdle
  \/ Fetch /\ HostIdle
  \/ FetchFails /\ HostIdle
  \/ CheckSigs /\ HostIdle
  \/ BadSigs /\ HostIdle
  \/ NoNotary /\ HostIdle
  \/ ProveBlock /\ HostIdle
  \/ GuestRefuses /\ HostIdle
  \/ JournalShows /\ HostIdle
  \/ WriteResponse /\ HostIdle
  \/ SubmitVerified /\ HostIdle
  \/ SubmitFails /\ HostIdle

Wizard ==
  \/ EnsureAccount /\ UNCHANGED <<attVars, serviceVars>>
  \/ SwitchAccount /\ UNCHANGED <<attVars, serviceVars>>
  \/ SignMessage /\ UNCHANGED <<attVars, serviceVars>>
  \/ Finalize /\ UNCHANGED <<attVars, serviceVars>>
  \/ SignAgain /\ UNCHANGED <<attVars, serviceVars>>

Service ==
  \/ ServiceOn /\ GetNonce /\ UNCHANGED <<hostVars, attVars>>
  \/ ServiceOn /\ ServiceTick /\ UNCHANGED <<hostVars, attVars>>
  \/ ServiceOn /\ client = "idle" /\ ServiceRestart /\ UNCHANGED <<hostVars, attVars>>
  \/ \E r \in Requests : ServiceOn /\ BadSignatureSent(r) /\ UNCHANGED <<hostVars, attVars>>
  \/ \E r \in Requests : ServiceOn /\ AdminProve(r) /\ UNCHANGED <<hostVars, attVars>>
  \/ \E r \in Requests, n \in Nonces : ServiceOn /\ Prove(r, n) /\ UNCHANGED <<hostVars, attVars>>

Notary ==
  \/ LoadKey /\ UNCHANGED <<hostVars, serviceVars>>
  \/ DrawKey /\ UNCHANGED <<hostVars, serviceVars>>
  \/ WriteKey /\ UNCHANGED <<hostVars, serviceVars>>

Exchange ==
  \/ ConnectNow
  \/ MpcSession /\ UNCHANGED <<hostVars, serviceVars>>
  \/ ClientWrite /\ UNCHANGED <<hostVars, serviceVars>>
  \/ NotaryRead /\ UNCHANGED <<hostVars, serviceVars>>
  \/ NotaryWrite /\ UNCHANGED <<hostVars, serviceVars>>
  \/ ClientRead /\ UNCHANGED <<hostVars, serviceVars>>
  \/ ClientCutOff /\ UNCHANGED <<hostVars, serviceVars>>
  \/ NotaryCutOff /\ UNCHANGED <<hostVars, serviceVars>>

Faults ==
  \/ HostOn /\ BindCommitment /\ HostIdle
  \/ ServerRefuses /\ UNCHANGED <<hostVars, serviceVars>>
  \/ Cut /\ UNCHANGED <<hostVars, serviceVars>>
  \/ NotaryCrash /\ UNCHANGED <<hostVars, serviceVars>>

Results == HostAttested \/ HostAttestFails \/ ServiceAnswers \/ ServiceFails

Next == Host \/ Wizard \/ Service \/ Notary \/ Exchange \/ Results \/ Faults

Spec == Init /\ [][Next]_provingVars

(***************************************************************************)
(* The program goes on whenever it can: RPC calls are bounded in time and  *)
(* in number, and the sockets deliver or break.  Nothing is assumed of     *)
(* users, clients and faults.                                              *)
(***************************************************************************)
FairSpec ==
  Spec /\ WF_provingVars(Host) /\ WF_provingVars(Exchange) /\ WF_provingVars(Results)

-----------------------------------------------------------------------------
(***************************************************************************)
(* The shape of both provers' runs and of the exchange under them.         *)
(***************************************************************************)
ProvingTypeOK == ProverTypeOK /\ AttTypeOK

(***************************************************************************)
(* "Must stay in lockstep": a run of the prover ends, with a response or   *)
(* an exit code, and waits for no message that the notary does not send.   *)
(* What a wallet is asked in between is up to its user.  And every proof   *)
(* that the service has taken a nonce for ends, too.                       *)
(***************************************************************************)
RunsEnd ==
  /\ HostOn /\ stage \notin Idle ~> stage \in Idle
  /\ \A r \in Requests : request[r].stage = "proving" ~> request[r].stage # "proving"

=============================================================================
