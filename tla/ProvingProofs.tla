--------------------------- MODULE ProvingProofs ----------------------------
(***************************************************************************)
(* The proving side, for any command lines, keys, blocks, links and        *)
(* requests: the attestation exchange and the notary's key, the nonces of  *)
(* the service, and the run of the prover from its challenge to a response *)
(* the verifier accepts.  Attestation, service and prover share no         *)
(* variables, and each has an invariant of its own; that of the prover's   *)
(* run is extended at the end by what its preflight has seen.              *)
(***************************************************************************)
EXTENDS Proving, SumProofs

-----------------------------------------------------------------------------
(***************************************************************************)
(* The attestation.  What has been signed was signed with the key that the *)
(* file holds in whole, which nothing replaces any more; and the two ends  *)
(* of a connection stand at matching places.                               *)
(***************************************************************************)
KeyInv ==
  /\ process \in {"off", "writing", "up"}
  /\ keys \in Nat /\ keys >= 2
  /\ key \in 0..(keys - 1) /\ keyFile \in 0..(keys - 1)
  /\ issued \subseteq {keyFile} \ {NoFile, HalfFile}
  /\ process = "up" => keyFile = key /\ key \notin {NoFile, HalfFile}
  /\ process = "writing" => keyFile = HalfFile /\ key \notin {NoFile, HalfFile}
  /\ task \in {"mpc", "read", "sign"} => process = "up"

Requested == Framed("request")
Replied == Framed("attestation")

Cause ==
  \/ faults > 0
  \/ link.framing = "close" /\ link.collapses

EndsInv ==
  /\ client \in {"idle", "mpc", "write", "read", "done", "failed"}
  /\ task \in {"none", "mpc", "read", "sign", "done", "failed"}
  /\ {torn} \subseteq BOOLEAN
  /\ up \in {<<>>, Requested}
  /\ down \in {<<>>, Replied}
  /\ client = "idle" => task = "none" /\ up = <<>> /\ down = <<>> /\ ~torn
  /\ client \in {"mpc", "write"} => up = <<>>
  /\ client \in {"mpc", "write", "read"} => task # "none"
  /\ client = "mpc" => task \in {"mpc", "failed"}
  /\ client = "write" => task \in {"read", "failed"}
  /\ task = "sign" => up = <<>>
  /\ task \in {"mpc", "read", "sign"} => down = <<>>

CauseInv ==
  /\ link \in Links /\ faults \in 0..MaxFaults
  /\ ~Cause =>
       /\ ~torn
       /\ client = "failed" => task = "none"
       /\ task # "failed"
       /\ client = "read" /\ task = "done" => down = Replied

AttInv == KeyInv /\ EndsInv /\ CauseInv

-----------------------------------------------------------------------------
LEMMA Messages ==
  ASSUME NEW message \in {"request", "attestation"}
  PROVE  /\ Framed(message) # <<>> /\ Len(Framed(message)) = 2
         /\ <<>> \o Framed(message) = Framed(message)
         /\ Whole(Framed(message), message) /\ ~Whole(<<>>, message)
         /\ Rest(Framed(message)) = <<>>
<1>. DEFINE f == Framed(message)
<1>1. (\E S : f \in Seq(S)) /\ Len(f) = 2 /\ f # <<>>
  <2>. DEFINE Words == {"length", "end", "request", "attestation"}
  <2>1. message \in Words /\ "length" \in Words /\ "end" \in Words
    OBVIOUS
  <2>. HIDE DEF Words
  <2>2. CASE link.framing = "length"
    <3>1. f = <<"length", message>>
      BY <2>2 DEF Framed
    <3>. QED
      BY <2>1, <3>1
  <2>3. CASE link.framing # "length"
    <3>1. f = <<message, "end">>
      BY <2>3 DEF Framed
    <3>. QED
      BY <2>1, <3>1
  <2>. QED
    BY <2>2, <2>3
<1>. HIDE DEF f
<1>2. <<>> \o f = f
  BY <1>1
<1>3. SubSeq(f, 1, 2) = f
  BY <1>1
<1>4. SubSeq(f, 3, Len(f)) = <<>>
  BY <1>1
<1>5. Len(<<>>) = 0
  OBVIOUS
<1>. QED
  BY <1>1, <1>2, <1>3, <1>4, <1>5 DEF Whole, Rest, f

LEMMA AttInitInv == AttInit => AttInv
<1>. SUFFICES ASSUME AttInit PROVE AttInv
  OBVIOUS
<1>1. KeyInv
  BY DEF AttInit, KeyInv, NoFile, HalfFile
<1>2. EndsInv
  BY DEF AttInit, EndsInv
<1>3. CauseInv
  BY LinksAssumption DEF AttInit, CauseInv
<1>. QED
  BY <1>1, <1>2, <1>3 DEF AttInv

LEMMA KeyStep == ASSUME AttInv, AttSteps PROVE KeyInv'
<1>. USE DEF AttInv, KeyInv, EndsInv, session, notary
<1>1. CASE LoadKey
  BY <1>1 DEF LoadKey
<1>2. CASE DrawKey
  BY <1>2 DEF DrawKey, DrawTo, NoFile, HalfFile
<1>3. CASE WriteKey
  BY <1>3 DEF WriteKey, NoFile, HalfFile
<1>4. CASE Connect
  BY <1>4 DEF Connect
<1>5. CASE MpcSession
  BY <1>5 DEF MpcSession
<1>6. CASE ClientWrite \/ ClientRead \/ ClientCutOff \/ NotaryCutOff \/ ServerRefuses \/ Cut
  BY <1>6 DEF ClientWrite, ClientRead, ClientCutOff, NotaryCutOff, ServerRefuses, Cut
<1>7. CASE NotaryRead
  BY <1>7 DEF NotaryRead
<1>8. CASE NotaryWrite
  BY <1>8 DEF NotaryWrite
<1>9. CASE NotaryCrash
  BY <1>9 DEF NotaryCrash
<1>10. CASE NewSession
  BY <1>10 DEF NewSession
<1>. QED
  BY <1>1, <1>2, <1>3, <1>4, <1>5, <1>6, <1>7, <1>8, <1>9, <1>10 DEF AttSteps

LEMMA EndsStep == ASSUME AttInv, AttSteps PROVE EndsInv'
<1>. USE DEF AttInv, EndsInv, session, notary
<1>1. /\ Requested' = Requested /\ Replied' = Replied
  BY DEF AttSteps, attVars, LoadKey, DrawKey, DrawTo, WriteKey, Connect, MpcSession,
         ClientWrite, NotaryRead, NotaryWrite, ClientRead, ClientCutOff, NotaryCutOff,
         ServerRefuses, Cut, NotaryCrash, NewSession, Requested, Replied, Framed
<1>2. /\ Requested # <<>> /\ Replied # <<>>
      /\ Whole(Requested, "request") /\ ~Whole(<<>>, "request")
      /\ Whole(Replied, "attestation") /\ ~Whole(<<>>, "attestation")
      /\ <<>> \o Requested = Requested /\ <<>> \o Replied = Replied
      /\ Rest(Requested) = <<>> /\ Rest(Replied) = <<>>
  BY Messages DEF Requested, Replied
<1>3. CASE LoadKey \/ DrawKey \/ WriteKey
  BY <1>1, <1>3 DEF LoadKey, DrawKey, DrawTo, WriteKey
<1>4. CASE Connect
  BY <1>1, <1>4 DEF Connect
<1>5. CASE MpcSession
  BY <1>1, <1>5 DEF MpcSession
<1>6. CASE ClientWrite
  <2>1. up' = Requested /\ torn' \in BOOLEAN
    BY <1>2, <1>6 DEF ClientWrite, Request, Requested, Collapsed
  <2>. QED
    BY <1>1, <1>6, <2>1 DEF ClientWrite
<1>7. CASE NotaryRead
  BY <1>1, <1>2, <1>7 DEF NotaryRead
<1>8. CASE NotaryWrite
  <2>1. down' \in {<<>>, Replied}
    BY <1>2, <1>8 DEF NotaryWrite, Replied
  <2>. QED
    BY <1>1, <1>8, <2>1 DEF NotaryWrite
<1>9. CASE ClientRead
  BY <1>1, <1>2, <1>9 DEF ClientRead
<1>10. CASE ClientCutOff
  BY <1>1, <1>10 DEF ClientCutOff
<1>11. CASE NotaryCutOff
  BY <1>1, <1>11 DEF NotaryCutOff
<1>12. CASE ServerRefuses \/ Cut
  BY <1>1, <1>12 DEF ServerRefuses, Cut
<1>13. CASE NotaryCrash
  BY <1>1, <1>13 DEF NotaryCrash
<1>14. CASE NewSession
  BY <1>1, <1>14 DEF NewSession
<1>. QED
  BY <1>3, <1>4, <1>5, <1>6, <1>7, <1>8, <1>9, <1>10, <1>11, <1>12, <1>13, <1>14 DEF AttSteps

LEMMA CauseStep == ASSUME AttInv, AttSteps PROVE CauseInv'
<1>. USE DEF AttInv, EndsInv, CauseInv, session, notary
<1>1. link' = link /\ faults' \in 0..MaxFaults /\ (~Cause' => ~Cause /\ faults' = faults)
      /\ Replied' = Replied
  BY LinksAssumption
     DEF AttSteps, LoadKey, DrawKey, DrawTo, WriteKey, Connect, MpcSession,
         ClientWrite, NotaryRead, NotaryWrite, ClientRead, ClientCutOff, NotaryCutOff,
         ServerRefuses, Cut, NotaryCrash, NewSession, Cause, Replied, Framed
<1>2. /\ Whole(Replied, "attestation")
      /\ <<>> \o Replied = Replied
  BY Messages DEF Replied
<1>. SUFFICES ASSUME ~Cause'
              PROVE  /\ ~torn' /\ (client' = "failed" => task' = "none") /\ task' # "failed"
                     /\ client' = "read" /\ task' = "done" => down' = Replied'
  BY <1>1
<1>3. CASE LoadKey \/ DrawKey \/ WriteKey
  BY <1>1, <1>3 DEF LoadKey, DrawKey, DrawTo, WriteKey
<1>4. CASE Connect
  BY <1>1, <1>4 DEF Connect
<1>5. CASE MpcSession
  BY <1>1, <1>5 DEF MpcSession
<1>6. CASE ClientWrite
  <2>1. link.framing = "close" => ~link.collapses
    BY <1>1 DEF Cause
  <2>2. link.framing # "close" => Request[Len(Request)] = "request"
    BY LinksAssumption DEF Request, Framed
  <2>3. ~torn'
    BY <1>6, <2>1, <2>2 DEF ClientWrite, Collapsed
  <2>4. task # "done"
    BY <1>6, <1>1 DEF ClientWrite
  <2>. QED
    BY <1>1, <1>6, <2>3, <2>4 DEF ClientWrite
<1>7. CASE NotaryRead
  BY <1>1, <1>7 DEF NotaryRead
<1>8. CASE NotaryWrite
  <2>1. down' = Replied
    BY <1>1, <1>2, <1>8 DEF NotaryWrite, Replied
  <2>. QED
    BY <1>1, <1>8, <2>1 DEF NotaryWrite
<1>9. CASE ClientRead
  BY <1>1, <1>9 DEF ClientRead
<1>10. CASE ClientCutOff
  BY <1>1, <1>2, <1>10 DEF ClientCutOff
<1>11. CASE NotaryCutOff
  BY <1>1, <1>11 DEF NotaryCutOff
<1>12. CASE ServerRefuses \/ Cut \/ NotaryCrash
  BY <1>1, <1>12 DEF ServerRefuses, Cut, NotaryCrash, Cause
<1>13. CASE NewSession
  BY <1>1, <1>13 DEF NewSession
<1>. QED
  BY <1>3, <1>4, <1>5, <1>6, <1>7, <1>8, <1>9, <1>10, <1>11, <1>12, <1>13 DEF AttSteps

LEMMA AttIdle == ASSUME AttInv, UNCHANGED attVars PROVE AttInv'
<1>1. UNCHANGED <<link, client, task, up, down, torn, process, key, keyFile, keys, issued, faults>>
  BY DEF attVars, session, notary
<1>. QED
  BY <1>1 DEF AttInv, KeyInv, EndsInv, CauseInv, Cause, Requested, Replied, Framed

(***************************************************************************)
(* A step of the whole either is the exchange's or leaves it alone.        *)
(***************************************************************************)
LEMMA AttOnly == ASSUME [Next]_provingVars PROVE AttSteps \/ UNCHANGED attVars
<1>1. CASE Host \/ Wizard
  BY <1>1 DEF Host, Wizard, HostIdle
<1>2. CASE Service
  BY <1>2 DEF Service
<1>3. CASE Notary \/ Exchange \/ Faults
  BY <1>3 DEF Notary, Exchange, Faults, ConnectNow, AttSteps, HostIdle
<1>4. CASE Results
  BY <1>4 DEF Results, HostAttested, HostAttestFails, ServiceAnswers, ServiceFails, AttSteps
<1>5. CASE UNCHANGED provingVars
  BY <1>5 DEF provingVars
<1>. QED
  BY <1>1, <1>2, <1>3, <1>4, <1>5 DEF Next

LEMMA AttInvariant == Spec => []AttInv
<1>1. Init => AttInv
  BY AttInitInv DEF Init
<1>2. AttInv /\ [Next]_provingVars => AttInv'
  BY AttOnly, AttIdle, KeyStep, EndsStep, CauseStep DEF AttInv
<1>. QED
  BY <1>1, <1>2, PTL DEF Spec

(***************************************************************************)
(* At most one message is in flight each way, and the notary's key is one  *)
(* of those drawn (attest_header_inner, run_notary, load_or_create_key).   *)
(***************************************************************************)
THEOREM AttTypes == Spec => []AttTypeOK
<1>1. ASSUME AttInv PROVE AttTypeOK
  <2>1. Len(Requested) = 2 /\ Len(Replied) = 2 /\ Len(<<>>) = 0
    BY Messages DEF Requested, Replied
  <2>2. Len(up) <= 2 /\ Len(down) <= 2
    <3>1. (up = <<>> \/ up = Requested) /\ (down = <<>> \/ down = Replied)
      BY <1>1 DEF AttInv, EndsInv
    <3>2. (Len(up) = 0 \/ Len(up) = 2) /\ (Len(down) = 0 \/ Len(down) = 2)
      BY <2>1, <3>1, Zenon
    <3>3. ASSUME NEW n, n = 0 \/ n = 2 PROVE n <= 2
      BY <3>3
    <3>. QED
      BY <3>2, <3>3, Zenon
  <2>3. issued \subseteq 2..(keys - 1)
    BY <1>1 DEF AttInv, KeyInv, NoFile, HalfFile
  <2>. QED
    BY <1>1, <2>2, <2>3 DEF AttInv, KeyInv, EndsInv, CauseInv, AttTypeOK
<1>. QED
  BY <1>1, AttInvariant, PTL

(***************************************************************************)
(* "This signing key is the notary's identity": however often the notary   *)
(* dies, also while it writes its key file, all it ever signs is signed    *)
(* with one key (load_or_create_key, run_notary).                          *)
(***************************************************************************)
THEOREM NotaryIdentity == Spec => []OneIdentity
<1>1. ASSUME AttInv PROVE OneIdentity
  <2>1. issued = {} \/ issued = {keyFile}
    BY <1>1 DEF AttInv, KeyInv
  <2>2. Cardinality({}) = 0 /\ Cardinality({keyFile}) = 1
    BY FS_EmptySet, FS_Singleton
  <2>. QED
    BY <2>1, <2>2 DEF OneIdentity
<1>. QED
  BY <1>1, AttInvariant, PTL

(***************************************************************************)
(* "The exchange must survive L4 proxies that collapse a half-close": with *)
(* messages that carry their length, an attestation fails only after a     *)
(* fault (attest_header_inner, run_notary).                                *)
(***************************************************************************)
THEOREM ExchangeSurvives == Spec => []FailsForCause
<1>1. ASSUME AttInv PROVE FailsForCause
  BY <1>1 DEF AttInv, CauseInv, Cause, FailsForCause
<1>. QED
  BY <1>1, AttInvariant, PTL

-----------------------------------------------------------------------------
(***************************************************************************)
(* The service.  A nonce that a proof has spent was handed out, and is in  *)
(* the store no more; a nonce in the store is as old as the store says.    *)
(***************************************************************************)
Spent(r) ==
  \/ Admin /\ request[r].nonce = NoNonce
  \/ /\ request[r].nonce \in DOMAIN drawn \ DOMAIN store
     /\ request[r].at - drawn[request[r].nonce] < NONCE_TTL
     /\ \A s \in Started : request[s].nonce = request[r].nonce => s = r

NonceInv ==
  /\ DOMAIN request = Requests
  /\ \A r \in Requests :
       request[r] = Outcome(request[r].stage, request[r].nonce, request[r].at)
  /\ \A n \in DOMAIN store : n \in DOMAIN drawn /\ drawn[n] = store[n]
  /\ \A r \in Started : Spent(r)

ServiceSteps ==
  \/ GetNonce \/ ServiceTick \/ ServiceRestart
  \/ \E r \in Requests : \/ BadSignatureSent(r) \/ AdminProve(r)
                         \/ RunProof(r, "answered") \/ RunProof(r, "error")
  \/ \E r \in Requests, n \in Nonces : Prove(r, n)

LEMMA PrunedFacts ==
  /\ DOMAIN Pruned(store) \subseteq DOMAIN store
  /\ \A n \in DOMAIN Pruned(store) :
       Pruned(store)[n] = store[n] /\ clock - store[n] < NONCE_TTL
BY DEF Pruned, Restrict

LEMMA NonceStep == ASSUME NonceInv, ServiceSteps PROVE NonceInv'
<1>. USE DEF NonceInv, Started, Spent
<1>1. CASE GetNonce
  <2>1. PICK n \in Nonces \ DOMAIN drawn :
          /\ store' = [m \in DOMAIN Pruned(store) \cup {n} |->
                         IF m = n THEN clock ELSE store[m]]
          /\ drawn' = [m \in DOMAIN drawn \cup {n} |-> IF m = n THEN clock ELSE drawn[m]]
          /\ UNCHANGED <<clock, request>>
    BY <1>1 DEF GetNonce
  <2>2. /\ DOMAIN drawn' = DOMAIN drawn \cup {n}
        /\ \A m \in DOMAIN drawn : drawn'[m] = drawn[m]
        /\ DOMAIN store' \subseteq DOMAIN store \cup {n}
        /\ \A m \in DOMAIN store' : m \in DOMAIN drawn' /\ drawn'[m] = store'[m]
    BY <2>1, PrunedFacts
  <2>3. ASSUME NEW r \in Started PROVE Spent(r)'
    <3>1. Spent(r)
      BY <2>3
    <3>2. request' = request
      BY <2>1
    <3>3. CASE Admin /\ request[r].nonce = NoNonce
      BY <3>2, <3>3
    <3>4. CASE /\ request[r].nonce \in DOMAIN drawn \ DOMAIN store
               /\ request[r].at - drawn[request[r].nonce] < NONCE_TTL
               /\ \A s \in Started : request[s].nonce = request[r].nonce => s = r
      <4>1. /\ request[r].nonce \in DOMAIN drawn' \ DOMAIN store'
            /\ drawn'[request[r].nonce] = drawn[request[r].nonce]
        BY <2>1, <2>2, <3>4
      <4>. QED
        BY <3>2, <3>4, <4>1
    <3>. QED
      BY <3>1, <3>3, <3>4
  <2>. QED
    BY <2>1, <2>2, <2>3
<1>2. CASE ServiceTick
  BY <1>2 DEF ServiceTick
<1>3. ASSUME NEW r \in Requests, NEW stage1 \in {"bad", "proving", "answered", "error"},
             NEW nonce, NEW at,
             request' = [request EXCEPT ![r] = Outcome(stage1, nonce, at)],
             UNCHANGED <<store, drawn>>,
             \/ stage1 = "bad"
             \/ Admin /\ nonce = NoNonce
             \/ r \in Started /\ nonce = request[r].nonce /\ at = request[r].at
      PROVE  NonceInv'
  <2>. DEFINE new == Outcome(stage1, nonce, at)
  <2>1. new.stage = stage1 /\ new.nonce = nonce /\ new.at = at
        /\ new = Outcome(new.stage, new.nonce, new.at)
    BY DEF Outcome
  <2>. HIDE DEF new
  <2>2. /\ DOMAIN request' = Requests /\ request'[r] = new
        /\ \A s \in Requests : s # r => request'[s] = request[s]
    BY <1>3 DEF new
  <2>3. \A q \in Requests :
          request'[q] = Outcome(request'[q].stage, request'[q].nonce, request'[q].at)
    BY <2>1, <2>2
  <2>4. ASSUME NEW q \in Started' PROVE Spent(q)'
    <3>1. CASE q = r /\ Admin /\ nonce = NoNonce
      BY <2>1, <2>2, <3>1
    <3>2. CASE q = r /\ r \in Started /\ nonce = request[r].nonce /\ at = request[r].at
      BY <1>3, <2>1, <2>2, <3>2
    <3>3. CASE q # r
      BY <1>3, <2>1, <2>2, <2>4, <3>3
    <3>. QED
      BY <1>3, <2>1, <2>2, <2>4, <3>1, <3>2, <3>3
  <2>. QED
    BY <1>3, <2>2, <2>3, <2>4
<1>4. ASSUME NEW r \in Requests, BadSignatureSent(r) \/ AdminProve(r) PROVE NonceInv'
  BY <1>3, <1>4 DEF BadSignatureSent, AdminProve, Answer
<1>5. ASSUME NEW r \in Requests, NEW result \in {"answered", "error"}, RunProof(r, result)
      PROVE  NonceInv'
  <2>1. [request[r] EXCEPT !.stage = result] = Outcome(result, request[r].nonce, request[r].at)
    <3>. DEFINE nonce == request[r].nonce
                at == request[r].at
                stage1 == request[r].stage
    <3>1. request[r] = Outcome(stage1, nonce, at)
      OBVIOUS
    <3>. HIDE DEF nonce, at, stage1
    <3>2. [Outcome(stage1, nonce, at) EXCEPT !.stage = result] = Outcome(result, nonce, at)
      BY DEF Outcome
    <3>. QED
      BY <3>1, <3>2, Zenon DEF nonce, at
  <2>2. r \in Started
    BY <1>5 DEF RunProof
  <2>3. /\ request' = [request EXCEPT ![r] =
                          Outcome(result, request[r].nonce, request[r].at)]
        /\ UNCHANGED <<store, drawn>>
    BY <1>5, <2>1 DEF RunProof, Answer
  <2>. QED
    BY <1>3, <2>2, <2>3
<1>6. ASSUME NEW r \in Requests, NEW n \in Nonces, Prove(r, n) PROVE NonceInv'
  <2>1. /\ request[r].stage = "none" /\ drawn' = drawn
        /\ store' = Taken(Pruned(store), n)
        /\ request' = [request EXCEPT ![r] =
             IF n \in DOMAIN Pruned(store) THEN Outcome("proving", n, clock)
                                           ELSE Outcome("bad", NoNonce, clock)]
    BY <1>6 DEF Prove, Answer
  <2>2. /\ DOMAIN store' \subseteq DOMAIN store \ {n}
        /\ \A m \in DOMAIN store' : store'[m] = store[m]
    BY <2>1, PrunedFacts DEF Taken, Restrict
  <2>. DEFINE new == request'[r]
  <2>3. /\ DOMAIN request' = Requests
        /\ \A s \in Requests : s # r => request'[s] = request[s]
        /\ new = Outcome(new.stage, new.nonce, new.at)
        /\ new.stage \in {"bad", "proving"}
        /\ new.stage = "proving" =>
             /\ new.nonce = n /\ new.at = clock
             /\ n \in DOMAIN Pruned(store)
    BY <2>1 DEF Outcome
  <2>4. ASSUME new.stage = "proving"
        PROVE  /\ n \in DOMAIN store /\ n \in DOMAIN drawn
               /\ new.at - drawn[n] < NONCE_TTL
    BY <2>3, <2>4, PrunedFacts
  <2>. HIDE DEF new
  <2>5. ASSUME NEW q \in Started', q # r PROVE Spent(q)'
    <3>1. q \in Started /\ request'[q] = request[q]
      BY <2>3, <2>5
    <3>2. CASE Admin /\ request[q].nonce = NoNonce
      BY <3>1, <3>2
    <3>3. CASE /\ request[q].nonce \in DOMAIN drawn \ DOMAIN store
               /\ request[q].at - drawn[request[q].nonce] < NONCE_TTL
               /\ \A s \in Started : request[s].nonce = request[q].nonce => s = q
      <4>1. r \in Started' => request'[r].nonce # request[q].nonce
        BY <2>3, <2>4, <3>3 DEF new
      <4>2. \A s \in Started' : request'[s].nonce = request[q].nonce => s = q
        BY <2>3, <3>3, <4>1
      <4>. QED
        BY <2>1, <2>2, <3>1, <3>3, <4>2
    <3>. QED
      BY <3>1, <3>2, <3>3
  <2>6. ASSUME r \in Started' PROVE Spent(r)'
    <3>1. new.stage = "proving"
      BY <2>3, <2>6 DEF new
    <3>2. CASE Admin /\ n = NoNonce
      BY <2>3, <3>1, <3>2 DEF new
    <3>3. CASE ~(Admin /\ n = NoNonce)
      <4>1. \A s \in Started : request[s].nonce # n
        BY <2>4, <3>1, <3>3
      <4>2. \A s \in Started' : request'[s].nonce = n => s = r
        BY <2>3, <4>1
      <4>. QED
        BY <2>1, <2>2, <2>3, <2>4, <3>1, <4>2 DEF new
    <3>. QED
      BY <3>2, <3>3
  <2>7. \A q \in Requests :
          request'[q] = Outcome(request'[q].stage, request'[q].nonce, request'[q].at)
    BY <2>3 DEF new
  <2>8. \A m \in DOMAIN store' : m \in DOMAIN drawn' /\ drawn'[m] = store'[m]
    BY <2>1, <2>2
  <2>. QED
    BY <2>3, <2>5, <2>6, <2>7, <2>8
<1>7. CASE ServiceRestart
  <2>1. /\ DOMAIN request' = Requests /\ drawn' = drawn /\ DOMAIN store' = {}
        /\ \A r \in Requests :
             request'[r] = IF request[r].stage = "proving"
                           THEN [request[r] EXCEPT !.stage = "dropped"] ELSE request[r]
    BY <1>7 DEF ServiceRestart
  <2>2. ASSUME NEW r \in Requests
        PROVE  /\ request'[r].nonce = request[r].nonce /\ request'[r].at = request[r].at
               /\ request'[r] = Outcome(request'[r].stage, request[r].nonce, request[r].at)
               /\ r \in Started' => r \in Started
    <3>. DEFINE nonce == request[r].nonce
                at == request[r].at
                stage1 == request[r].stage
    <3>1. request[r] = Outcome(stage1, nonce, at)
      OBVIOUS
    <3>. HIDE DEF nonce, at, stage1
    <3>2. [Outcome(stage1, nonce, at) EXCEPT !.stage = "dropped"] = Outcome("dropped", nonce, at)
      BY DEF Outcome
    <3>3. CASE stage1 = "proving"
      <4>1. request'[r] = Outcome("dropped", nonce, at)
        BY <2>1, <3>1, <3>2, <3>3, Zenon DEF stage1
      <4>2. /\ Outcome("dropped", nonce, at).stage = "dropped"
            /\ Outcome("dropped", nonce, at).nonce = nonce
            /\ Outcome("dropped", nonce, at).at = at
        BY DEF Outcome
      <4>. QED
        BY <3>3, <4>1, <4>2 DEF nonce, at, stage1
    <3>4. CASE stage1 # "proving"
      BY <2>1, <3>1, <3>4 DEF nonce, at, stage1
    <3>. QED
      BY <3>3, <3>4
  <2>3. ASSUME NEW r \in Started' PROVE Spent(r)'
    <3>1. r \in Requests /\ r \in Started
      BY <2>2
    <3>2. Spent(r)
      BY <3>1
    <3>. QED
      BY <2>1, <2>2, <3>1, <3>2
  <2>. QED
    BY <2>1, <2>2, <2>3
<1>. QED
  BY <1>1, <1>2, <1>4, <1>5, <1>6, <1>7 DEF ServiceSteps

LEMMA ServiceOnly == ASSUME [Next]_provingVars PROVE ServiceSteps \/ UNCHANGED serviceVars
<1>1. CASE Host \/ Wizard
  BY <1>1 DEF Host, Wizard, HostIdle
<1>2. CASE Service
  BY <1>2 DEF Service, ServiceSteps
<1>3. CASE Notary \/ Exchange \/ Faults
  BY <1>3 DEF Notary, Exchange, Faults, ConnectNow, HostIdle
<1>4. CASE Results
  BY <1>4 DEF Results, HostAttested, HostAttestFails, ServiceAnswers, ServiceFails, ServiceSteps
<1>5. CASE UNCHANGED provingVars
  BY <1>5 DEF provingVars
<1>. QED
  BY <1>1, <1>2, <1>3, <1>4, <1>5 DEF Next

LEMMA NonceInvariant == Spec => []NonceInv
<1>1. Init => NonceInv
  <2>. SUFFICES ASSUME ServiceInit PROVE NonceInv
    BY DEF Init
  <2>1. store = <<>> /\ \A r \in Requests : request[r] = Outcome("none", NoNonce, 0)
    BY DEF ServiceInit
  <2>2. /\ Outcome("none", NoNonce, 0).stage = "none"
        /\ Outcome("none", NoNonce, 0).nonce = NoNonce /\ Outcome("none", NoNonce, 0).at = 0
    BY DEF Outcome
  <2>3. DOMAIN request = Requests
    BY DEF ServiceInit
  <2>4. Started = {}
    BY <2>1, <2>2 DEF Started
  <2>. QED
    BY <2>1, <2>2, <2>3, <2>4 DEF NonceInv
<1>2. NonceInv /\ UNCHANGED serviceVars => NonceInv'
  BY DEF serviceVars, NonceInv, Spent, Started
<1>3. NonceInv /\ [Next]_provingVars => NonceInv'
  BY <1>2, ServiceOnly, NonceStep
<1>. QED
  BY <1>1, <1>3, PTL DEF Spec

(***************************************************************************)
(* "Anti-replay": of any number of requests, retried, failed or cut short  *)
(* by a restart, one nonce starts one proof at most, within its time       *)
(* (nonce, prove and admin_prove of por_service.rs).                       *)
(***************************************************************************)
THEOREM NonceOnce == Spec => []NonceSpentOnce
<1>1. ASSUME NonceInv PROVE NonceSpentOnce
  BY <1>1 DEF NonceInv, NonceSpentOnce, Spent
<1>. QED
  BY <1>1, NonceInvariant, PTL

-----------------------------------------------------------------------------
(***************************************************************************)
(* The identity of a run.  Nothing is proved before the preflight has      *)
(* looked; a commitment it has seen is the token's for ever; and a run     *)
(* goes on from it only if it is the run's own.                            *)
(***************************************************************************)
Before == {"start", "ask", "pick", "prepare", "prepared", "identify"}

IdentityInv ==
  /\ stage \in Before => bundles = <<>> /\ read = Unread
  /\ stage = "mismatch" => bundles = <<>>
  /\ read \notin {Unread, NoCommitment} =>
       /\ commitment = read
       /\ stage = "mismatch" \/ ~Mismatch(read, secret)

LEMMA ProverOnly ==
  ASSUME [Next]_provingVars
  PROVE  \/ ProverSteps \/ Finalize
         \/ UNCHANGED <<stage, secret, read, commitment, bundles>>
<1>. USE DEF proverVars, identity, output, file
<1>1. CASE Host
  BY <1>1 DEF Host, ProverSteps
<1>2. CASE Wizard
  BY <1>2 DEF Wizard, EnsureAccount, SwitchAccount, SignMessage, SignAgain
<1>3. CASE Service \/ Notary \/ Exchange \/ Faults
  BY <1>3 DEF Service, Notary, Exchange, Faults, ConnectNow, hostVars, ProverSteps
<1>4. CASE Results
  BY <1>4 DEF Results, HostAttested, HostAttestFails, ServiceAnswers, ServiceFails,
              ProverSteps, hostVars
<1>5. CASE UNCHANGED provingVars
  BY <1>5 DEF provingVars, hostVars
<1>. QED
  BY <1>1, <1>2, <1>3, <1>4, <1>5 DEF Next

LEMMA IdentityStep == ASSUME IdentityInv, ProverSteps \/ Finalize PROVE IdentityInv'
<1>. USE DEF IdentityInv, Before, Goto, Stop, identity, output, file
<1>1. CASE BuildWalletSet \/ BadWalletSet \/ GetChallenge \/ NotIssued
  BY <1>1 DEF BuildWalletSet, BadWalletSet, GetChallenge, NotIssued, Mismatch
<1>2. CASE PickBlock
  BY <1>2 DEF PickBlock
<1>3. CASE IdentifyUnread
  BY <1>3 DEF IdentifyUnread, Identify, AfterIdentity
<1>4. CASE IdentifyRead
  <2>1. ~Mismatch(commitment, secret') /\ read' = commitment /\ commitment' = commitment
        /\ bundles' = bundles /\ stage' \in {"check", "fetch"}
    BY <1>4 DEF IdentifyRead, Identify, AfterIdentity
  <2>. QED
    BY <2>1 DEF Mismatch, Commits
<1>5. CASE IdentityMismatch
  BY <1>5 DEF IdentityMismatch, Identify
<1>6. CASE BindCommitment
  BY <1>6 DEF BindCommitment, Mismatch, Ended
<1>7. CASE Fetch
  <2>1. PICK block :
          stage' = IF ~CanProve(block) THEN "poor"
                   ELSE IF stage = "fetch" THEN "attest"
                   ELSE IF Len(fetched) + 1 < Len(challenge.blocks) THEN "prepare"
                   ELSE "prepared"
    BY <1>7 DEF Fetch
  <2>2. /\ stage' \in {"poor", "attest", "prepare", "prepared"}
        /\ stage = "fetch" => stage' \in {"poor", "attest"}
    BY <2>1
  <2>3. /\ stage \in {"prepare", "fetch"}
        /\ UNCHANGED <<secret, read, commitment, bundles>>
    BY <1>7 DEF Fetch
  <2>. QED
    BY <2>2, <2>3 DEF Mismatch
<1>8. CASE FetchFails \/ CheckSigs \/ BadSigs
  BY <1>8 DEF FetchFails, CheckSigs, BadSigs, Mismatch
<1>9. CASE NoNotary \/ AttestBlock \/ AttestFails
  BY <1>9 DEF NoNotary, AttestBlock, AttestFails, AttestWith, Mismatch
<1>10. CASE ProveBlock
  BY <1>10 DEF ProveBlock, AfterBlock, Mismatch
<1>11. CASE GuestRefuses \/ JournalShows \/ WriteResponse \/ SubmitVerified \/ SubmitFails
  BY <1>11 DEF GuestRefuses, JournalShows, WriteResponse, SubmitVerified, SubmitFails, Mismatch
<1>12. CASE Finalize
  BY <1>12 DEF Finalize, Mismatch
<1>. QED
  BY <1>1, <1>2, <1>3, <1>4, <1>5, <1>6, <1>7, <1>8, <1>9, <1>10, <1>11, <1>12
     DEF ProverSteps

LEMMA IdentityInvariant == Spec => []IdentityInv
<1>1. Init => IdentityInv
  BY DEF Init, ProverInit, IdentityInv
<1>2. IdentityInv /\ UNCHANGED <<stage, secret, read, commitment, bundles>> => IdentityInv'
  BY DEF IdentityInv, Mismatch
<1>3. IdentityInv /\ [Next]_provingVars => IdentityInv'
  BY <1>2, ProverOnly, IdentityStep
<1>. QED
  BY <1>1, <1>3, PTL DEF Spec

(***************************************************************************)
(* "Saves minutes of proving a bundle that recordValidation would reject": *)
(* whoever binds the token and whenever, what a run proves in vain was     *)
(* begun before the token was bound, or with the gateway unreadable        *)
(* (preflight_identity_binding).                                           *)
(***************************************************************************)
THEOREM NoneWasted == Spec => []NoWastedProof
<1>1. ASSUME IdentityInv PROVE NoWastedProof
  BY <1>1 DEF IdentityInv, NoWastedProof, Mismatch
<1>. QED
  BY <1>1, IdentityInvariant, PTL

-----------------------------------------------------------------------------
(***************************************************************************)
(* The run of the prover.  Its lists are never out of step with its stage; *)
(* each block fetched, and each proof, stands at the place of its block in *)
(* the challenge; and what it signs with, or was signed for it, belongs to *)
(* the challenge that it holds.                                            *)
(***************************************************************************)
Sequence(s) == \E S : s \in Seq(S)

Blocks == Len(challenge.blocks)

ChallengeOk ==
  /\ challenge.blocks \in Seq(DOMAIN StateAt) /\ Blocks >= 1
  /\ IsSupported(challenge.chainId)
  /\ run.mode # "legacy" => challenge \in Challenges

Early == {"start", "ask", "pick"}
Working == {"check", "attest", "prove"}
Challenged == Working \cup {"prepare", "prepared", "identify", "fetch", "answer", "submit"}

StageInv ==
  /\ run \in Runs /\ stage \in Idle \cup Early \cup Challenged
  /\ stage \in {"prepare", "prepared", "check"} => run.mode = "browser"
  /\ stage \in {"ask", "identify", "submit"} => run.mode # "legacy"
  /\ stage = "pick" => run.mode = "legacy"
  /\ stage = "fetch" => run.mode # "browser"
  /\ stage \notin {"start", "panicked"} \/ fetched # <<>> => ListOk(run)
  /\ stage \in Challenged \/ fetched # <<>> => ChallengeOk

CountInv ==
  /\ Sequence(fetched) /\ Sequence(bundles)
  /\ Len(bundles) <= Len(fetched)
  /\ fetched # <<>> => Len(fetched) <= Blocks
  /\ stage \in Early => fetched = <<>>
  /\ stage \in {"prepare", "prepared", "identify"} => bundles = <<>>
  /\ stage = "prepare" => Len(fetched) < Blocks
  /\ stage = "identify" /\ run.mode # "browser" => fetched = <<>>
  /\ stage \in Working \cup {"prepared", "identify"} /\ run.mode = "browser" => Len(fetched) = Blocks
  /\ stage = "fetch" => Len(fetched) = Len(bundles) /\ Len(fetched) < Blocks
  /\ stage \in Working => Len(bundles) < Len(fetched)
  /\ stage \in Working /\ run.mode # "browser" => Len(fetched) = Len(bundles) + 1
  /\ stage \in {"answer", "submit"} => Len(bundles) = Blocks

AnswerInv ==
  response # None =>
    /\ stage \in {"submit", "done", "not verified", "panicked"}
    /\ fetched # <<>> /\ Len(bundles) = Blocks
    /\ run.mode # "legacy"
    /\ response = [bundles |-> bundles, ownerSig |-> OwnerSign]

Shown(i) == IF run.notary THEN Presented(challenge.blocks[i]) ELSE NoPresentation

Proves(bundle, i) ==
  /\ bundle.genuine
  /\ bundle.presentation = Shown(i)
  /\ bundle.journal.blockHash = Keccak(HeaderAt(challenge.blocks[i]))
  /\ bundle.journal.blockNumber = challenge.blocks[i]
  /\ bundle.journal.threshold = challenge.threshold
  /\ bundle.journal.chainId = challenge.chainId
  /\ bundle.journal.debug = run.debug
  /\ bundle.journal.nonce = challenge.nonce
  /\ bundle.journal.agentId = Keccak(challenge.agent)

WorkInv ==
  /\ \A i \in 1..Len(fetched) : fetched[i].header = HeaderAt(challenge.blocks[i])
  /\ \A i \in 1..Len(bundles) : Proves(bundles[i], i)
  /\ stage = "prove" => presentation = Shown(Len(bundles) + 1)

SecretInv ==
  stage \in Working \cup {"fetch"} \/ bundles # <<>> =>
    (run.mode # "legacy" => token = TokenId /\ secret = AgentSecret)

Signature(k, digest) == [sig |-> Sign(k, digest), v |-> 27]

SignedFor(i) ==
  \E k \in Accounts : /\ signed[i] = Signature(k, Message(i).digest)
                      /\ slips = 0 => k = Message(i).by

WizardInv ==
  /\ account \in Accounts /\ slips \in Nat
  /\ stage \in Early \cup {"prepare"} => signed = <<>> /\ ~checked
  /\ stage = "prepared" =>
       /\ Sequence(signed) /\ Len(signed) <= Total
       /\ \A i \in 1..Len(signed) : SignedFor(i)
       /\ checked => Len(signed) < Total /\ (slips = 0 => account = Asked.by)

IdentitySigned ==
  \E k \in Accounts : /\ sigs.identity = Signature(k, IdentityDigest(TokenId))
                      /\ slips = 0 => k = RegistryOwner

SigsInv ==
  run.mode = "browser" /\ (stage \in Working \cup {"identify"} \/ bundles # <<>>) =>
    /\ sigs.owner = Signature(RegistryOwner, ChallengeDigest(challenge))
    /\ run.secret = NoSecret => IdentitySigned

RunInv == StageInv /\ CountInv /\ AnswerInv /\ WorkInv /\ SecretInv /\ WizardInv /\ SigsInv

-----------------------------------------------------------------------------
LEMMA SequenceFacts ==
  ASSUME NEW s, Sequence(s)
  PROVE  Len(s) \in Nat /\ (Len(s) = 0 <=> s = <<>>)
  BY DEF Sequence

LEMMA EmptyFacts == Sequence(<<>>) /\ Len(<<>>) = 0
  BY DEF Sequence

LEMMA AppendFacts ==
  ASSUME NEW s, NEW e, Sequence(s)
  PROVE  /\ Sequence(Append(s, e)) /\ Append(s, e) # <<>>
         /\ Len(s) \in Nat /\ Len(Append(s, e)) = Len(s) + 1
         /\ \A i \in 1..Len(s) : Append(s, e)[i] = s[i]
         /\ Append(s, e)[Len(s) + 1] = e
<1>1. PICK S : s \in Seq(S)
  BY DEF Sequence
<1>2. s \in Seq(S \cup {e})
  BY <1>1
<1>. QED
  BY <1>2 DEF Sequence

LEMMA RunOnly ==
  ASSUME [Next]_provingVars
  PROVE  \/ ProverSteps /\ UNCHANGED wizardVars
         \/ EnsureAccount \/ SwitchAccount \/ SignMessage \/ Finalize \/ SignAgain
         \/ UNCHANGED hostVars
<1>1. CASE Host
  BY <1>1 DEF Host, HostIdle, ProverSteps
<1>2. CASE Wizard
  BY <1>2 DEF Wizard
<1>3. CASE Service \/ Notary \/ Exchange \/ Faults
  BY <1>3 DEF Service, Notary, Exchange, Faults, ConnectNow, HostIdle, ProverSteps
<1>4. CASE Results
  BY <1>4 DEF Results, HostAttested, HostAttestFails, ServiceAnswers, ServiceFails, ProverSteps
<1>5. CASE UNCHANGED provingVars
  BY <1>5 DEF provingVars
<1>. QED
  BY <1>1, <1>2, <1>3, <1>4, <1>5 DEF Next

(***************************************************************************)
(* What an invariant says of the run, its challenge and its signatures     *)
(* changes only with them.                                                 *)
(***************************************************************************)
LEMMA ChallengeFrame ==
  ASSUME UNCHANGED <<run, challenge>>
  PROVE  /\ ChallengeOk' <=> ChallengeOk
         /\ Blocks' = Blocks /\ TokenId' = TokenId
         /\ \A i : Shown(i)' = Shown(i)
         /\ \A bundle, i : Proves(bundle, i)' <=> Proves(bundle, i)
<1>1. (ChallengeOk' <=> ChallengeOk) /\ Blocks' = Blocks /\ TokenId' = TokenId
  BY DEF ChallengeOk, Blocks, TokenId
<1>2. \A i : Shown(i)' = Shown(i)
  BY DEF Shown, Presented
<1>. QED
  BY <1>1, <1>2 DEF Proves

LEMMA SignatureFrame ==
  ASSUME UNCHANGED file
  PROVE  AgentSecret' = AgentSecret /\ OwnerSign' = OwnerSign
<1>1. SecretCli' = SecretCli
  BY ChallengeFrame DEF file, SecretCli, OwnerIdentityKey, FirstKey
<1>. QED
  BY <1>1 DEF file, AgentSecret, SecretFromSig, OwnerSign, FirstListed

LEMMA WizardFrame ==
  ASSUME UNCHANGED <<run, challenge, fetched>>
  PROVE  Total' = Total /\ \A i : Message(i)' = Message(i)
<1>1. TokenId' = TokenId /\ BlockCount' = BlockCount
  BY ChallengeFrame DEF BlockCount
<1>. QED
  BY <1>1 DEF Total, Message

(***************************************************************************)
(* The steps that only go on to another stage, to the end mostly.          *)
(***************************************************************************)
Moves ==
  \/ BuildWalletSet \/ BadWalletSet \/ NotIssued \/ FetchFails \/ CheckSigs \/ BadSigs
  \/ AttestFails \/ GuestRefuses \/ JournalShows \/ SubmitVerified \/ SubmitFails

Kept == UNCHANGED <<file, identity, commitment, fetched, output>>

LEMMA MovesFacts ==
  ASSUME Moves
  PROVE  /\ Kept
         /\ stage \in {"ask", "prepare", "fetch", "check", "attest", "prove", "submit"}
              => \/ stage' \in Ended /\ (stage = "submit" =>
                                           stage' \in {"done", "not verified", "panicked"})
                 \/ stage = "check" /\ stage' = "attest"
         /\ \/ stage = "start" /\ ListOk(run)
                 /\ stage' = IF run.mode = "legacy" THEN "pick" ELSE "ask"
            \/ stage = "start" /\ stage' = "panicked"
            \/ stage \in {"ask", "prepare", "fetch", "check", "attest", "prove", "submit"}
<1>1. CASE BuildWalletSet \/ BadWalletSet
  BY <1>1 DEF BuildWalletSet, BadWalletSet, Stop, Goto, Kept
<1>2. CASE NotIssued \/ FetchFails \/ CheckSigs \/ BadSigs
  BY <1>2 DEF NotIssued, FetchFails, CheckSigs, BadSigs, Stop, Goto, Kept, Ended
<1>3. CASE AttestFails \/ GuestRefuses \/ JournalShows
  BY <1>3 DEF AttestFails, GuestRefuses, JournalShows, Stop, Goto, Kept, Ended
<1>4. CASE SubmitVerified \/ SubmitFails
  BY <1>4 DEF SubmitVerified, SubmitFails, Stop, Goto, Kept, Ended
<1>. QED
  BY <1>1, <1>2, <1>3, <1>4 DEF Moves

LEMMA MovesStep == ASSUME RunInv, Moves, UNCHANGED wizardVars PROVE RunInv'
<1>. USE DEF Ended, Idle, Early, Working, Challenged
<1>1. /\ UNCHANGED <<run, challenge, fetched, bundles, response, presentation, token, secret, sigs>>
      /\ UNCHANGED file
      /\ UNCHANGED <<account, checked, signed, slips>>
  BY MovesFacts DEF Kept, file, output, identity, wizardVars
<1>2. /\ ChallengeOk' <=> ChallengeOk
      /\ Blocks' = Blocks /\ TokenId' = TokenId
      /\ \A i : Shown(i)' = Shown(i)
      /\ \A bundle, i : Proves(bundle, i)' <=> Proves(bundle, i)
      /\ AgentSecret' = AgentSecret /\ OwnerSign' = OwnerSign
  BY <1>1, ChallengeFrame, SignatureFrame
<1>3. StageInv'
  BY <1>1, <1>2, MovesFacts DEF RunInv, StageInv
<1>4. CountInv'
  BY <1>1, <1>2, MovesFacts DEF RunInv, StageInv, CountInv
<1>5. AnswerInv'
  BY <1>1, <1>2, MovesFacts DEF RunInv, AnswerInv
<1>6. WorkInv'
  BY <1>1, <1>2, MovesFacts DEF RunInv, WorkInv
<1>7. SecretInv'
  BY <1>1, <1>2, MovesFacts DEF RunInv, SecretInv
<1>8. WizardInv'
  BY <1>1, <1>2, MovesFacts DEF RunInv, WizardInv
<1>9. SigsInv'
  BY <1>1, <1>2, MovesFacts DEF RunInv, SigsInv, IdentitySigned
<1>. QED
  BY <1>3, <1>4, <1>5, <1>6, <1>7, <1>8, <1>9 DEF RunInv

LEMMA BlockCountIsThree == BLOCK_COUNT = 3
  BY DEF BLOCK_COUNT

LEMMA NothingYet ==
  ASSUME CountInv, AnswerInv,
         stage \in Early \cup {"prepare", "prepared", "identify"}
  PROVE  bundles = <<>> /\ Len(bundles) = 0 /\ Len(fetched) \in Nat /\ response = None
<1>1. Len(bundles) \in Nat /\ Len(fetched) \in Nat /\ Len(<<>>) = 0
      /\ (Len(bundles) = 0 <=> bundles = <<>>)
  BY SequenceFacts, EmptyFacts DEF CountInv
<1>2. response = None
  BY DEF AnswerInv, Early
<1>. QED
  BY <1>1, <1>2 DEF CountInv, Early

LEMMA GetChallengeStep == ASSUME RunInv, GetChallenge, UNCHANGED wizardVars PROVE RunInv'
<1>. USE DEF Ended, Idle, Early, Working, Challenged
<1>1. PICK ch \in Challenges :
        /\ challenge' = ch
        /\ stage' = IF ~IsSupported(ch.chainId) THEN "panicked"
                    ELSE IF run.mode = "browser" THEN "prepare" ELSE "identify"
  BY DEF GetChallenge, Goto
<1>2. /\ stage = "ask" /\ run.mode # "legacy" /\ ListOk(run) /\ fetched = <<>>
      /\ bundles = <<>> /\ Len(bundles) = 0 /\ Len(fetched) = 0 /\ response = None
      /\ run \in Runs
  BY NothingYet, EmptyFacts DEF GetChallenge, RunInv, StageInv, CountInv
<1>3. /\ UNCHANGED <<run, fetched, bundles, response, presentation>>
      /\ UNCHANGED <<account, checked, signed, slips>>
  BY DEF GetChallenge, output, wizardVars
<1>4. stage' # "panicked" => ChallengeOk' /\ Blocks' \in Nat /\ Blocks' > 0
  <2>1. ch.blocks \in Seq(DOMAIN StateAt) /\ Len(ch.blocks) = 3
    BY ChallengeAssumption, BlockCountIsThree
  <2>. QED
    BY <1>1, <1>2, <1>3, <2>1 DEF ChallengeOk, Blocks
<1>5. StageInv'
  BY <1>1, <1>2, <1>3, <1>4 DEF StageInv
<1>6. CountInv'
  BY <1>1, <1>2, <1>3, <1>4, EmptyFacts DEF CountInv
<1>7. AnswerInv' /\ SecretInv' /\ SigsInv'
  <2>1. stage' \in {"panicked", "prepare", "identify"} /\ (stage' = "identify" => run'.mode # "browser")
    BY <1>1, <1>3
  <2>. QED
    BY <1>2, <1>3, <2>1 DEF AnswerInv, SecretInv, SigsInv, IdentitySigned
<1>8. WorkInv'
  BY <1>1, <1>2, <1>3 DEF WorkInv
<1>9. WizardInv'
  BY <1>1, <1>2, <1>3 DEF RunInv, WizardInv
<1>. QED
  BY <1>5, <1>6, <1>7, <1>8, <1>9 DEF RunInv

LEMMA PickBlockStep == ASSUME RunInv, PickBlock, UNCHANGED wizardVars PROVE RunInv'
<1>. USE DEF Ended, Idle, Early, Working, Challenged
<1>1. PICK n \in DOMAIN StateAt, ch \in Challenges :
        /\ IsSupported(ch.chainId)
        /\ challenge' = [ch EXCEPT !.nonce = "zeros", !.agent = "por-demo-agent",
                                   !.blocks = <<n>>]
  BY DEF PickBlock
<1>2. /\ stage = "pick" /\ run.mode = "legacy" /\ ListOk(run) /\ fetched = <<>>
      /\ bundles = <<>> /\ Len(bundles) = 0 /\ Len(fetched) = 0 /\ response = None
      /\ run \in Runs
  BY NothingYet, EmptyFacts DEF PickBlock, RunInv, StageInv, CountInv
<1>3. /\ UNCHANGED <<run, fetched, bundles, response, presentation>>
      /\ UNCHANGED <<account, checked, signed, slips>>
      /\ stage' = "fetch"
  BY DEF PickBlock, output, wizardVars, Goto
<1>4. ChallengeOk' /\ Blocks' = 1
  <2>1. "blocks" \in DOMAIN ch /\ "chainId" \in DOMAIN ch
    BY ChallengeAssumption
  <2>2. challenge'.blocks = <<n>> /\ challenge'.chainId = ch.chainId
    BY <1>1, <2>1
  <2>. QED
    BY <1>1, <1>2, <1>3, <2>2 DEF ChallengeOk, Blocks
<1>5. StageInv'
  BY <1>2, <1>3, <1>4 DEF StageInv
<1>6. CountInv'
  BY <1>2, <1>3, <1>4, EmptyFacts DEF CountInv
<1>7. AnswerInv' /\ SecretInv' /\ SigsInv'
  BY <1>2, <1>3 DEF AnswerInv, SecretInv, SigsInv, IdentitySigned
<1>8. WorkInv'
  BY <1>2, <1>3 DEF WorkInv
<1>9. WizardInv'
  BY <1>2, <1>3 DEF RunInv, WizardInv
<1>. QED
  BY <1>5, <1>6, <1>7, <1>8, <1>9 DEF RunInv

(***************************************************************************)
(* The preflight: the identity is set from the run, its challenge and what *)
(* was signed.                                                             *)
(***************************************************************************)
LEMMA IdentifyStep ==
  ASSUME RunInv, IdentifyUnread \/ IdentifyRead \/ IdentityMismatch, UNCHANGED wizardVars
  PROVE  RunInv'
<1>. USE DEF Ended, Idle, Early, Working, Challenged
<1>1. /\ stage = "identify" /\ stage' \in {AfterIdentity, "mismatch"}
      /\ token' = TokenId /\ secret' = AgentSecret
      /\ UNCHANGED file /\ UNCHANGED <<run, challenge, sigs>>
      /\ UNCHANGED <<fetched, bundles, response, presentation>>
      /\ UNCHANGED <<account, checked, signed, slips>>
  BY DEF IdentifyUnread, IdentifyRead, IdentityMismatch, Identify, Goto, file, output,
         wizardVars
<1>2. /\ ChallengeOk' <=> ChallengeOk
      /\ Blocks' = Blocks /\ TokenId' = TokenId
      /\ \A bundle, i : Proves(bundle, i)' <=> Proves(bundle, i)
      /\ AgentSecret' = AgentSecret
  BY <1>1, ChallengeFrame, SignatureFrame
<1>3. /\ run.mode # "legacy" /\ ListOk(run) /\ ChallengeOk
      /\ bundles = <<>> /\ Len(bundles) = 0 /\ response = None
      /\ Blocks \in Nat /\ Blocks > 0 /\ Len(fetched) \in Nat
  BY <1>1, NothingYet DEF RunInv, StageInv, ChallengeOk, Blocks
<1>4. \/ stage' = "mismatch"
      \/ stage' = "check" /\ run.mode = "browser" /\ Len(fetched) = Blocks
      \/ stage' = "fetch" /\ run.mode # "browser" /\ Len(fetched) = 0
  BY <1>1, EmptyFacts DEF AfterIdentity, RunInv, CountInv
<1>5. StageInv'
  BY <1>1, <1>2, <1>3, <1>4 DEF RunInv, StageInv
<1>6. CountInv'
  BY <1>1, <1>2, <1>3, <1>4 DEF RunInv, CountInv
<1>7. AnswerInv' /\ SecretInv'
  BY <1>1, <1>2, <1>3, <1>4 DEF AnswerInv, SecretInv
<1>8. WorkInv'
  BY <1>1, <1>2, <1>4 DEF RunInv, WorkInv
<1>9. WizardInv'
  BY <1>1, <1>4 DEF RunInv, WizardInv
<1>10. SigsInv'
  BY <1>1, <1>2, <1>3, <1>4 DEF RunInv, SigsInv, IdentitySigned
<1>. QED
  BY <1>5, <1>6, <1>7, <1>8, <1>9, <1>10 DEF RunInv

LEMMA BindStep == ASSUME RunInv, BindCommitment, UNCHANGED wizardVars PROVE RunInv'
<1>1. /\ UNCHANGED <<stage, run, challenge, sigs, token, secret>> /\ UNCHANGED file
      /\ UNCHANGED <<fetched, bundles, response, presentation>>
      /\ UNCHANGED <<account, checked, signed, slips>>
  BY DEF BindCommitment, file, identity, output, wizardVars
<1>2. /\ ChallengeOk' <=> ChallengeOk
      /\ Blocks' = Blocks /\ TokenId' = TokenId
      /\ \A i : Shown(i)' = Shown(i)
      /\ \A bundle, i : Proves(bundle, i)' <=> Proves(bundle, i)
      /\ AgentSecret' = AgentSecret /\ OwnerSign' = OwnerSign
      /\ Total' = Total /\ (\A i : Message(i)' = Message(i))
  BY <1>1, ChallengeFrame, SignatureFrame, WizardFrame
<1>3. StageInv' /\ CountInv' /\ AnswerInv'
  BY <1>1, <1>2 DEF RunInv, StageInv, CountInv, AnswerInv
<1>4. WorkInv' /\ SecretInv'
  BY <1>1, <1>2 DEF RunInv, WorkInv, SecretInv
<1>5. WizardInv' /\ SigsInv'
  BY <1>1, <1>2 DEF RunInv, WizardInv, SigsInv, IdentitySigned, SignedFor, Asked
<1>. QED
  BY <1>3, <1>4, <1>5 DEF RunInv

(***************************************************************************)
(* The next block, with the header of its place in the challenge.          *)
(***************************************************************************)
LEMMA FetchStep == ASSUME RunInv, Fetch, UNCHANGED wizardVars PROVE RunInv'
<1>. USE DEF Ended, Idle, Early, Working, Challenged
<1>. DEFINE n == Len(fetched) + 1
<1>1. PICK block :
        /\ block.header = HeaderAt(challenge.blocks[n])
        /\ fetched' = Append(fetched, block)
        /\ stage' = IF ~CanProve(block) THEN "poor"
                    ELSE IF stage = "fetch" THEN "attest"
                    ELSE IF n < Len(challenge.blocks) THEN "prepare"
                    ELSE "prepared"
  BY DEF Fetch, FetchBlock, Goto
<1>2. /\ stage \in {"prepare", "fetch"}
      /\ UNCHANGED <<run, challenge, sigs, token, secret>> /\ UNCHANGED file
      /\ UNCHANGED <<bundles, response, presentation>>
      /\ UNCHANGED <<account, checked, signed, slips>>
  BY DEF Fetch, file, identity, output, wizardVars
<1>3. /\ ChallengeOk' <=> ChallengeOk
      /\ Blocks' = Blocks /\ TokenId' = TokenId
      /\ \A bundle, i : Proves(bundle, i)' <=> Proves(bundle, i)
      /\ AgentSecret' = AgentSecret
  BY <1>2, ChallengeFrame, SignatureFrame
<1>4. /\ Sequence(fetched') /\ fetched' # <<>> /\ n - 1 \in Nat /\ Len(fetched') = n
      /\ \A i \in 1..(n - 1) : fetched'[i] = fetched[i]
      /\ fetched'[n] = block
  BY <1>1, AppendFacts DEF RunInv, CountInv
<1>5. Blocks \in Nat /\ n <= Blocks /\ Len(bundles) \in Nat /\ Len(bundles) < n
      /\ ChallengeOk /\ ListOk(run)
  <2>1. ChallengeOk /\ ListOk(run)
    BY <1>2 DEF RunInv, StageInv
  <2>2. Blocks \in Nat /\ Len(fetched) \in Nat /\ Len(bundles) \in Nat
    BY <2>1, SequenceFacts DEF RunInv, CountInv, ChallengeOk, Blocks
  <2>3. Len(bundles) <= Len(fetched) /\ Len(fetched) < Blocks
    BY <1>2 DEF RunInv, CountInv
  <2>. QED
    BY <2>1, <2>2, <2>3
<1>6. \/ stage' = "poor"
      \/ stage = "fetch" /\ stage' = "attest" /\ Len(bundles) + 1 = n
      \/ /\ stage = "prepare" /\ run.mode = "browser" /\ bundles = <<>>
         /\ \/ stage' = "prepare" /\ n < Blocks
            \/ stage' = "prepared" /\ n = Blocks
  <2>1. /\ stage = "fetch" => Len(fetched) = Len(bundles)
        /\ stage = "prepare" => run.mode = "browser" /\ bundles = <<>>
    BY DEF RunInv, StageInv, CountInv
  <2>2. n < Len(challenge.blocks) \/ n = Blocks
    BY <1>4, <1>5 DEF Blocks
  <2>3. CASE stage = "fetch"
    BY <1>1, <1>4, <2>1, <2>3
  <2>4. CASE stage = "prepare"
    BY <1>1, <2>1, <2>2, <2>4 DEF Blocks
  <2>. QED
    BY <1>2, <2>3, <2>4
<1>. HIDE DEF n
<1>7. StageInv'
  BY <1>2, <1>3, <1>5, <1>6 DEF RunInv, StageInv
<1>8. CountInv'
  <2>1. Sequence(bundles) /\ Len(fetched') = n /\ (stage = "fetch" => run.mode # "browser")
    BY <1>4 DEF RunInv, CountInv, StageInv
  <2>. QED
    BY <1>2, <1>3, <1>4, <1>5, <1>6, <2>1 DEF CountInv
<1>9. AnswerInv'
  BY <1>2 DEF RunInv, AnswerInv
<1>10. WorkInv'
  <2>1. ASSUME NEW i \in 1..Len(fetched')
        PROVE  fetched'[i].header = HeaderAt(challenge.blocks[i])
    <3>1. CASE i = n
      BY <1>1, <1>4, <3>1 DEF n
    <3>2. CASE i # n
      <4>1. i \in 1..(n - 1)
        BY <1>4, <3>2
      <4>. QED
        BY <1>4, <4>1 DEF RunInv, WorkInv, n
    <3>. QED
      BY <3>1, <3>2
  <2>. QED
    BY <1>2, <1>3, <1>6, <2>1 DEF RunInv, WorkInv
<1>11. SecretInv'
  BY <1>2, <1>3, <1>6 DEF RunInv, SecretInv
<1>12. WizardInv'
  <2>1. CASE stage' = "prepared"
    <3>1. signed = <<>> /\ ~checked
      BY <1>6, <2>1 DEF RunInv, WizardInv
    <3>2. Total' \in Nat
      BY <1>4 DEF Total, BlockCount
    <3>. QED
      BY <1>2, <2>1, <3>1, <3>2, EmptyFacts DEF RunInv, WizardInv
  <2>2. CASE stage' # "prepared"
    BY <1>2, <1>6, <2>2 DEF RunInv, WizardInv
  <2>. QED
    BY <2>1, <2>2
<1>13. SigsInv'
  BY <1>2, <1>3, <1>6 DEF RunInv, SigsInv, IdentitySigned, StageInv
<1>. QED
  BY <1>7, <1>8, <1>9, <1>10, <1>11, <1>12, <1>13 DEF RunInv

LEMMA AttestStep ==
  ASSUME RunInv, NoNotary \/ AttestBlock, UNCHANGED wizardVars PROVE RunInv'
<1>. USE DEF Ended, Idle, Early, Working, Challenged
<1>1. /\ stage = "attest" /\ stage' = "prove"
      /\ UNCHANGED <<run, challenge, sigs, token, secret>> /\ UNCHANGED file
      /\ UNCHANGED <<fetched, bundles, response>>
      /\ UNCHANGED <<account, checked, signed, slips>>
  BY DEF NoNotary, AttestBlock, AttestWith, Goto, file, identity, wizardVars
<1>2. /\ ChallengeOk' <=> ChallengeOk
      /\ Blocks' = Blocks /\ TokenId' = TokenId
      /\ \A i : Shown(i)' = Shown(i)
      /\ \A bundle, i : Proves(bundle, i)' <=> Proves(bundle, i)
      /\ AgentSecret' = AgentSecret
  BY <1>1, ChallengeFrame, SignatureFrame
<1>3. StageInv' /\ CountInv' /\ AnswerInv'
  BY <1>1, <1>2 DEF RunInv, StageInv, CountInv, AnswerInv
<1>4. presentation' = Shown(Len(bundles) + 1)
  <2>1. Len(bundles) \in Nat /\ Len(fetched) \in Nat /\ Len(bundles) < Len(fetched)
    BY <1>1, SequenceFacts DEF RunInv, CountInv
  <2>2. Current.header = HeaderAt(challenge.blocks[Len(bundles) + 1])
    BY <2>1 DEF RunInv, WorkInv, Current
  <2>3. Current.header.number = challenge.blocks[Len(bundles) + 1]
    BY <2>2 DEF HeaderAt
  <2>4. \/ ~run.notary /\ presentation' = NoPresentation
        \/ run.notary /\ presentation' = Presented(Current.header.number)
    BY DEF NoNotary, AttestBlock, AttestWith
  <2>. QED
    BY <2>3, <2>4 DEF Shown
<1>5. WorkInv' /\ SecretInv'
  BY <1>1, <1>2, <1>4 DEF RunInv, WorkInv, SecretInv
<1>6. WizardInv' /\ SigsInv'
  BY <1>1, <1>2 DEF RunInv, WizardInv, SigsInv, IdentitySigned
<1>. QED
  BY <1>3, <1>5, <1>6 DEF RunInv

LEMMA ProveStep == ASSUME RunInv, ProveBlock, UNCHANGED wizardVars PROVE RunInv'
<1>. USE DEF Ended, Idle, Early, Working, Challenged
<1>. DEFINE n == Len(bundles) + 1
            bundle == Bundle(WitnessOf(Current))
<1>1. /\ stage = "prove" /\ stage' = AfterBlock(n)
      /\ bundles' = Append(bundles, bundle)
      /\ UNCHANGED <<run, challenge, sigs, token, secret>> /\ UNCHANGED file
      /\ UNCHANGED <<fetched, presentation, response>>
      /\ UNCHANGED <<account, checked, signed, slips>>
  BY DEF ProveBlock, Goto, file, identity, wizardVars
<1>2. /\ ChallengeOk' <=> ChallengeOk
      /\ Blocks' = Blocks /\ TokenId' = TokenId
      /\ \A b, i : Proves(b, i)' <=> Proves(b, i)
      /\ AgentSecret' = AgentSecret
  BY <1>1, ChallengeFrame, SignatureFrame
<1>3. /\ Sequence(bundles') /\ bundles' # <<>> /\ n - 1 \in Nat /\ Len(bundles') = n
      /\ \A i \in 1..(n - 1) : bundles'[i] = bundles[i]
      /\ bundles'[n] = bundle
  <2>1. Sequence(bundles)
    BY DEF RunInv, CountInv
  <2>. QED
    BY <1>1, <2>1, AppendFacts
<1>4. /\ Len(fetched) \in Nat /\ Blocks \in Nat /\ n <= Len(fetched) /\ Len(fetched) <= Blocks
      /\ ChallengeOk /\ ListOk(run) /\ fetched # <<>>
      /\ IF run.mode = "browser" THEN Len(fetched) = Blocks ELSE Len(fetched) = n
  BY <1>1, <1>3, SequenceFacts DEF RunInv, StageInv, CountInv, ChallengeOk, Blocks
<1>5. /\ stage' \in {"answer", "check", "fetch"}
      /\ stage' = "answer" => n = Blocks
      /\ stage' # "answer" => n < Blocks
      /\ stage' = "check" <=> n # Blocks /\ run.mode = "browser"
      /\ stage' = "fetch" <=> n # Blocks /\ run.mode # "browser"
  BY <1>1, <1>3, <1>4 DEF AfterBlock, Blocks
<1>6. Proves(bundle, n)
  <2>1. Current.header = HeaderAt(challenge.blocks[n])
    BY <1>3, <1>4 DEF RunInv, WorkInv, Current
  <2>2. presentation = Shown(n)
    BY <1>1 DEF RunInv, WorkInv
  <2>3. Current.header.number = challenge.blocks[n]
    BY <2>1 DEF HeaderAt
  <2>. HIDE DEF n
  <2>4. /\ bundle.genuine /\ bundle.presentation = presentation
        /\ bundle.journal = JournalOf(WitnessOf(Current))
    BY DEF Bundle
  <2>5. /\ WitnessOf(Current).header = Current.header
        /\ WitnessOf(Current).threshold = challenge.threshold
        /\ WitnessOf(Current).chainId = challenge.chainId
        /\ WitnessOf(Current).debug = run.debug
        /\ WitnessOf(Current).nonce = challenge.nonce
        /\ WitnessOf(Current).agentId = Keccak(challenge.agent)
    BY DEF WitnessOf
  <2>. HIDE DEF bundle
  <2>6. /\ bundle.journal.blockHash = Keccak(Current.header)
        /\ bundle.journal.blockNumber = Current.header.number
        /\ bundle.journal.threshold = challenge.threshold
        /\ bundle.journal.chainId = challenge.chainId
        /\ bundle.journal.debug = run.debug
        /\ bundle.journal.nonce = challenge.nonce
        /\ bundle.journal.agentId = Keccak(challenge.agent)
    BY <2>4, <2>5 DEF JournalOf
  <2>. QED
    BY <2>1, <2>2, <2>3, <2>4, <2>6 DEF Proves
<1>. HIDE DEF n, bundle
<1>7. StageInv'
  BY <1>1, <1>2, <1>4, <1>5 DEF RunInv, StageInv
<1>8. CountInv'
  BY <1>1, <1>2, <1>3, <1>4, <1>5 DEF RunInv, CountInv
<1>9. AnswerInv'
  BY <1>1 DEF RunInv, AnswerInv
<1>10. WorkInv'
  <2>1. ASSUME NEW i \in 1..Len(bundles') PROVE Proves(bundles'[i], i)
    <3>1. CASE i = n
      BY <1>3, <1>6, <3>1
    <3>2. CASE i # n
      <4>1. i \in 1..(n - 1) /\ i \in 1..Len(bundles)
        BY <1>3, <3>2 DEF n
      <4>. QED
        BY <1>3, <4>1 DEF RunInv, WorkInv
    <3>. QED
      BY <3>1, <3>2
  <2>. QED
    BY <1>1, <1>2, <1>5, <2>1 DEF RunInv, WorkInv
<1>11. SecretInv'
  BY <1>1, <1>2, <1>5 DEF RunInv, SecretInv
<1>12. WizardInv'
  BY <1>1, <1>5 DEF RunInv, WizardInv
<1>13. SigsInv'
  BY <1>1, <1>2 DEF RunInv, SigsInv, IdentitySigned
<1>. QED
  BY <1>7, <1>8, <1>9, <1>10, <1>11, <1>12, <1>13 DEF RunInv

LEMMA WriteStep == ASSUME RunInv, WriteResponse, UNCHANGED wizardVars PROVE RunInv'
<1>. USE DEF Ended, Idle, Early, Working, Challenged
<1>1. /\ stage = "answer" /\ stage' = IF run.mode = "connected" THEN "submit" ELSE "done"
      /\ response' = IF run.mode = "legacy" THEN None
                     ELSE [bundles |-> bundles, ownerSig |-> OwnerSign]
      /\ UNCHANGED <<run, challenge, sigs, token, secret>> /\ UNCHANGED file
      /\ UNCHANGED <<fetched, bundles, presentation>>
      /\ UNCHANGED <<account, checked, signed, slips>>
  BY DEF WriteResponse, Goto, file, identity, wizardVars
<1>2. /\ ChallengeOk' <=> ChallengeOk
      /\ Blocks' = Blocks /\ TokenId' = TokenId
      /\ \A bundle, i : Proves(bundle, i)' <=> Proves(bundle, i)
      /\ AgentSecret' = AgentSecret /\ OwnerSign' = OwnerSign
  BY <1>1, ChallengeFrame, SignatureFrame
<1>3. StageInv'
  BY <1>1, <1>2 DEF RunInv, StageInv
<1>4. CountInv'
  BY <1>1, <1>2 DEF RunInv, CountInv
<1>5. AnswerInv'
  <2>1. Len(bundles) = Blocks /\ Blocks \in Nat /\ Blocks >= 1
        /\ Len(bundles) <= Len(fetched)
    BY <1>1 DEF RunInv, StageInv, CountInv, ChallengeOk, Blocks
  <2>2. fetched # <<>>
    BY <2>1, EmptyFacts
  <2>. QED
    BY <1>1, <1>2, <2>1, <2>2 DEF AnswerInv
<1>6. WorkInv' /\ SecretInv'
  BY <1>1, <1>2 DEF RunInv, WorkInv, SecretInv
<1>7. WizardInv' /\ SigsInv'
  BY <1>1, <1>2 DEF RunInv, WizardInv, SigsInv, IdentitySigned
<1>. QED
  BY <1>3, <1>4, <1>5, <1>6, <1>7 DEF RunInv

(***************************************************************************)
(* The wizard: what a message is signed with is what ensureAccount saw,    *)
(* unless the account slipped in between.                                  *)
(***************************************************************************)
LEMMA WizardStep ==
  ASSUME RunInv, EnsureAccount \/ SwitchAccount \/ SignMessage \/ SignAgain PROVE RunInv'
<1>1. /\ stage = "prepared" /\ UNCHANGED <<stage, run, challenge, sigs, token, secret>>
      /\ UNCHANGED file
      /\ UNCHANGED <<fetched, bundles, response, presentation>>
  BY DEF EnsureAccount, SwitchAccount, SignMessage, SignAgain, proverVars, file, identity, output
<1>2. /\ ChallengeOk' <=> ChallengeOk
      /\ Blocks' = Blocks /\ TokenId' = TokenId
      /\ \A i : Shown(i)' = Shown(i)
      /\ \A bundle, i : Proves(bundle, i)' <=> Proves(bundle, i)
      /\ AgentSecret' = AgentSecret /\ OwnerSign' = OwnerSign
      /\ Total' = Total /\ (\A i : Message(i)' = Message(i))
  BY <1>1, ChallengeFrame, SignatureFrame, WizardFrame
<1>3. StageInv' /\ CountInv' /\ AnswerInv'
  BY <1>1, <1>2 DEF RunInv, StageInv, CountInv, AnswerInv
<1>4. WorkInv' /\ SecretInv'
  BY <1>1, <1>2 DEF RunInv, WorkInv, SecretInv
<1>5. SigsInv'
  BY <1>1, NothingYet DEF RunInv, SigsInv, IdentitySigned, Working
<1>6. /\ account \in Accounts /\ slips \in Nat
      /\ Sequence(signed) /\ Len(signed) \in Nat /\ Len(signed) <= Total /\ Total \in Nat
      /\ \A i \in 1..Len(signed) : SignedFor(i)
      /\ checked => Len(signed) < Total /\ (slips = 0 => account = Asked.by)
  <2>1. Len(fetched) \in Nat
    BY SequenceFacts DEF RunInv, CountInv
  <2>2. Total \in Nat
    BY <2>1 DEF Total, BlockCount
  <2>3. /\ account \in Accounts /\ slips \in Nat
        /\ Sequence(signed) /\ Len(signed) <= Total
        /\ checked => Len(signed) < Total /\ (slips = 0 => account = Asked.by)
        /\ \A i \in 1..Len(signed) : SignedFor(i)
    BY <1>1 DEF RunInv, WizardInv
  <2>. QED
    BY <2>2, <2>3, SequenceFacts
<1>7. WizardInv'
  <2>1. CASE EnsureAccount
    <3>1. /\ UNCHANGED <<account, signed, slips>> /\ checked' = TRUE
          /\ Len(signed) < Total /\ account = Asked.by
      BY <2>1 DEF EnsureAccount
    <3>2. \A i \in 1..Len(signed) : SignedFor(i)'
      BY <1>2, <1>6, <3>1 DEF SignedFor
    <3>. QED
      BY <1>1, <1>2, <1>6, <3>1, <3>2 DEF WizardInv, Asked, Early
  <2>2. CASE SwitchAccount
    <3>1. /\ account' \in Accounts /\ UNCHANGED <<checked, signed>>
          /\ \/ checked /\ slips' = slips + 1
             \/ ~checked /\ slips' = slips
          /\ Len(signed) < Total
      BY <2>2 DEF SwitchAccount
    <3>2. slips' \in Nat /\ (slips' = 0 => slips = 0 /\ ~checked)
      BY <1>6, <3>1
    <3>3. \A i \in 1..Len(signed) : SignedFor(i)'
      BY <1>2, <1>6, <3>1, <3>2 DEF SignedFor
    <3>. QED
      BY <1>1, <1>2, <1>6, <3>1, <3>2, <3>3 DEF WizardInv, Asked, Early
  <2>3. CASE SignMessage
    <3>. DEFINE n == Len(signed) + 1
                w == Signature(account, Message(n).digest)
    <3>1. /\ checked /\ signed' = Append(signed, w)
          /\ checked' = FALSE /\ UNCHANGED <<account, slips>>
      BY <2>3 DEF SignMessage, Signature, Asked
    <3>2. /\ Sequence(signed') /\ Len(signed') = n /\ n \in Nat /\ n <= Total
          /\ \A i \in 1..(n - 1) : signed'[i] = signed[i]
          /\ signed'[n] = w
          /\ slips = 0 => account = Message(n).by
      BY <1>6, <3>1, AppendFacts DEF Asked
    <3>. HIDE DEF w
    <3>3. ASSUME NEW i \in 1..Len(signed')
          PROVE  SignedFor(i)'
      <4>1. CASE i = n
        BY <1>2, <1>6, <3>1, <3>2, <4>1 DEF w, SignedFor
      <4>2. CASE i # n
        <5>1. i \in 1..(n - 1) /\ i \in 1..Len(signed)
          BY <1>6, <3>2, <4>2
        <5>. QED
          BY <1>2, <1>6, <3>1, <3>2, <5>1 DEF SignedFor
      <4>. QED
        BY <4>1, <4>2
    <3>. QED
      BY <1>1, <1>2, <1>6, <3>1, <3>2, <3>3 DEF WizardInv, Early
  <2>4. CASE SignAgain
    <3>1. signed' = <<>> /\ ~checked /\ UNCHANGED <<account, checked, slips>>
      BY <1>6, <2>4 DEF SignAgain
    <3>. QED
      BY <1>1, <1>2, <1>6, <3>1, EmptyFacts DEF WizardInv, Early
  <2>. QED
    BY <2>1, <2>2, <2>3, <2>4
<1>. QED
  BY <1>3, <1>4, <1>5, <1>7 DEF RunInv

LEMMA FinalizeStep == ASSUME RunInv, Finalize PROVE RunInv'
<1>. USE DEF Ended, Idle, Early, Working, Challenged
<1>. DEFINE o == BlockCount + 1
<1>1. /\ stage = "prepared" /\ stage' = "identify"
      /\ Len(signed) = Total /\ OwnerRecovers(signed[o])
      /\ sigs'.owner = signed[o]
      /\ run.secret = NoSecret => sigs'.identity = signed[Total]
      /\ UNCHANGED <<run, challenge, token, secret>>
      /\ UNCHANGED <<fetched, bundles, response, presentation>>
      /\ UNCHANGED <<account, checked, signed, slips>>
  BY DEF Finalize, Goto, identity, output, wizardVars
<1>2. /\ ChallengeOk' <=> ChallengeOk
      /\ Blocks' = Blocks /\ TokenId' = TokenId
      /\ \A bundle, i : Proves(bundle, i)' <=> Proves(bundle, i)
  BY <1>1, ChallengeFrame
<1>3. /\ bundles = <<>> /\ response = None /\ run.mode = "browser" /\ Len(fetched) = Blocks
      /\ Len(fetched) \in Nat /\ BlockCount \in Nat
  BY <1>1, NothingYet DEF RunInv, StageInv, CountInv, BlockCount
<1>4. StageInv'
  BY <1>1, <1>2, <1>3 DEF RunInv, StageInv
<1>5. CountInv'
  BY <1>1, <1>2, <1>3 DEF RunInv, CountInv
<1>6. AnswerInv' /\ SecretInv'
  BY <1>1, <1>3 DEF AnswerInv, SecretInv
<1>7. WorkInv'
  BY <1>1, <1>2 DEF RunInv, WorkInv
<1>8. WizardInv'
  BY <1>1 DEF RunInv, WizardInv
<1>9. \A i \in 1..Len(signed) : SignedFor(i)
  BY <1>1 DEF RunInv, WizardInv
<1>10. sigs'.owner = Signature(RegistryOwner, ChallengeDigest(challenge))
  <2>1. o \in 1..Len(signed)
    BY <1>1, <1>3 DEF Total
  <2>2. PICK k \in Accounts : signed[o] = Signature(k, Message(o).digest)
    BY <1>9, <2>1 DEF SignedFor
  <2>3. Message(o).digest = ChallengeDigest(challenge)
    BY <1>3 DEF Message
  <2>4. Signature(k, Message(o).digest).sig.signer = k
    BY DEF Signature, Sign
  <2>. QED
    BY <1>1, <2>2, <2>3, <2>4 DEF OwnerRecovers
<1>11. ASSUME run.secret = NoSecret PROVE IdentitySigned'
  <2>1. Total = BlockCount + 2 /\ Total \in 1..Len(signed)
    BY <1>1, <1>3, <1>11 DEF Total
  <2>2. PICK k \in Accounts : /\ signed[Total] = Signature(k, Message(Total).digest)
                              /\ slips = 0 => k = Message(Total).by
    BY <1>9, <2>1 DEF SignedFor
  <2>3. Message(Total) = [by |-> RegistryOwner, digest |-> IdentityDigest(TokenId)]
    BY <1>3, <2>1 DEF Message
  <2>. QED
    BY <1>1, <1>2, <1>11, <2>2, <2>3 DEF IdentitySigned
<1>12. SigsInv'
  BY <1>1, <1>2, <1>10, <1>11 DEF SigsInv
<1>. QED
  BY <1>4, <1>5, <1>6, <1>7, <1>8, <1>12 DEF RunInv

LEMMA RunIdle == ASSUME RunInv, UNCHANGED hostVars PROVE RunInv'
<1>1. /\ UNCHANGED <<stage, run, challenge, sigs, token, secret>> /\ UNCHANGED file
      /\ UNCHANGED <<fetched, bundles, response, presentation>>
      /\ UNCHANGED <<account, checked, signed, slips>>
  BY DEF hostVars, proverVars, wizardVars, file, identity, output
<1>2. /\ ChallengeOk' <=> ChallengeOk
      /\ Blocks' = Blocks /\ TokenId' = TokenId
      /\ \A i : Shown(i)' = Shown(i)
      /\ \A bundle, i : Proves(bundle, i)' <=> Proves(bundle, i)
      /\ AgentSecret' = AgentSecret /\ OwnerSign' = OwnerSign
      /\ Total' = Total /\ (\A i : Message(i)' = Message(i))
  BY <1>1, ChallengeFrame, SignatureFrame, WizardFrame
<1>3. StageInv' /\ CountInv' /\ AnswerInv'
  BY <1>1, <1>2 DEF RunInv, StageInv, CountInv, AnswerInv
<1>4. WorkInv' /\ SecretInv'
  BY <1>1, <1>2 DEF RunInv, WorkInv, SecretInv
<1>5. WizardInv' /\ SigsInv'
  BY <1>1, <1>2 DEF RunInv, WizardInv, SigsInv, IdentitySigned, SignedFor, Asked
<1>. QED
  BY <1>3, <1>4, <1>5 DEF RunInv

LEMMA RunInit == Init => RunInv
<1>. SUFFICES ASSUME ProverInit, WizardInit PROVE RunInv
  BY DEF Init
<1>. USE DEF Ended, Idle, Early, Working, Challenged
<1>1. /\ run \in Runs /\ stage = "start" /\ fetched = <<>> /\ bundles = <<>>
      /\ response = None /\ account \in Accounts /\ signed = <<>> /\ ~checked /\ slips = 0
  BY DEF ProverInit, WizardInit
<1>2. StageInv /\ CountInv
  BY <1>1, EmptyFacts DEF StageInv, CountInv
<1>3. AnswerInv /\ SecretInv /\ SigsInv /\ WizardInv
  BY <1>1 DEF AnswerInv, SecretInv, SigsInv, IdentitySigned, WizardInv
<1>4. WorkInv
  BY <1>1, EmptyFacts DEF WorkInv
<1>. QED
  BY <1>2, <1>3, <1>4 DEF RunInv

LEMMA RunStep == RunInv /\ [Next]_provingVars => RunInv'
<1>. SUFFICES ASSUME RunInv, [Next]_provingVars PROVE RunInv'
  OBVIOUS
<1>1. CASE ProverSteps /\ UNCHANGED wizardVars
  BY <1>1, MovesStep, GetChallengeStep, PickBlockStep, IdentifyStep, BindStep, FetchStep,
     AttestStep, ProveStep, WriteStep DEF ProverSteps, Moves
<1>2. CASE EnsureAccount \/ SwitchAccount \/ SignMessage \/ Finalize \/ SignAgain
  BY <1>2, WizardStep, FinalizeStep
<1>3. CASE UNCHANGED hostVars
  BY <1>3, RunIdle
<1>. QED
  BY <1>1, <1>2, <1>3, RunOnly

LEMMA RunInvariant == Spec => []RunInv
  BY RunInit, RunStep, PTL DEF Spec

-----------------------------------------------------------------------------
LEMMA ResponseFields ==
  ASSUME RunInv, response # None
  PROVE  /\ response.bundles = bundles /\ response.ownerSig = OwnerSign
         /\ Len(bundles) = Blocks /\ fetched # <<>> /\ run.mode # "legacy"
<1>. DEFINE written == [bundles |-> bundles, ownerSig |-> OwnerSign]
<1>1. /\ response = written
      /\ Len(bundles) = Blocks /\ fetched # <<>> /\ run.mode # "legacy"
  BY Zenon DEF RunInv, AnswerInv
<1>2. written.bundles = bundles /\ written.ownerSig = OwnerSign
  OBVIOUS
<1>. HIDE DEF written
<1>. QED
  BY <1>1, <1>2

(***************************************************************************)
(* Fetched blocks, proofs and response stay in step with the stage, in     *)
(* every mode, and so do the two ends of an attestation (the loops of main *)
(* and run_prepare, and attest_header with run_notary).                    *)
(***************************************************************************)
THEOREM ProvingTypes == Spec => []ProvingTypeOK
<1>1. ASSUME RunInv PROVE ProverTypeOK
  <2>1. run \in Runs /\ stage \in Idle \cup Early \cup Challenged
    BY <1>1 DEF RunInv, StageInv
  <2>2. stage \in Idle \cup {"start", "ask", "pick", "identify", "fetch", "prepare",
                             "check", "attest", "prove", "answer", "submit"}
    BY <2>1 DEF Idle, Early, Challenged, Working
  <2>3. response # None => Len(response.bundles) = Len(challenge.blocks)
    BY <1>1, ResponseFields DEF Blocks
  <2>. QED
    BY <1>1, <2>1, <2>2, <2>3 DEF RunInv, CountInv, ProverTypeOK, Blocks, Working
<1>. QED
  BY <1>1, RunInvariant, AttTypes, PTL DEF ProvingTypeOK

-----------------------------------------------------------------------------
LEMMA Listed1 ==
  ASSUME RunInv, ListOk(run), ~run.debug
  PROVE  FirstListed = run.listed[1] /\ FirstListed # NoKey
<1>1. run.listed \in Seq(Nat) /\ run.listed # <<>>
  BY RunAssumption DEF RunInv, StageInv, ListOk
<1>2. run.listed[1] \in Nat
  BY <1>1
<1>. QED
  BY <1>2, KeyAssumption DEF FirstListed

-----------------------------------------------------------------------------
LEMMA HostChosen ==
  ASSUME NEW id, IsSupported(id)
  PROVE  /\ (CHOOSE h \in ExpectedHost(id) : TRUE) \in ExpectedHost(id)
         /\ ExpectedHost(id) \subseteq {c.host : c \in CHAINS}
<1>1. PICK c : c \in ChainSpec(id)
  BY DEF IsSupported
<1>2. c.host \in ExpectedHost(id)
  BY <1>1 DEF ExpectedHost
<1>3. (CHOOSE h \in ExpectedHost(id) : TRUE) \in ExpectedHost(id)
  BY <1>2
<1>4. ExpectedHost(id) \subseteq {d.host : d \in CHAINS}
  BY DEF ExpectedHost, ChainSpec
<1>. QED
  BY <1>3, <1>4

(***************************************************************************)
(* One bundle: the verifier takes it exactly if it is no demo's and has    *)
(* its attestation.                                                        *)
(***************************************************************************)
LEMMA BundleTaken ==
  ASSUME ChallengeOk, run \in Runs, run.mode # "legacy",
         NEW bundle, NEW i \in 1..Blocks, Proves(bundle, i)
  PROVE  BundleOk(bundle, challenge, Policy(FALSE, challenge),
                  ExpectedHost(challenge.chainId), FALSE)
           <=> ~run.debug /\ run.notary
<1>. DEFINE n == challenge.blocks[i]
            p == Presented(n)
            hosts == ExpectedHost(challenge.chainId)
<1>1. n \in DOMAIN StateAt /\ IsSupported(challenge.chainId) /\ challenge.threshold \in Nat
  <2>1. challenge.blocks \in Seq(DOMAIN StateAt) /\ challenge \in Challenges
    BY DEF ChallengeOk
  <2>2. challenge.threshold \in 0..(U128 - 1) /\ U128 \in Nat
    BY <2>1, ChallengeAssumption, WidthAssumption
  <2>. QED
    BY <2>1, <2>2 DEF ChallengeOk, Blocks
<1>2. /\ p.authentic = TRUE /\ p.server \in hosts /\ p.header = HeaderAt(n)
      /\ p # NoPresentation
  <2>1. p = [authentic |-> TRUE, server |-> CHOOSE h \in hosts : TRUE, header |-> HeaderAt(n)]
    BY DEF Presented
  <2>2. (CHOOSE h \in hosts : TRUE) \in hosts /\ hosts \subseteq {c.host : c \in CHAINS}
    BY <1>1, HostChosen
  <2>. HIDE DEF p, n, hosts
  <2>3. p \in [authentic : {TRUE}, server : {c.host : c \in CHAINS},
               header : {HeaderAt(m) : m \in DOMAIN StateAt}]
    BY <1>1, <2>1, <2>2
  <2>4. p # NoPresentation
    BY <2>3, PresentationAssumption
  <2>. QED
    BY <2>1, <2>2, <2>4
<1>. HIDE DEF p
<1>3. HeaderAt(n).number = n
  BY DEF HeaderAt
<1>4. bundle.presentation = (IF run.notary THEN p ELSE NoPresentation)
  BY DEF Proves, Shown, p
<1>5. BindsChallenge(bundle.journal, challenge)
  BY DEF Proves, BindsChallenge
<1>6. CheckPolicy(bundle.journal, Policy(FALSE, challenge)) <=> ~run.debug
  <2>1. /\ Policy(FALSE, challenge).allowDebug = FALSE
        /\ Policy(FALSE, challenge).requiredThreshold = challenge.threshold
        /\ Policy(FALSE, challenge).expectedChainId = challenge.chainId
    BY DEF Policy
  <2>2. /\ bundle.journal.debug = run.debug /\ bundle.journal.threshold = challenge.threshold
        /\ bundle.journal.chainId = challenge.chainId
    BY DEF Proves
  <2>3. run.debug \in BOOLEAN /\ challenge.threshold >= challenge.threshold
    BY <1>1, RunAssumption
  <2>. HIDE DEF Policy
  <2>. QED
    BY <2>1, <2>2, <2>3 DEF CheckPolicy
<1>7. Attested(p, bundle.journal, hosts)
  <2>1. bundle.journal.blockHash = Keccak(HeaderAt(n)) /\ bundle.journal.blockNumber = n
    BY DEF Proves
  <2>. HIDE DEF n, hosts
  <2>. QED
    BY <1>2, <1>3, <2>1 DEF Attested, HeaderBlockNumber
<1>8. bundle.genuine
  BY DEF Proves
<1>. HIDE DEF n, hosts
<1>. QED
  BY <1>2, <1>4, <1>5, <1>6, <1>7, <1>8 DEF BundleOk, hosts

(***************************************************************************)
(* The owner's signature: in a browser the owner's by --finalize's own     *)
(* check, else that of the owner key or the first key listed.              *)
(***************************************************************************)
SignedByOwner ==
  IF run.mode = "browser" THEN TRUE
  ELSE IF run.ownerKey # NoKey THEN run.ownerKey = RegistryOwner
  ELSE FirstListed = RegistryOwner

\* recover reads a wallet's signature of the challenge, 27 taken off its last byte.
LEMMA WalletSigns ==
  ASSUME NEW k, NEW digest, sigs.owner = Signature(k, digest), run.mode = "browser"
  PROVE  OwnerSign = Sign(k, digest)
<1>. DEFINE s == Sign(k, digest)
            w == [sig |-> s, v |-> 27]
<1>1. sigs.owner = w
  BY DEF Signature
<1>. HIDE DEF s
<1>2. NormSig(w) = [sig |-> s, v |-> 0]
  BY DEF NormSig
<1>3. Recovered(NormSig(w)) = s
  BY <1>2 DEF Recovered
<1>4. OwnerSign = s
  BY <1>1, <1>3 DEF OwnerSign
<1>. QED
  BY <1>4 DEF s

LEMMA OwnerTaken ==
  ASSUME RunInv, bundles # <<>>, run.mode # "legacy", challenge \in Challenges,
         ListOk(run), ~run.debug
  PROVE  RecoversTo(OwnerSign, ChallengeDigest(challenge), RegistryOwner) <=> SignedByOwner
<1>. DEFINE digest == ChallengeDigest(challenge)
<1>1. BadSignature # Sign(RegistryOwner, digest)
  BY KeyAssumption
<1>. HIDE DEF digest
<1>2. \A k : RecoversTo(Sign(k, digest), digest, RegistryOwner) <=> k = RegistryOwner
  <2>. SUFFICES ASSUME NEW k
                PROVE  RecoversTo(Sign(k, digest), digest, RegistryOwner)
                         <=> k = RegistryOwner
    OBVIOUS
  <2>1. Sign(k, digest).signer = k /\ Sign(k, digest).digest = digest
    BY DEF Sign
  <2>. QED
    BY <1>1, <2>1 DEF RecoversTo
<1>3. CASE run.mode = "browser"
  <2>1. sigs.owner = Signature(RegistryOwner, digest)
    BY <1>3 DEF RunInv, SigsInv, digest
  <2>2. OwnerSign = Sign(RegistryOwner, digest)
    BY <1>3, <2>1, WalletSigns
  <2>. QED
    BY <1>2, <1>3, <2>2 DEF SignedByOwner, digest
<1>4. CASE run.mode # "browser"
  <2>1. FirstListed # NoKey
    BY Listed1
  <2>2. OwnerSign = IF run.ownerKey # NoKey THEN Sign(run.ownerKey, digest)
                    ELSE Sign(FirstListed, digest)
    BY <1>4, <2>1 DEF OwnerSign, digest
  <2>. QED
    BY <1>2, <1>4, <2>2 DEF SignedByOwner, digest
<1>. QED
  BY <1>3, <1>4

(***************************************************************************)
(* The prover and the verifier agree: what the modes of main.rs put        *)
(* together, over any number of accounts and whatever chain, block and     *)
(* threshold are challenged, verify_submission accepts exactly if it is no *)
(* demo's, has its attestations and is signed by the registered owner.     *)
(***************************************************************************)
THEOREM ResponsesVerify == Spec => []ResponseVerifies
<1>1. ASSUME RunInv PROVE ResponseVerifies
  <2>. SUFFICES ASSUME response # None
                PROVE  Accepted(response) <=> ~run.debug /\ run.notary /\ SignedByOwner
    BY DEF ResponseVerifies, SignedByOwner
  <2>. DEFINE policy == Policy(FALSE, challenge)
              hosts == ExpectedHost(challenge.chainId)
  <2>1. /\ response.bundles = bundles /\ response.ownerSig = OwnerSign
        /\ Len(bundles) = Blocks /\ fetched # <<>> /\ run.mode # "legacy"
    BY <1>1, ResponseFields
  <2>2. ChallengeOk /\ ListOk(run) /\ run \in Runs /\ challenge \in Challenges
    BY <1>1, <2>1 DEF RunInv, StageInv, ChallengeOk
  <2>3. Blocks = 3 /\ BLOCK_COUNT = 3
    BY <2>2, ChallengeAssumption, BlockCountIsThree DEF Blocks
  <2>4. bundles # <<>> /\ DOMAIN bundles = 1..3
    BY <1>1, <2>1, <2>3, EmptyFacts DEF RunInv, CountInv, Sequence
  <2>5. \A i \in 1..3 : Proves(bundles[i], i)
    BY <1>1, <2>1, <2>3 DEF RunInv, WorkInv
  <2>6. \A i \in 1..3 : BundleOk(bundles[i], challenge, policy, hosts, FALSE)
                          <=> ~run.debug /\ run.notary
    BY <2>1, <2>2, <2>3, <2>5, BundleTaken
  <2>7. SameBlocks([i \in 1..BLOCK_COUNT |-> bundles[i].journal.blockNumber], challenge.blocks)
    <3>. DEFINE p == [i \in 1..3 |-> i]
                numbers == [i \in 1..3 |-> bundles[i].journal.blockNumber]
    <3>1. \A i \in 1..3 : numbers[i] = challenge.blocks[i]
      BY <2>5 DEF Proves
    <3>2. /\ p \in [1..3 -> 1..3]
          /\ \A i, j \in 1..3 : p[i] = p[j] => i = j
          /\ \A i \in 1..3 : numbers[i] = challenge.blocks[p[i]]
      BY <3>1
    <3>. HIDE DEF p, numbers
    <3>3. SameBlocks(numbers, challenge.blocks)
      BY <2>3, <3>2 DEF SameBlocks
    <3>. QED
      BY <2>3, <3>3 DEF numbers
  <2>8. ~run.debug => (OwnerOk(Snapshot(challenge, RegistryOwner), response, FALSE)
                         <=> SignedByOwner)
    <3>1. /\ Snapshot(challenge, RegistryOwner).challenge = challenge
          /\ Snapshot(challenge, RegistryOwner).owner = RegistryOwner
      BY DEF Snapshot
    <3>. QED
      BY <1>1, <2>1, <2>2, <2>4, <3>1, KeyAssumption, OwnerTaken DEF OwnerOk
  <2>9. Snapshot(challenge, RegistryOwner).challenge = challenge
    BY DEF Snapshot
  <2>. HIDE DEF policy, hosts
  <2>10. Accepted(response)
           <=> /\ \A i \in 1..3 : BundleOk(bundles[i], challenge, policy, hosts, FALSE)
               /\ OwnerOk(Snapshot(challenge, RegistryOwner), response, FALSE)
    BY <2>1, <2>3, <2>4, <2>7, <2>9 DEF Accepted, VerifySubmission, policy, hosts
  <2>11. (\A i \in 1..3 : BundleOk(bundles[i], challenge, policy, hosts, FALSE))
           <=> ~run.debug /\ run.notary
    <3>1. 1 \in 1..3
      OBVIOUS
    <3>. QED
      BY <2>6, <3>1, Zenon
  <2>. QED
    BY <2>8, <2>10, <2>11, Zenon
<1>. QED
  BY <1>1, RunInvariant, PTL

-----------------------------------------------------------------------------
(***************************************************************************)
(* The preflight.  Every block fetched holds the wallets of the run, each  *)
(* once and in ascending order, with balances that add up to the threshold *)
(* or the run has ended; and a browser run attests and proves only blocks  *)
(* whose signatures it has checked.                                        *)
(***************************************************************************)
Serves(accounts) == [i \in DOMAIN WalletSet(run) |-> Served(accounts, WalletSet(run)[i])]

ThresholdOk == challenge.threshold \in 0..(U128 - 1)

ServedInv == \A i \in 1..Len(fetched) : \E accounts \in States : fetched[i].wallets = Serves(accounts)

ProvableInv ==
  /\ \A i \in 1..Len(fetched) : CanProve(fetched[i]) \/ (stage = "poor" /\ i = Len(fetched))
  /\ stage = "poor" => fetched # <<>> /\ ~CanProve(fetched[Len(fetched)])

SignedInv == run.mode = "browser" /\ stage \in {"attest", "prove"} => SigsOk

RefusedInv ==
  stage = "refused" =>
    /\ Len(bundles) < Len(fetched)
    /\ ~GuestAccepts(WitnessOf(Current))
    /\ (run.mode = "browser" => SigsOk)

PreflightInv ==
  /\ fetched # <<>> \/ stage \in Challenged => ThresholdOk
  /\ ServedInv /\ ProvableInv /\ SignedInv /\ RefusedInv

LEMMA SetFrame ==
  ASSUME UNCHANGED run
  PROVE  WalletSet(run)' = WalletSet(run) /\ \A accounts : Serves(accounts)' = Serves(accounts)
<1>1. WalletSet(run)' = WalletSet(run)
  BY DEF WalletSet
<1>. QED
  BY <1>1 DEF Serves

LEMMA ProvableFrame ==
  ASSUME UNCHANGED <<run, challenge>>
  PROVE  /\ \A block : CanProve(block)' <=> CanProve(block)
         /\ ThresholdOk' <=> ThresholdOk
  BY DEF CanProve, ThresholdOk

LEMMA WitnessFrame ==
  ASSUME UNCHANGED <<run, challenge, sigs, fetched, bundles>>
  PROVE  /\ SigsOk' <=> SigsOk
         /\ UNCHANGED <<token, secret>> => WitnessOf(Current)' = WitnessOf(Current)
<1>1. Current' = Current /\ \A i : BlockSig(i)' = BlockSig(i)
  BY DEF Current, BlockSig
<1>2. SigsOk' <=> SigsOk
  BY <1>1 DEF SigsOk
<1>3. ASSUME UNCHANGED <<token, secret>> PROVE WitnessOf(Current)' = WitnessOf(Current)
  BY <1>1, <1>3 DEF WitnessOf
<1>. QED
  BY <1>2, <1>3

(***************************************************************************)
(* A step that does not fetch: only what it goes on to matters.            *)
(***************************************************************************)
LEMMA QuietStep ==
  ASSUME PreflightInv, UNCHANGED <<run, challenge, fetched>>,
         stage # "poor", stage' # "poor",
         stage' \in Challenged => stage \in Challenged,
         SignedInv', RefusedInv'
  PROVE  PreflightInv'
<1>1. /\ \A accounts : Serves(accounts)' = Serves(accounts)
      /\ \A block : CanProve(block)' <=> CanProve(block)
      /\ ThresholdOk' <=> ThresholdOk
  BY SetFrame, ProvableFrame
<1>2. ServedInv' /\ ProvableInv'
  BY <1>1 DEF PreflightInv, ServedInv, ProvableInv
<1>. QED
  BY <1>1, <1>2 DEF PreflightInv

LEMMA MovesTo ==
  ASSUME Moves
  PROVE  /\ stage # "poor"
         /\ \/ stage = "prove" /\ stage' = "refused" /\ ~GuestAccepts(WitnessOf(Current))
            \/ stage = "check" /\ stage' = "attest" /\ SigsOk
            \/ stage' \in {"ask", "pick"} \cup (Ended \ {"poor", "refused"})
<1>1. CASE BuildWalletSet \/ BadWalletSet
  BY <1>1 DEF BuildWalletSet, BadWalletSet, Stop, Goto, Ended
<1>2. CASE NotIssued \/ FetchFails \/ CheckSigs \/ BadSigs
  BY <1>2 DEF NotIssued, FetchFails, CheckSigs, BadSigs, Stop, Goto, Ended
<1>3. CASE AttestFails \/ GuestRefuses \/ JournalShows
  BY <1>3 DEF AttestFails, GuestRefuses, JournalShows, Stop, Goto, Ended
<1>4. CASE SubmitVerified \/ SubmitFails
  BY <1>4 DEF SubmitVerified, SubmitFails, Stop, Goto, Ended
<1>. QED
  BY <1>1, <1>2, <1>3, <1>4 DEF Moves

LEMMA MovesPreflight ==
  ASSUME RunInv, PreflightInv, Moves PROVE PreflightInv'
<1>. USE DEF Ended, Idle, Early, Working, Challenged
<1>1. UNCHANGED <<run, challenge, sigs, token, secret, fetched, bundles>>
  BY MovesFacts DEF Kept, file, output, identity
<1>2. /\ SigsOk' <=> SigsOk
      /\ WitnessOf(Current)' = WitnessOf(Current)
  BY <1>1, WitnessFrame
<1>3. SignedInv'
  BY <1>1, <1>2, MovesTo DEF SignedInv
<1>4. RefusedInv'
  <2>. SUFFICES ASSUME stage' = "refused" PROVE RefusedInv'
    BY DEF RefusedInv
  <2>1. stage = "prove" /\ ~GuestAccepts(WitnessOf(Current))
    BY MovesTo
  <2>2. Len(bundles) < Len(fetched)
    BY <2>1 DEF RunInv, CountInv
  <2>3. run.mode = "browser" => SigsOk
    BY <2>1 DEF PreflightInv, SignedInv
  <2>4. GuestAccepts(WitnessOf(Current))' <=> GuestAccepts(WitnessOf(Current))
    BY <1>2, Zenon
  <2>. QED
    BY <1>1, <1>2, <2>1, <2>2, <2>3, <2>4 DEF RefusedInv
<1>5. /\ stage # "poor" /\ stage' # "poor"
      /\ stage' \in Challenged => stage \in Challenged
  BY MovesTo
<1>. QED
  BY <1>1, <1>3, <1>4, <1>5, QuietStep

LEMMA ChallengePreflight ==
  ASSUME RunInv, GetChallenge \/ PickBlock PROVE PreflightInv'
<1>. USE DEF Ended, Idle, Early, Working, Challenged
<1>1. /\ stage \in {"ask", "pick"} /\ fetched' = fetched
      /\ stage' \in {"panicked", "prepare", "identify", "fetch"}
  BY DEF GetChallenge, PickBlock, Goto
<1>2. \E ch \in Challenges : challenge'.threshold = ch.threshold
  <2>1. CASE GetChallenge
    BY <2>1 DEF GetChallenge
  <2>2. CASE PickBlock
    <3>1. PICK n \in DOMAIN StateAt, ch \in Challenges :
            challenge' = [ch EXCEPT !.nonce = "zeros", !.agent = "por-demo-agent", !.blocks = <<n>>]
      BY <2>2 DEF PickBlock
    <3>. QED
      BY <3>1
  <2>. QED
    BY <2>1, <2>2
<1>3. ThresholdOk'
  BY <1>2, ChallengeAssumption DEF ThresholdOk
<1>4. fetched' = <<>>
  BY <1>1 DEF RunInv, CountInv
<1>. QED
  BY <1>1, <1>3, <1>4, EmptyFacts
     DEF PreflightInv, ServedInv, ProvableInv, SignedInv, RefusedInv

LEMMA OnwardPreflight ==
  ASSUME RunInv, PreflightInv,
         \/ IdentifyUnread \/ IdentifyRead \/ IdentityMismatch
         \/ ProveBlock \/ WriteResponse \/ Finalize
  PROVE  PreflightInv'
<1>. USE DEF Ended, Idle, Early, Working, Challenged
<1>1. /\ UNCHANGED <<run, challenge, fetched>>
      /\ stage \in {"identify", "prove", "answer", "prepared"}
      /\ stage' \in {"check", "fetch", "mismatch", "answer", "submit", "done", "identify"}
  <2>1. CASE IdentifyUnread \/ IdentifyRead \/ IdentityMismatch
    BY <2>1 DEF IdentifyUnread, IdentifyRead, IdentityMismatch, Identify, AfterIdentity, Goto, file
  <2>2. CASE ProveBlock
    BY <2>2 DEF ProveBlock, AfterBlock, Goto, file
  <2>3. CASE WriteResponse \/ Finalize
    BY <2>3 DEF WriteResponse, Finalize, Goto, file
  <2>. QED
    BY <2>1, <2>2, <2>3
<1>2. SignedInv' /\ RefusedInv'
  BY <1>1 DEF SignedInv, RefusedInv
<1>3. stage' \in Challenged => stage \in Challenged
  BY <1>1
<1>. QED
  BY <1>1, <1>2, <1>3, QuietStep

LEMMA SamePreflight ==
  ASSUME PreflightInv, UNCHANGED <<run, challenge, sigs, token, secret, fetched, bundles>>,
         \/ stage' = stage
         \/ stage = "attest" /\ stage' = "prove"
  PROVE  PreflightInv'
<1>. USE DEF Ended, Idle, Early, Working, Challenged
<1>1. /\ \A accounts : Serves(accounts)' = Serves(accounts)
      /\ \A block : CanProve(block)' <=> CanProve(block)
      /\ ThresholdOk' <=> ThresholdOk
      /\ SigsOk' <=> SigsOk
      /\ WitnessOf(Current)' = WitnessOf(Current)
  BY SetFrame, ProvableFrame, WitnessFrame
<1>2. GuestAccepts(WitnessOf(Current))' <=> GuestAccepts(WitnessOf(Current))
  BY <1>1, Zenon
<1>3. ServedInv' /\ ProvableInv'
  BY <1>1 DEF PreflightInv, ServedInv, ProvableInv
<1>4. SignedInv' /\ RefusedInv'
  BY <1>1, <1>2 DEF PreflightInv, SignedInv, RefusedInv
<1>. QED
  BY <1>1, <1>3, <1>4 DEF PreflightInv

LEMMA FetchPreflight == ASSUME RunInv, PreflightInv, Fetch PROVE PreflightInv'
<1>. USE DEF Ended, Idle, Early, Working, Challenged
<1>. DEFINE n == Len(fetched) + 1
<1>1. PICK accounts, block :
        /\ accounts \in {StateAt[challenge.blocks[n]], OtherState}
        /\ block = FetchBlock(challenge.blocks[n], accounts)
        /\ fetched' = Append(fetched, block)
        /\ stage' = IF ~CanProve(block) THEN "poor"
                    ELSE IF stage = "fetch" THEN "attest"
                    ELSE IF n < Len(challenge.blocks) THEN "prepare"
                    ELSE "prepared"
  BY DEF Fetch, Goto
<1>2. stage \in {"prepare", "fetch"} /\ UNCHANGED <<run, challenge>>
  BY DEF Fetch, file
<1>3. /\ n - 1 \in Nat /\ Len(fetched') = n /\ fetched' # <<>>
      /\ \A i \in 1..(n - 1) : fetched'[i] = fetched[i]
      /\ fetched'[n] = block
  BY <1>1, AppendFacts DEF RunInv, CountInv
<1>4. /\ \A acc : Serves(acc)' = Serves(acc)
      /\ \A b : CanProve(b)' <=> CanProve(b)
      /\ ThresholdOk' <=> ThresholdOk
  BY <1>2, SetFrame, ProvableFrame
<1>5. accounts \in States
  <2>1. ChallengeOk /\ Len(fetched) < Blocks
    BY <1>2 DEF RunInv, StageInv, CountInv
  <2>2. Blocks \in Nat /\ challenge.blocks \in Seq(DOMAIN StateAt)
    BY <2>1 DEF ChallengeOk, Blocks
  <2>3. n \in 1..Blocks
    BY <1>3, <2>1, <2>2
  <2>4. challenge.blocks[n] \in DOMAIN StateAt
    <3>. HIDE DEF n
    <3>. QED
      BY <2>2, <2>3 DEF Blocks
  <2>. QED
    BY <1>1, <2>4 DEF States
<1>6. block.wallets = Serves(accounts)
  BY <1>1 DEF FetchBlock, Serves
<1>7. stage' # "poor" <=> CanProve(block)
  BY <1>1
<1>8. \A i \in 1..Len(fetched') : i = n \/ i \in 1..(n - 1)
  BY <1>3
<1>. HIDE DEF n
<1>9. ServedInv'
  <2>. SUFFICES ASSUME NEW i \in 1..Len(fetched')
                PROVE  \E acc \in States : fetched'[i].wallets = Serves(acc)
    BY <1>4 DEF ServedInv
  <2>1. CASE i = n
    BY <1>3, <1>5, <1>6, <2>1
  <2>2. CASE i # n
    <3>1. i \in 1..Len(fetched) /\ fetched'[i] = fetched[i]
      BY <1>3, <1>8, <2>2 DEF n
    <3>. QED
      BY <3>1 DEF PreflightInv, ServedInv
  <2>. QED
    BY <2>1, <2>2
<1>10. ProvableInv'
  <2>1. ASSUME NEW i \in 1..Len(fetched')
        PROVE  CanProve(fetched'[i]) \/ (stage' = "poor" /\ i = Len(fetched'))
    <3>1. CASE i = n
      BY <1>3, <1>7, <3>1
    <3>2. CASE i # n
      <4>1. i \in 1..Len(fetched) /\ fetched'[i] = fetched[i]
        BY <1>3, <1>8, <3>2 DEF n
      <4>. QED
        BY <1>2, <4>1 DEF PreflightInv, ProvableInv
    <3>. QED
      BY <3>1, <3>2
  <2>. QED
    BY <1>3, <1>4, <1>7, <2>1 DEF ProvableInv
<1>11. SignedInv'
  BY <1>1, <1>2 DEF RunInv, StageInv, SignedInv
<1>12. RefusedInv' /\ ThresholdOk'
  BY <1>1, <1>2, <1>4 DEF RefusedInv, PreflightInv
<1>. QED
  BY <1>9, <1>10, <1>11, <1>12 DEF PreflightInv

LEMMA PreflightStep == RunInv /\ PreflightInv /\ [Next]_provingVars => PreflightInv'
<1>. SUFFICES ASSUME RunInv, PreflightInv, [Next]_provingVars PROVE PreflightInv'
  OBVIOUS
<1>1. CASE BindCommitment \/ NoNotary \/ AttestBlock
  <2>1. /\ UNCHANGED <<run, challenge, sigs, token, secret, fetched, bundles>>
        /\ stage' = stage \/ (stage = "attest" /\ stage' = "prove")
    BY <1>1 DEF BindCommitment, NoNotary, AttestBlock, AttestWith, Goto, file, identity, output
  <2>. QED
    BY <2>1, SamePreflight
<1>2. CASE ProverSteps
  BY <1>1, <1>2, MovesPreflight, ChallengePreflight, OnwardPreflight, FetchPreflight
     DEF ProverSteps, Moves
<1>3. CASE UNCHANGED proverVars
  <2>1. UNCHANGED <<stage, run, challenge, sigs, token, secret, fetched, bundles>>
    BY <1>3 DEF proverVars, file, identity, output
  <2>. QED
    BY <2>1, SamePreflight
<1>4. CASE EnsureAccount \/ SwitchAccount \/ SignMessage \/ SignAgain
  BY <1>3, <1>4 DEF EnsureAccount, SwitchAccount, SignMessage, SignAgain
<1>5. CASE UNCHANGED hostVars
  BY <1>3, <1>5 DEF hostVars
<1>. QED
  BY <1>2, <1>4, <1>5, OnwardPreflight, RunOnly

LEMMA PreflightInvariant == Spec => [](RunInv /\ PreflightInv)
<1>1. Init => PreflightInv
  <2>. SUFFICES ASSUME ProverInit PROVE PreflightInv
    BY DEF Init
  <2>1. fetched = <<>> /\ stage = "start"
    BY DEF ProverInit
  <2>. QED
    BY <2>1, EmptyFacts DEF PreflightInv, ServedInv, ProvableInv, SignedInv, RefusedInv,
                            Challenged, Working
<1>. QED
  BY <1>1, RunInit, RunStep, PreflightStep, PTL DEF Spec

(***************************************************************************)
(* The wallets of a run: the listed ones, in ascending order.              *)
(***************************************************************************)
LEMMA WalletSetFacts ==
  ASSUME NEW r \in Runs, ListOk(r)
  PROVE  \E n \in Nat \ {0} : /\ WalletSet(r) \in [1..n -> Nat]
                              /\ WalletSet(r) \in [1..n -> ToSet(r.listed)]
                              /\ IsAscending(WalletSet(r))
<1>. DEFINE S == ToSet(r.listed)
            n == Cardinality(S)
<1>1. r.listed \in Seq(Nat) /\ r.listed # <<>>
  BY RunAssumption DEF ListOk
<1>2. S = {r.listed[i] : i \in 1..Len(r.listed)} /\ Len(r.listed) \in Nat \ {0}
  BY <1>1 DEF ToSet
<1>. HIDE DEF S
<1>3. S \in SUBSET Nat /\ S # {}
  <2>1. \A i \in 1..Len(r.listed) : r.listed[i] \in Nat
    BY <1>1
  <2>2. 1 \in 1..Len(r.listed)
    BY <1>2
  <2>. QED
    BY <1>2, <2>1, <2>2
<1>4. IsFiniteSet(S)
  <2>1. IsFiniteSet(1..Len(r.listed))
    BY <1>2, FS_Interval
  <2>2. IsFiniteSet({r.listed[i] : i \in 1..Len(r.listed)})
    BY <2>1, ImageFinite
  <2>. QED
    BY <1>2, <2>2
<1>5. n \in Nat \ {0}
  BY <1>3, <1>4, PickFacts
<1>6. \E s \in [1..n -> S] : \A i, j \in DOMAIN s : i < j => s[i] < s[j]
  BY <1>3, <1>4, AscendingExists DEF IsAscending
<1>7. WalletSet(r) = CHOOSE s \in [1..n -> S] : \A i, j \in DOMAIN s : i < j => s[i] < s[j]
  BY DEF WalletSet, Ascending, S
<1>. HIDE DEF n
<1>8. /\ WalletSet(r) \in [1..n -> S]
      /\ \A i, j \in DOMAIN WalletSet(r) : i < j => WalletSet(r)[i] < WalletSet(r)[j]
  BY <1>6, <1>7
<1>9. WalletSet(r) \in [1..n -> Nat]
  BY <1>3, <1>8
<1>. QED
  BY <1>5, <1>8, <1>9 DEF IsAscending, S

(***************************************************************************)
(* total_balance is the sum of the balances, saturated once: whether it    *)
(* saturates on the way makes no difference.                               *)
(***************************************************************************)
LEMMA SaturatedAdd ==
  ASSUME NEW x \in Nat, NEW b \in Nat
  PROVE  Saturated(Saturated(x) + b) = Saturated(b + x)
  BY WidthAssumption DEF Saturated

LEMMA TotalIsSum ==
  ASSUME NEW n \in Nat, NEW block, DOMAIN block.wallets = 1..n,
         NEW g, \A i \in 1..n : g[i] = block.wallets[i].account.balance,
         NatTerms(g, 1..n), NEW it, Sums(it, g, 1..n)
  PROVE  it[1..n] \in Nat /\ TotalBalance(block) = Saturated(it[1..n])
<1>. DEFINE S == DOMAIN block.wallets
            Body(jt, s) == IF s = {} THEN 0
                           ELSE Saturated(jt[s \ {Max(s)}]
                                            + block.wallets[Max(s)].account.balance)
            Solves(jt) == jt = [s \in SUBSET S |-> Body(jt, s)]
            iter == CHOOSE jt : Solves(jt)
            kt == [s \in SUBSET S |-> Saturated(it[s])]
            A == {k \in Nat : \A s \in SUBSET S :
                    Cardinality(s) <= k => iter[s] = Saturated(it[s])}
<1>1. TotalBalance(block) = iter[S]
  BY DEF TotalBalance, FoldLeft, MapThenFoldSet
<1>2. IsFiniteSet(S) /\ S \in SUBSET Nat /\ S = 1..n
  BY FS_Interval
<1>3. Saturated(0) = 0
  BY WidthAssumption DEF Saturated
<1>. HIDE DEF S
<1>4. \A s \in SUBSET S : it[s] \in Nat
  BY <1>2, SumsFromTheEnd
<1>5. it[{}] = 0
  BY DEF Sums
<1>6. ASSUME NEW s \in SUBSET S, s # {}
      PROVE  /\ Max(s) \in s /\ s \ {Max(s)} \in SUBSET S
             /\ Cardinality(s) \in Nat /\ Cardinality(s \ {Max(s)}) = Cardinality(s) - 1
             /\ Saturated(Saturated(it[s \ {Max(s)}]) + block.wallets[Max(s)].account.balance)
                  = Saturated(it[s])
  <2>. DEFINE m == Max(s)
              b == block.wallets[m].account.balance
  <2>1. s \in SUBSET (1..n)
    BY <1>2
  <2>2. /\ m \in s /\ s \ {m} \in SUBSET S
        /\ Cardinality(s) \in Nat /\ Cardinality(s \ {m}) = Cardinality(s) - 1
    BY <1>2, <1>6, <2>1, FromTheEnd
  <2>3. g[m] \in Nat /\ it[s] = g[m] + it[s \ {m}] /\ it[s \ {m}] \in Nat
    BY <1>6, <2>1, SumsFromTheEnd
  <2>4. g[m] = b
    BY <2>1, <2>2
  <2>. HIDE DEF m, b
  <2>5. Saturated(Saturated(it[s \ {m}]) + b) = Saturated(it[s])
    BY <2>3, <2>4, SaturatedAdd
  <2>. QED
    BY <2>2, <2>5 DEF m, b
<1>7. Solves(kt)
  <2>1. ASSUME NEW s \in SUBSET S PROVE kt[s] = Body(kt, s)
    <3>1. CASE s = {}
      BY <1>3, <1>5, <3>1
    <3>2. CASE s # {}
      <4>1. kt[s \ {Max(s)}] = Saturated(it[s \ {Max(s)}]) /\ kt[s] = Saturated(it[s])
        BY <1>6, <3>2
      <4>. HIDE DEF kt
      <4>. QED
        BY <1>6, <3>2, <4>1
    <3>. QED
      BY <3>1, <3>2
  <2>2. kt = [s \in SUBSET S |-> kt[s]]
    OBVIOUS
  <2>. HIDE DEF kt, Body
  <2>3. [s \in SUBSET S |-> kt[s]] = [s \in SUBSET S |-> Body(kt, s)]
    BY <2>1
  <2>. QED
    BY <2>2, <2>3
<1>8. Solves(iter)
  <2>. HIDE DEF Solves, kt
  <2>. QED
    BY <1>7
<1>9. \A s \in SUBSET S : iter[s] = Body(iter, s)
  <2>. HIDE DEF iter, Body
  <2>. QED
    BY <1>8
<1>. HIDE DEF iter, Solves, kt
<1>10. 0 \in A
  <2>. SUFFICES ASSUME NEW s \in SUBSET S, Cardinality(s) <= 0 PROVE iter[s] = Saturated(it[s])
    OBVIOUS
  <2>1. s = {}
    BY <1>2, FromTheEnd
  <2>. QED
    BY <1>3, <1>5, <1>9, <2>1
<1>11. ASSUME NEW k \in Nat, k \in A PROVE k + 1 \in A
  <2>. SUFFICES ASSUME NEW s \in SUBSET S, Cardinality(s) <= k + 1
                PROVE  iter[s] = Saturated(it[s])
    OBVIOUS
  <2>1. CASE s = {}
    BY <1>3, <1>5, <1>9, <2>1
  <2>2. CASE s # {}
    <3>1. s \ {Max(s)} \in SUBSET S /\ Cardinality(s \ {Max(s)}) <= k
      BY <1>6, <2>2
    <3>2. iter[s \ {Max(s)}] = Saturated(it[s \ {Max(s)}])
      BY <1>11, <3>1
    <3>. QED
      BY <1>6, <1>9, <2>2, <3>2
  <2>. QED
    BY <2>1, <2>2
<1>12. Cardinality(S) \in A
  <2>. HIDE DEF A
  <2>. QED
    BY <1>2, <1>10, <1>11, Induction, FS_CardinalityType
<1>13. iter[S] = Saturated(it[S])
  BY <1>2, <1>12, FS_CardinalityType
<1>. QED
  BY <1>1, <1>2, <1>4, <1>13

(***************************************************************************)
(* A block served: its wallets one by one, and what the preflight's total  *)
(* says of their sum.                                                      *)
(***************************************************************************)
LEMMA ServedFacts ==
  ASSUME ListOk(run), run \in Runs, NEW block, NEW accounts \in States,
         block.wallets = Serves(accounts)
  PROVE  \E n \in Nat \ {0} :
           LET W == WalletSet(run) IN
           /\ W \in [1..n -> Nat] /\ IsAscending(W)
           /\ \A i \in 1..n : W[i] \in ToSet(run.listed)
           /\ DOMAIN block.wallets = 1..n
           /\ \A i \in 1..n : /\ block.wallets[i].address = W[i]
                              /\ block.wallets[i].proof = Keccak(accounts)
                              /\ block.wallets[i].account =
                                   IF W[i] \in DOMAIN accounts THEN accounts[W[i]] ELSE Absent
                              /\ block.wallets[i].account.balance \in 0..(U128 - 1)
                              /\ block.wallets[i].account.balance \in Nat
<1>. DEFINE W == WalletSet(run)
<1>1. PICK n \in Nat \ {0} : /\ W \in [1..n -> Nat] /\ W \in [1..n -> ToSet(run.listed)]
                             /\ IsAscending(W)
  BY WalletSetFacts
<1>. HIDE DEF W
<1>2. DOMAIN W = 1..n /\ block.wallets = [i \in DOMAIN W |-> Served(accounts, W[i])]
  BY <1>1 DEF Serves, W
<1>3. ASSUME NEW i \in 1..n
      PROVE  /\ block.wallets[i].address = W[i]
             /\ block.wallets[i].proof = Keccak(accounts)
             /\ block.wallets[i].account =
                  IF W[i] \in DOMAIN accounts THEN accounts[W[i]] ELSE Absent
  BY <1>2 DEF Served
<1>4. ASSUME NEW i \in 1..n
      PROVE  /\ block.wallets[i].account.balance \in 0..(U128 - 1)
             /\ block.wallets[i].account.balance \in Nat
  <2>1. CASE W[i] \in DOMAIN accounts
    BY <1>3, <2>1, StateAssumption, WidthAssumption
  <2>2. CASE W[i] \notin DOMAIN accounts
    BY <1>3, <2>2, WidthAssumption DEF Absent
  <2>. QED
    BY <2>1, <2>2
<1>5. \A i \in 1..n : W[i] \in ToSet(run.listed)
  BY <1>1
<1>6. DOMAIN block.wallets = 1..n
  BY <1>2
<1>. QED
  BY <1>1, <1>3, <1>4, <1>5, <1>6 DEF W

LEMMA SaturatedBound ==
  ASSUME NEW x \in Nat, ThresholdOk
  PROVE  Saturated(x) >= challenge.threshold <=> x >= challenge.threshold
  BY WidthAssumption DEF Saturated, ThresholdOk

(***************************************************************************)
(* What the guest is given passes its checks, if the archive's accounts    *)
(* are those of the header and exist.                                      *)
(***************************************************************************)
LEMMA SignedBySigner ==
  ASSUME RunInv, NEW k \in 1..Len(fetched), Len(bundles) + 1 = k, ~run.debug,
         run.mode = "browser" => SigsOk,
         NEW i \in DOMAIN Current.wallets,
         Current.wallets[i].address \in ToSet(run.listed)
  PROVE  RecoversTo(BlockSig(i), BlockDigest(Current.header), Current.wallets[i].address)
<1>1. CASE run.mode = "browser"
  BY <1>1 DEF SigsOk
<1>2. CASE run.mode # "browser"
  <2>1. Current = fetched[k]
    BY DEF Current
  <2>2. /\ fetched # <<>> /\ k \in Nat /\ k \in 1..Blocks
        /\ challenge.blocks \in Seq(DOMAIN StateAt)
    <3>1. Sequence(fetched)
      BY DEF RunInv, CountInv
    <3>2. Len(fetched) \in Nat /\ (Len(fetched) = 0 <=> fetched = <<>>)
      BY <3>1, SequenceFacts
    <3>3. fetched # <<>>
      BY <3>2
    <3>4. Len(fetched) <= Blocks /\ challenge.blocks \in Seq(DOMAIN StateAt) /\ Blocks \in Nat
      BY <3>3 DEF RunInv, StageInv, CountInv, ChallengeOk, Blocks
    <3>. QED
      BY <3>2, <3>3, <3>4
  <2>3. challenge.blocks[k] \in DOMAIN StateAt
    BY <2>2 DEF Blocks
  <2>4. Current.header = HeaderAt(challenge.blocks[k])
    BY <2>1 DEF RunInv, WorkInv
  <2>5. run \in Runs
    BY DEF RunInv, StageInv
  <2>6. BadSignature # Sign(Current.wallets[i].address, BlockDigest(Current.header))
    BY <2>3, <2>4, <2>5, OwnershipAssumption
  <2>7. BlockSig(i) = Sign(Current.wallets[i].address, BlockDigest(Current.header))
    BY <1>2 DEF BlockSig
  <2>. QED
    BY <2>6, <2>7 DEF RecoversTo, Sign
<1>. QED
  BY <1>1, <1>2

LEMMA AcceptedWhenServed ==
  ASSUME RunInv, PreflightInv, stage = "refused", ~run.debug,
         \A i \in DOMAIN Current.wallets :
            /\ Current.wallets[i].proof = Current.header.root
            /\ Current.wallets[i].account # Absent
  PROVE  GuestAccepts(WitnessOf(Current))
<1>. DEFINE k == Len(bundles) + 1
            W == WalletSet(run)
            w == WitnessOf(Current)
            ws == Current.wallets
<1>1. /\ k \in 1..Len(fetched) /\ Current = fetched[k] /\ fetched # <<>>
      /\ ThresholdOk /\ CanProve(Current) /\ (run.mode = "browser" => SigsOk)
  <2>1. Len(bundles) < Len(fetched) /\ (run.mode = "browser" => SigsOk)
    BY DEF PreflightInv, RefusedInv
  <2>2. /\ Len(fetched) \in Nat /\ (Len(fetched) = 0 <=> fetched = <<>>)
        /\ Len(bundles) \in Nat
    BY SequenceFacts DEF RunInv, CountInv
  <2>3. k \in 1..Len(fetched) /\ fetched # <<>>
    BY <2>1, <2>2
  <2>4. Current = fetched[k]
    BY DEF Current
  <2>. HIDE DEF k
  <2>5. CanProve(fetched[k]) /\ ThresholdOk
    BY <2>3 DEF PreflightInv, ProvableInv
  <2>. QED
    BY <2>1, <2>3, <2>4, <2>5
<1>. HIDE DEF k
<1>2. run \in Runs /\ ListOk(run)
  BY <1>1 DEF RunInv, StageInv
<1>3. PICK accounts \in States : ws = Serves(accounts)
  BY <1>1 DEF PreflightInv, ServedInv
<1>4. PICK n \in Nat \ {0} :
        /\ W \in [1..n -> Nat] /\ IsAscending(W)
        /\ \A i \in 1..n : W[i] \in ToSet(run.listed)
        /\ DOMAIN ws = 1..n
        /\ \A i \in 1..n : /\ ws[i].address = W[i]
                           /\ ws[i].proof = Keccak(accounts)
                           /\ ws[i].account =
                                IF W[i] \in DOMAIN accounts THEN accounts[W[i]] ELSE Absent
                           /\ ws[i].account.balance \in 0..(U128 - 1)
                           /\ ws[i].account.balance \in Nat
  BY <1>2, <1>3, ServedFacts
<1>5. /\ w.header = Current.header /\ w.debug = run.debug /\ w.threshold = challenge.threshold
      /\ w.wallets = [i \in DOMAIN ws |->
                        [address |-> ws[i].address, proof |-> ws[i].proof,
                         account |-> ws[i].account, sig |-> BlockSig(i)]]
  BY DEF WitnessOf
<1>. HIDE DEF W, w
<1>6. /\ DOMAIN w.wallets = 1..n
      /\ \A i \in 1..n : /\ w.wallets[i].address = W[i]
                         /\ w.wallets[i].proof = ws[i].proof
                         /\ w.wallets[i].account = ws[i].account
                         /\ w.wallets[i].sig = BlockSig(i)
  BY <1>4, <1>5
<1>7. w.header.root = Keccak(accounts) /\ w.header.root.keccak = accounts
  <2>1. 1 \in 1..n
    BY <1>4
  <2>2. Current.header.root = Keccak(accounts)
    BY <1>4, <2>1
  <2>. QED
    BY <1>5, <2>2 DEF Keccak
<1>8. \A i \in 1..n : W[i] \in DOMAIN accounts /\ ws[i].account = accounts[W[i]]
  BY <1>4
<1>9. Sound(w)
  <2>1. ASSUME NEW i \in 1..n
        PROVE  /\ i > 1 => w.wallets[i].address > w.wallets[i - 1].address
               /\ ProofOk(w.wallets[i], w.header.root)
               /\ Owned(w.wallets[i], w.header)
    <3>1. ASSUME i > 1 PROVE w.wallets[i].address > w.wallets[i - 1].address
      <4>1. i - 1 \in 1..n /\ i - 1 < i
        BY <3>1
      <4>2. W[i - 1] < W[i] /\ W[i] \in Nat /\ W[i - 1] \in Nat
        BY <1>4, <4>1 DEF IsAscending
      <4>. QED
        BY <1>6, <4>1, <4>2
    <3>2. ProofOk(w.wallets[i], w.header.root)
      <4>1. ws[i].proof = Keccak(accounts)
        BY <1>4
      <4>. QED
        BY <1>6, <1>7, <1>8, <4>1 DEF ProofOk
    <3>3. RecoversTo(BlockSig(i), BlockDigest(Current.header), ws[i].address)
      BY <1>1, <1>4, SignedBySigner DEF k
    <3>4. Owned(w.wallets[i], w.header)
      BY <1>4, <1>5, <1>6, <3>3 DEF Owned
    <3>. QED
      BY <3>1, <3>2, <3>4
  <2>2. w.wallets # <<>>
    BY <1>4, <1>6
  <2>. QED
    BY <1>6, <2>1, <2>2 DEF Sound
<1>. DEFINE f == [i \in 1..n |-> W[i]]
            g == [i \in 1..n |-> ws[i].account.balance]
            L == {W[i] : i \in 1..n}
            h == [a \in L |-> w.header.root.keccak[a].balance]
<1>10. Reserves(w) = SumOf(w.header.root, L)
  <2>1. Listed(w) = L
    BY <1>6 DEF Listed
  <2>. QED
    BY <2>1 DEF Reserves, SumOf
<1>11. IsFiniteSet(1..n) /\ IsFiniteSet(L)
  <2>1. IsFiniteSet(1..n)
    BY FS_Interval
  <2>. QED
    BY <2>1, ImageFinite
<1>12. PICK jt : Sums(jt, h, L) /\ Reserves(w) = jt[L]
  <2>. HIDE DEF L, w
  <2>1. \E jt : Sums(jt, h, L) /\ SumOf(w.header.root, L) = jt[L]
    BY <1>11, SumOfIsSums
  <2>. QED
    BY <1>10, <2>1
<1>13. PICK it : Sums(it, g, 1..n)
  <2>. HIDE DEF g
  <2>. QED
    BY <1>11, SumsExist
<1>14. /\ \A i \in 1..n : g[i] \in Nat /\ g[i] = ws[i].account.balance
       /\ \A i \in 1..n : h[W[i]] = g[i]
       /\ \A i, j \in 1..n : W[i] = W[j] => i = j
  <2>1. \A i \in 1..n : g[i] \in Nat /\ g[i] = ws[i].account.balance
    BY <1>4
  <2>2. \A i \in 1..n : h[W[i]] = g[i]
    BY <1>7, <1>8
  <2>3. ASSUME NEW i \in 1..n, NEW j \in 1..n, W[i] = W[j] PROVE i = j
    <3>1. W[i] \in Nat /\ W[j] \in Nat /\ DOMAIN W = 1..n
      BY <1>4
    <3>2. ~(i < j) /\ ~(j < i)
      BY <1>4, <2>3, <3>1 DEF IsAscending
    <3>. QED
      BY <3>2
  <2>. QED
    BY <2>1, <2>2, <2>3
<1>. HIDE DEF g, h
<1>15. it[1..n] = jt[L]
  <2>1. Enumerates(W, n, L)
    BY <1>14 DEF Enumerates
  <2>2. NatTerms(g, 1..n)
    BY <1>14 DEF NatTerms
  <2>3. \A i \in 1..n : h[W[i]] = g[i]
    BY <1>14
  <2>4. Sums(it, g, 1..n) /\ Sums(jt, h, L) /\ n \in Nat
    BY <1>12, <1>13
  <2>. HIDE DEF L
  <2>. QED
    BY <2>1, <2>2, <2>3, <2>4, SumsAlong
<1>16. it[1..n] \in Nat /\ TotalBalance(Current) = Saturated(it[1..n])
  <2>1. DOMAIN ws = 1..n
    BY <1>4
  <2>2. \A i \in 1..n : g[i] = ws[i].account.balance
    BY <1>14
  <2>3. NatTerms(g, 1..n)
    BY <1>14 DEF NatTerms
  <2>. QED
    BY <1>13, <2>1, <2>2, <2>3, TotalIsSum
<1>17. TotalBalance(Current) >= challenge.threshold
  BY <1>1 DEF CanProve
<1>18. it[1..n] >= challenge.threshold
  BY <1>1, <1>16, <1>17, SaturatedBound
<1>. QED
  BY <1>5, <1>9, <1>12, <1>15, <1>18 DEF GuestAccepts, w

(***************************************************************************)
(* A run that is turned away: each account once, and together too little.  *)
(***************************************************************************)
LEMMA BalancesAreSums ==
  ASSUME NEW ws, NEW S, S = DOMAIN ws, IsFiniteSet(S)
  PROVE  \E it : /\ Sums(it, [i \in S |-> ws[i].account.balance], S)
                 /\ MapThenSumSet(LAMBDA i : ws[i].account.balance, DOMAIN ws) = it[S]
<1>. DEFINE g == [i \in S |-> ws[i].account.balance]
            Solves(it) == it = [s \in SUBSET S |->
               IF s = {} THEN 0
               ELSE ws[CHOOSE x \in s : TRUE].account.balance + it[s \ {CHOOSE x \in s : TRUE}]]
            iter == CHOOSE it : Solves(it)
<1>1. MapThenSumSet(LAMBDA i : ws[i].account.balance, DOMAIN ws) = iter[S]
  BY DEF MapThenSumSet, MapThenFoldSet
<1>2. ASSUME NEW it PROVE Solves(it) <=> Sums(it, g, S)
  <2>1. \A s \in SUBSET S : s # {} =>
          g[CHOOSE x \in s : TRUE] = ws[CHOOSE x \in s : TRUE].account.balance
    <3>. SUFFICES ASSUME NEW s \in SUBSET S, s # {}
                  PROVE  g[CHOOSE x \in s : TRUE] = ws[CHOOSE x \in s : TRUE].account.balance
      OBVIOUS
    <3>1. (CHOOSE x \in s : TRUE) \in S
      OBVIOUS
    <3>. QED
      BY <3>1
  <2>. HIDE DEF g
  <2>. QED
    BY <2>1 DEF Sums, Pick
<1>3. \E it : Solves(it)
  <2>. HIDE DEF Solves, g
  <2>. QED
    BY <1>2, SumsExist
<1>4. Solves(iter)
  <2>. HIDE DEF Solves
  <2>. QED
    BY <1>3
<1>. HIDE DEF iter, Solves, g
<1>5. Sums(iter, g, S) /\ MapThenSumSet(LAMBDA i : ws[i].account.balance, DOMAIN ws) = iter[S]
  BY <1>1, <1>2, <1>4
<1>. QED
  BY <1>5 DEF g

LEMMA PoorWhenServed ==
  ASSUME RunInv, PreflightInv, stage = "poor"
  PROVE  LET ws == Last(fetched).wallets
         IN /\ MapThenSumSet(LAMBDA i : ws[i].account.balance, DOMAIN ws) < challenge.threshold
            /\ IsInjective([i \in DOMAIN ws |-> ws[i].address])
<1>. DEFINE block == fetched[Len(fetched)]
            ws == block.wallets
            W == WalletSet(run)
<1>1. /\ fetched # <<>> /\ Len(fetched) \in 1..Len(fetched) /\ ~CanProve(block) /\ ThresholdOk
      /\ Last(fetched) = block
  <2>1. fetched # <<>> /\ ~CanProve(block) /\ ThresholdOk
    BY DEF PreflightInv, ProvableInv
  <2>2. Len(fetched) \in Nat /\ (Len(fetched) = 0 <=> fetched = <<>>)
    BY SequenceFacts DEF RunInv, CountInv
  <2>. QED
    BY <2>1, <2>2 DEF Last
<1>2. run \in Runs /\ ListOk(run)
  BY <1>1 DEF RunInv, StageInv
<1>3. PICK accounts \in States : ws = Serves(accounts)
  BY <1>1 DEF PreflightInv, ServedInv
<1>. HIDE DEF block
<1>4. PICK n \in Nat \ {0} :
        /\ W \in [1..n -> Nat] /\ IsAscending(W)
        /\ DOMAIN ws = 1..n
        /\ \A i \in 1..n : ws[i].address = W[i] /\ ws[i].account.balance \in Nat
  BY <1>2, <1>3, ServedFacts
<1>. DEFINE g == [i \in 1..n |-> ws[i].account.balance]
<1>5. PICK it : /\ Sums(it, g, 1..n)
                /\ MapThenSumSet(LAMBDA i : ws[i].account.balance, DOMAIN ws) = it[1..n]
  <2>1. IsFiniteSet(1..n) /\ 1..n = DOMAIN ws
    BY <1>4, FS_Interval
  <2>. QED
    BY <2>1, BalancesAreSums
<1>6. NatTerms(g, 1..n) /\ \A i \in 1..n : g[i] = ws[i].account.balance
  BY <1>4 DEF NatTerms
<1>. HIDE DEF g, W
<1>7. it[1..n] \in Nat /\ TotalBalance(block) = Saturated(it[1..n])
  <2>1. DOMAIN block.wallets = 1..n /\ \A i \in 1..n : g[i] = block.wallets[i].account.balance
    BY <1>4, <1>6
  <2>. QED
    BY <1>5, <1>6, <2>1, TotalIsSum
<1>8. ~(Saturated(it[1..n]) >= challenge.threshold)
  BY <1>1, <1>7 DEF CanProve
<1>9. it[1..n] < challenge.threshold
  BY <1>1, <1>7, <1>8, SaturatedBound DEF ThresholdOk
<1>10. IsInjective([i \in DOMAIN ws |-> ws[i].address])
  <2>. SUFFICES ASSUME NEW i \in 1..n, NEW j \in 1..n, ws[i].address = ws[j].address PROVE i = j
    BY <1>4 DEF IsInjective
  <2>1. W[i] = W[j] /\ W[i] \in Nat /\ DOMAIN W = 1..n
    BY <1>4
  <2>2. ~(i < j) /\ ~(j < i)
    BY <1>4, <2>1 DEF IsAscending
  <2>. QED
    BY <2>2
<1>. QED
  BY <1>1, <1>5, <1>9, <1>10

(***************************************************************************)
(* The preflight stands for the guest: a run that passes it is refused     *)
(* only for what the archive served, and one that it turns away could not  *)
(* have been proved; for any lists of wallets, states, thresholds and      *)
(* widths, whether its sum saturates or not (ensure_can_prove before       *)
(* attest and prove_block).                                                *)
(***************************************************************************)
THEOREM PreflightStandsForGuest == Spec => []PreflightIsExact
<1>1. RunInv /\ PreflightInv => PreflightIsExact
  <2>. SUFFICES ASSUME RunInv, PreflightInv PROVE PreflightIsExact
    OBVIOUS
  <2>1. RefusedForCause
    <3>. SUFFICES ASSUME stage = "refused", ~run.debug,
                         \A i \in DOMAIN Current.wallets :
                            /\ Current.wallets[i].proof = Current.header.root
                            /\ Current.wallets[i].account # Absent
                  PROVE  FALSE
      BY DEF RefusedForCause
    <3>1. GuestAccepts(WitnessOf(Current))
      BY AcceptedWhenServed
    <3>. QED
      BY <3>1 DEF PreflightInv, RefusedInv
  <2>2. PoorIsPoor
    BY PoorWhenServed DEF PoorIsPoor
  <2>. QED
    BY <2>1, <2>2 DEF PreflightIsExact
<1>. QED
  BY <1>1, PreflightInvariant, PTL

-----------------------------------------------------------------------------
LEMMA Keyed ==
  ASSUME RunInv, ListOk(run), ~run.debug
  PROVE  FirstKey # NoKey
<1>1. run \in Runs
  BY DEF RunInv, StageInv
<1>2. PICK n \in Nat \ {0} : WalletSet(run) \in [1..n -> Nat]
  BY <1>1, WalletSetFacts
<1>3. WalletSet(run)[1] \in Nat
  BY <1>2
<1>. QED
  BY <1>3, KeyAssumption DEF FirstKey

LEMMA ProvedRun ==
  ASSUME RunInv, bundles # <<>>
  PROVE  fetched # <<>> /\ ListOk(run) /\ run \in Runs
         /\ (run.mode # "legacy" => challenge \in Challenges)
<1>1. Len(bundles) \in Nat /\ Len(fetched) \in Nat /\ Len(bundles) # 0
      /\ Len(bundles) <= Len(fetched)
  BY SequenceFacts DEF RunInv, CountInv
<1>2. fetched # <<>>
  BY <1>1, EmptyFacts
<1>. QED
  BY <1>2 DEF RunInv, StageInv, ChallengeOk

LEMMA SecretsDiffer ==
  ASSUME NEW k, NEW l
  PROVE  OwnersSecret(k) = OwnersSecret(l) <=> k = l
<1>. DEFINE digest == IdentityDigest(token)
<1>1. OwnersSecret(k).signature = Sign(k, digest) /\ Sign(k, digest).signer = k
  BY DEF OwnersSecret, SecretFrom, Sign
<1>2. OwnersSecret(l).signature = Sign(l, digest) /\ Sign(l, digest).signer = l
  BY DEF OwnersSecret, SecretFrom, Sign
<1>. QED
  BY <1>1, <1>2

(***************************************************************************)
(* "The derived secret stays tied to the agent identity", for every list   *)
(* of keys and every slip of the account: the secret in the proofs is the  *)
(* one of the signer of the challenge exactly if one key signs both; an    *)
(* account that never slips is such a key; and where none is, the gateway  *)
(* has not shown the signer's commitment (owner_identity_key, owner_sign,  *)
(* secret_from_sig and preflight_identity_binding).                        *)
(***************************************************************************)
THEOREM IdentityStays == Spec => []IdentityFollowsKeys
<1>1. ASSUME RunInv, IdentityInv PROVE IdentityFollowsKeys
  <2>. DEFINE signers == OwnersSecret(OwnerSign.signer)
  <2>. SUFFICES ASSUME bundles # <<>>, run.mode # "legacy", ~run.debug, run.secret = NoSecret
                PROVE  /\ secret = signers <=> OneSigner
                       /\ run.mode = "browser" /\ slips = 0 => OneSigner
                       /\ read \notin {Unread, NoCommitment} /\ read = Commits(signers)
                            => OneSigner
    BY DEF IdentityFollowsKeys
  <2>1. token = TokenId /\ secret = AgentSecret
    BY <1>1 DEF RunInv, SecretInv
  <2>2. fetched # <<>> /\ ListOk(run) /\ run \in Runs /\ challenge \in Challenges
    BY <1>1, ProvedRun
  <2>3. /\ secret = signers <=> OneSigner
        /\ run.mode = "browser" /\ slips = 0 => OneSigner
    <3>1. CASE run.mode = "browser"
      <4>. IdentitySigned /\ sigs.owner = Signature(RegistryOwner, ChallengeDigest(challenge))
        BY <1>1, <3>1 DEF RunInv, SigsInv
      <4>1. PICK k \in Accounts : /\ sigs.identity = Signature(k, IdentityDigest(TokenId))
                                  /\ slips = 0 => k = RegistryOwner
        BY DEF IdentitySigned
      <4>2. OwnerSign.signer = RegistryOwner
        BY <3>1, WalletSigns DEF Sign
      <4>3. TokenId \in {run.tokenId, Token[challenge.agent]}
        BY <3>1 DEF TokenId
      <4>4. sigs.identity # None
        BY <2>2, <4>1, <4>3, SignatureAssumption DEF Signature
      <4>5. sigs.identity.sig = Sign(k, IdentityDigest(TokenId))
        BY <4>1 DEF Signature
      <4>6. secret = OwnersSecret(k)
        BY <2>1, <3>1, <4>4, <4>5 DEF AgentSecret, SecretFromSig, OwnersSecret
      <4>7. OneSigner <=> k = RegistryOwner
        BY <3>1, <4>5 DEF OneSigner, Sign
      <4>8. secret = signers <=> k = RegistryOwner
        BY <4>2, <4>6, SecretsDiffer
      <4>. QED
        BY <4>1, <4>7, <4>8
    <3>2. CASE run.mode # "browser"
      <4>1. FirstListed # NoKey /\ FirstKey # NoKey
        BY <1>1, <2>2, Listed1, Keyed
      <4>2. OwnerIdentityKey # NoKey /\ secret = OwnersSecret(OwnerIdentityKey)
        BY <2>1, <3>2, <4>1 DEF AgentSecret, SecretCli, OwnerIdentityKey, OwnersSecret
      <4>3. OwnerSign.signer = IF run.ownerKey # NoKey THEN run.ownerKey ELSE FirstListed
        BY <3>2, <4>1 DEF OwnerSign, Sign
      <4>4. secret = signers <=> OwnerIdentityKey = OwnerSign.signer
        BY <4>2, SecretsDiffer
      <4>. QED
        BY <3>2, <4>3, <4>4 DEF OneSigner, OwnerIdentityKey
    <3>. QED
      BY <3>1, <3>2
  <2>4. ASSUME read \notin {Unread, NoCommitment}, read = Commits(signers) PROVE OneSigner
    <3>1. read = Commits(secret)
      BY <1>1, <2>4 DEF IdentityInv, Mismatch
    <3>2. secret = signers
      BY <2>4, <3>1 DEF Commits, Keccak
    <3>. QED
      BY <2>3, <3>2
  <2>. QED
    BY <2>3, <2>4
<1>. QED
  BY <1>1, RunInvariant, IdentityInvariant, PTL

=============================================================================
