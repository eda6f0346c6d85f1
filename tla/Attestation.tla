---------------------------- MODULE Attestation -----------------------------
(***************************************************************************)
(* One attestation: the client (host/src/attest.rs, and the end of prove   *)
(* in por-zk/por_core.rs) and the notary (host/src/bin/notary.rs, and      *)
(* por-zk/zerion_notary.rs) over one connection, and the notary process    *)
(* with its key file.  The two pairs differ in how a message ends: by its  *)
(* length, or by closing the sender's half of the connection.              *)
(*                                                                         *)
(* Between them may stand a proxy that collapses a half-close into a full  *)
(* teardown.  The joint MPC-TLS session (tlsn, external) is one step of    *)
(* both ends.                                                              *)
(***************************************************************************)
EXTENDS Naturals, Sequences, FiniteSets

CONSTANTS Links,                \* [framing, collapses]: the deployments
          MaxKeys, MaxFaults    \* bounds of keys drawn, of crashes and cuts

ASSUME LinksAssumption ==
  /\ Links \subseteq [framing : {"length", "close"}, collapses : BOOLEAN]
  /\ MaxKeys \in Nat /\ MaxFaults \in Nat

VARIABLES
  link,
  client,       \* where attest_header is
  task,         \* where run_notary is
  up, down,     \* what is in flight to the notary, and back
  torn,         \* the connection is gone
  process,      \* the notary: "off", "writing" its key, "up"
  key, keyFile, \* the key in memory, and what the file holds
  keys,         \* how many keys were drawn so far
  issued,       \* the keys that signed attestations
  faults        \* crashes and cuts so far; bounded

session == <<client, task, up, down, torn>>
notary == <<process, key, keyFile, keys>>
attVars == <<link, session, notary, issued, faults>>

NoFile == 0     \* no key file; keys are numbered from 2
HalfFile == 1   \* a file that was not written to its end

AttInit ==
  /\ link \in Links
  /\ client = "idle" /\ task = "none"
  /\ up = <<>> /\ down = <<>> /\ torn = FALSE
  /\ process = "off" /\ key = NoFile /\ keyFile = NoFile /\ keys = 2
  /\ issued = {} /\ faults = 0

-----------------------------------------------------------------------------
(***************************************************************************)
(* load_or_create_key, before the socket is bound: a whole file is loaded, *)
(* else a key is drawn and written, and only then the notary listens.      *)
(* A file that is there can be read: the code would draw a new key on an   *)
(* error of the read, too.                                                 *)
(***************************************************************************)
LoadKey ==
  /\ process = "off"
  /\ keyFile \notin {NoFile, HalfFile}
  /\ key' = keyFile
  /\ process' = "up"
  /\ UNCHANGED <<link, session, keyFile, keys, issued, faults>>

DrawTo(next) ==
  /\ process = "off"
  /\ keyFile \in {NoFile, HalfFile}
  /\ keys < MaxKeys + 2
  /\ key' = keys
  /\ keys' = keys + 1
  /\ keyFile' = HalfFile
  /\ process' = next
  /\ UNCHANGED <<link, session, issued, faults>>

\* Seeded fault: the notary listens while the key is being written.
DrawKeyServing == DrawTo("up")

DrawKey == DrawTo("writing")

WriteKey ==
  /\ process = "writing"
  /\ keyFile' = key
  /\ process' = "up"
  /\ UNCHANGED <<link, session, key, keys, issued, faults>>

-----------------------------------------------------------------------------
Framed(message) ==
  IF link.framing = "length" THEN <<"length", message>> ELSE <<message, "end">>

\* A whole message stands at the head of what has arrived.
Whole(wire, message) == Len(wire) >= 2 /\ SubSeq(wire, 1, 2) = Framed(message)

Rest(wire) == SubSeq(wire, 3, Len(wire))

(***************************************************************************)
(* The client connects; the notary spawns a task per connection.           *)
(***************************************************************************)
Connect ==
  /\ client = "idle"
  /\ IF process = "up"
     THEN client' = "mpc" /\ task' = "mpc"
     ELSE client' = "failed" /\ task' = task
  /\ UNCHANGED <<link, up, down, torn, notary, issued, faults>>

(***************************************************************************)
(* Commit, connect to the server, ask, prove and close: both ends leave    *)
(* the session together, or, on any answer but 200 or an error, the client *)
(* drops the connection.                                                   *)
(***************************************************************************)
MpcSession ==
  /\ client = "mpc" /\ task = "mpc"
  /\ client' = "write" /\ task' = "read"
  /\ UNCHANGED <<link, up, down, torn, notary, issued, faults>>

ServerRefuses ==
  /\ client = "mpc"
  /\ faults < MaxFaults
  /\ client' = "failed" /\ torn' = TRUE
  /\ faults' = faults + 1
  /\ UNCHANGED <<link, task, up, down, notary, issued>>

\* Seeded fault: the length-prefixed request is ended by a half-close, too.
RequestClosed == <<"length", "request", "end">>

Request == Framed("request")

(***************************************************************************)
(* A half-close on a proxy that collapses it takes the way back along.     *)
(***************************************************************************)
Collapsed(frames) == link.collapses /\ frames[Len(frames)] = "end"

ClientWrite ==
  /\ client = "write" /\ ~torn
  /\ up' = up \o Request
  /\ torn' = Collapsed(Request)
  /\ client' = "read"
  /\ UNCHANGED <<link, task, down, notary, issued, faults>>

\* Seeded fault: the notary waits for the end of the stream.
NotaryReadToEnd ==
  /\ task = "read"
  /\ Whole(up, "request") /\ up[Len(up)] = "end"
  /\ up' = <<>>
  /\ task' = "sign"
  /\ UNCHANGED <<link, client, down, torn, notary, issued, faults>>

NotaryRead ==
  /\ task = "read"
  /\ Whole(up, "request")
  /\ up' = Rest(up)
  /\ task' = "sign"
  /\ UNCHANGED <<link, client, down, torn, notary, issued, faults>>

(***************************************************************************)
(* The notary signs, writes and closes; its own close follows the answer.  *)
(***************************************************************************)
NotaryWrite ==
  /\ task = "sign"
  /\ issued' = issued \cup {key}
  /\ task' = IF torn THEN "failed" ELSE "done"
  /\ down' = IF torn THEN down ELSE down \o Framed("attestation")
  /\ UNCHANGED <<link, client, up, torn, notary, faults>>

\* validate: the attestation answers this request.
ClientRead ==
  /\ client = "read"
  /\ Whole(down, "attestation")
  /\ down' = Rest(down)
  /\ client' = "done"
  /\ UNCHANGED <<link, task, up, torn, notary, issued, faults>>

(***************************************************************************)
(* The end of the stream before the message: an error at either end.       *)
(***************************************************************************)
ClientCutOff ==
  /\ client \in {"mpc", "write", "read"}
  /\ torn \/ task \in {"failed", "done"}
  /\ ~Whole(down, "attestation")
  /\ client' = "failed"
  /\ torn' = TRUE
  /\ UNCHANGED <<link, task, up, down, notary, issued, faults>>

NotaryCutOff ==
  /\ task \in {"mpc", "read"}
  /\ torn
  /\ ~Whole(up, "request")
  /\ task' = "failed"
  /\ UNCHANGED <<link, client, up, down, torn, notary, issued, faults>>

-----------------------------------------------------------------------------
\* The network cuts the connection; what is in flight is lost.
Cut ==
  /\ faults < MaxFaults
  /\ client \in {"mpc", "write", "read"} /\ ~torn
  /\ torn' = TRUE
  /\ up' = <<>> /\ down' = <<>>
  /\ faults' = faults + 1
  /\ UNCHANGED <<link, client, task, notary, issued>>

\* The notary dies, at any point; its task and its connection with it.
NotaryCrash ==
  /\ faults < MaxFaults
  /\ process # "off"
  /\ process' = "off"
  /\ task' = IF task = "none" THEN "none" ELSE "failed"
  /\ torn' = (task # "none")
  /\ up' = <<>> /\ down' = <<>>
  /\ faults' = faults + 1
  /\ UNCHANGED <<link, client, key, keyFile, keys, issued>>

\* A later attestation is a new connection.
NewSession ==
  /\ client' = "idle" /\ task' = "none"
  /\ up' = <<>> /\ down' = <<>> /\ torn' = FALSE
  /\ UNCHANGED <<link, notary, issued, faults>>

AttSteps ==
  \/ LoadKey \/ DrawKey \/ WriteKey
  \/ Connect \/ MpcSession
  \/ ClientWrite \/ NotaryRead \/ NotaryWrite \/ ClientRead
  \/ ClientCutOff \/ NotaryCutOff
  \/ ServerRefuses \/ Cut \/ NotaryCrash
  \/ NewSession

-----------------------------------------------------------------------------
AttTypeOK ==
  /\ link \in Links
  /\ client \in {"idle", "mpc", "write", "read", "done", "failed"}
  /\ task \in {"none", "mpc", "read", "sign", "done", "failed"}
  /\ Len(up) <= 2 /\ Len(down) <= 2
  /\ {torn} \subseteq BOOLEAN
  /\ process \in {"off", "writing", "up"}
  /\ {key, keyFile} \subseteq 0..keys
  /\ issued \subseteq 2..(keys - 1)
  /\ faults \in 0..MaxFaults

(***************************************************************************)
(* "This signing key is the notary's identity": all attestations ever      *)
(* issued bear one key, although the key file is written in place and the  *)
(* process may die while writing it.                                       *)
(***************************************************************************)
OneIdentity == Cardinality(issued) <= 1

(***************************************************************************)
(* "The exchange must survive L4 proxies that collapse a half-close": it   *)
(* fails only after a fault, or where messages end with a half-close and   *)
(* the proxy takes that for the end of all; or the notary is not up yet.   *)
(***************************************************************************)
FailsForCause ==
  client = "failed" =>
    \/ faults > 0
    \/ link.framing = "close" /\ link.collapses
    \/ task = "none"

=============================================================================
