--------------------------- MODULE ChallengeOnce ----------------------------
(***************************************************************************)
(* What the challenge service promises, with nothing said of how: an id is *)
(* handed out once, taken by at most one answer, and judged at most once;  *)
(* a judgement is never replaced by the other one.  The service may close  *)
(* a challenge (it expired, or a restart forgot it), and a closed id is    *)
(* never used again.                                                       *)
(***************************************************************************)
CONSTANT Challenges

VARIABLE phase

Judged == {"verified", "rejected"}
Phases == {"unused", "open", "claimed", "closed"} \cup Judged

TypeOK == phase \in [Challenges -> Phases]

Init == phase = [c \in Challenges |-> "unused"]

Move(c, from, to) ==
  /\ phase[c] \in from
  /\ phase' = [phase EXCEPT ![c] = to]

Open(c)      == Move(c, {"unused"}, "open")
Claim(c)     == Move(c, {"open"}, "claimed")
Judge(c)     == \E v \in Judged : Move(c, {"claimed"}, v)

(***************************************************************************)
(* A restart closes every challenge at once, expiry one of them.           *)
(***************************************************************************)
Close(S) ==
  /\ \A c \in S : phase[c] # "unused"
  /\ phase' = [c \in Challenges |-> IF c \in S THEN "closed" ELSE phase[c]]

Next ==
  \/ \E c \in Challenges : Open(c) \/ Claim(c) \/ Judge(c)
  \/ \E S \in SUBSET Challenges : Close(S)

Spec == Init /\ [][Next]_phase

=============================================================================
