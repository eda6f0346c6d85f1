---------------------------- MODULE PipelineView ----------------------------
(***************************************************************************)
(* What a reader of the live pipeline sees: the submitter behind the       *)
(* read-proxy of app/web/server.mjs, which caches the pipeline for two     *)
(* seconds, lets concurrent misses share one fetch, and forwards "clear    *)
(* failed".                                                                *)
(*                                                                         *)
(* A fetch is asked for, answered by the submitter with its cards of that  *)
(* moment, and arrives later; the same for a clear and its reply.  Time    *)
(* shows only in the age of the cache entry.                               *)
(***************************************************************************)
EXTENDS Submitter

CONSTANTS
  Readers,      \* UI clients that poll
  Fetches,      \* fetches that can be under way
  None

VARIABLES
  cache,        \* the "pipeline" entry: its value, is it within its TTL
  inflight,     \* fetch -> what the submitter has answered so far
  waiting,      \* reader -> the fetch its poll awaits
  clearing,     \* the clear under way: the cards the submitter removed
  shown,        \* history: the card of each pipeline as last shown
  gone          \* history: pipelines cleared, as the UI was told

viewVars == <<cache, inflight, waiting, clearing, shown, gone>>
allVars == <<submitterVars, viewVars>>

-----------------------------------------------------------------------------
NoCards == [p \in {} |-> None]

(* A fetch as it is asked for: not answered; does a clear overlap with it. *)
NewFetch == [answered |-> FALSE, cards |-> NoCards, overlaps |-> clearing # None]

ViewInit ==
  /\ Init
  /\ cache = None
  /\ inflight = [f \in {} |-> None]
  /\ waiting = [r \in {} |-> None]
  /\ clearing = None
  /\ shown = NoCards
  /\ gone = {}

Show(cards) ==
  shown' = [p \in DOMAIN shown \cup DOMAIN cards |->
              IF p \in DOMAIN cards THEN cards[p] ELSE shown[p]]

Fresh == cache # None /\ cache.fresh

(* cached('pipeline'): a fresh entry, a fetch under way, or a new fetch. *)
PollHit(r) ==
  /\ r \notin DOMAIN waiting
  /\ Fresh
  /\ Show(cache.cards)
  /\ UNCHANGED <<submitterVars, cache, inflight, waiting, clearing, gone>>

Await(r, f) == waiting' = [x \in DOMAIN waiting \cup {r} |->
                             IF x = r THEN f ELSE waiting[x]]

PollJoins(r) ==
  /\ r \notin DOMAIN waiting
  /\ ~Fresh
  /\ \E f \in DOMAIN inflight : Await(r, f)
  /\ UNCHANGED <<submitterVars, cache, inflight, clearing, shown, gone>>

\* Seeded fault: a miss does not look for a fetch under way.
PollFetchesAlways(r) ==
  /\ r \notin DOMAIN waiting
  /\ ~Fresh
  /\ \E f \in Fetches \ DOMAIN inflight :
       /\ Await(r, f)
       /\ inflight' = [x \in DOMAIN inflight \cup {f} |->
                         IF x = f THEN NewFetch ELSE inflight[x]]
  /\ UNCHANGED <<submitterVars, cache, clearing, shown, gone>>

PollFetches(r) ==
  /\ r \notin DOMAIN waiting
  /\ ~Fresh
  /\ inflight = [f \in {} |-> None]
  /\ \E f \in Fetches :
       /\ Await(r, f)
       /\ inflight' = [x \in {f} |-> NewFetch]
  /\ UNCHANGED <<submitterVars, cache, clearing, shown, gone>>

(* GET /pipeline at the submitter, which prunes before it answers. *)
FetchAnswered(f) ==
  /\ f \in DOMAIN inflight
  /\ ~inflight[f].answered
  /\ \E old \in SUBSET DOMAIN jobs : PruneDone(old)
  /\ inflight' = [inflight EXCEPT ![f].answered = TRUE, ![f].cards = jobs']
  /\ UNCHANGED <<cache, waiting, clearing, shown, gone>>

(* The answer arrives, or the fetch fails, which shows as no cards. *)
FetchArrives(f) ==
  /\ f \in DOMAIN inflight
  /\ \E cards \in {inflight[f].cards, NoCards} :
       /\ cache' = [cards |-> cards, fresh |-> TRUE, overlaps |-> inflight[f].overlaps]
       /\ Show(cards)
  /\ inflight' = Drop(inflight, {f})
  /\ waiting' = Drop(waiting, {r \in DOMAIN waiting : waiting[r] = f})
  /\ UNCHANGED <<submitterVars, clearing, gone>>

CacheAges ==
  /\ cache # None
  /\ cache' = [cache EXCEPT !.fresh = FALSE]
  /\ UNCHANGED <<submitterVars, inflight, waiting, clearing, shown, gone>>

-----------------------------------------------------------------------------
(* clearFailedPipeline: the submitter clears, then the proxy drops its cache. *)
ClearForwarded ==
  /\ clearing = None
  /\ ClearFailed
  /\ clearing' = {p \in DOMAIN jobs : jobs[p].stage = "FAILED"}
  /\ inflight' = [f \in DOMAIN inflight |-> [inflight[f] EXCEPT !.overlaps = TRUE]]
  /\ UNCHANGED <<cache, waiting, shown, gone>>

\* Seeded fault: the cache entry is left to age.
ClearRepliedCached ==
  /\ clearing # None
  /\ gone' = gone \cup clearing
  /\ clearing' = None
  /\ UNCHANGED <<submitterVars, cache, inflight, waiting, shown>>

ClearReplied ==
  /\ clearing # None
  /\ cache' = None
  /\ gone' = gone \cup clearing
  /\ clearing' = None
  /\ UNCHANGED <<submitterVars, inflight, waiting, shown>>

-----------------------------------------------------------------------------
View ==
  \/ \E r \in Readers : PollHit(r) \/ PollJoins(r) \/ PollFetches(r)
  \/ \E f \in Fetches : FetchAnswered(f) \/ FetchArrives(f)
  \/ CacheAges
  \/ ClearForwarded
  \/ ClearReplied

Pipeline ==
  /\ \/ \E bundles \in SUBSET Pipelines : SubmitResponse(bundles)
     \/ \E p \in Pipelines : RunPipeline(p) \/ KurierFinalizes(p)
     \/ \E old \in SUBSET Pipelines : PruneDone(old)
     \/ Mine
  /\ UNCHANGED viewVars

ViewSpec == ViewInit /\ [][View \/ Pipeline]_allVars

-----------------------------------------------------------------------------
(***************************************************************************)
(* The panel never runs backwards: whichever reader polls, from the cache  *)
(* or through a fetch, a card is shown no earlier in its pipeline than it  *)
(* was shown before.                                                       *)
(***************************************************************************)
ShownMovesForward ==
  [][\A p \in DOMAIN shown :
       StageRank(shown'[p].stage) >= StageRank(shown[p].stage)]_allVars

(***************************************************************************)
(* "Drop our 2s pipeline cache so the next poll reflects the removal": a   *)
(* cleared card is not in the cache, unless the fetch that brought it was  *)
(* already under way when the clear was forwarded or asked for before the  *)
(* clear was replied to.                                                   *)
(***************************************************************************)
ClearShows ==
  cache # None /\ ~cache.overlaps => DOMAIN cache.cards \cap gone = {}

(***************************************************************************)
(* The same comment without the exception: "the next poll reflects the     *)
(* removal immediately".                                                   *)
(***************************************************************************)
ClearShowsImmediately ==
  cache # None => DOMAIN cache.cards \cap gone = {}

=============================================================================
