----------------------------- MODULE QueryCache -----------------------------
(***************************************************************************)
(* One query of the cache that all pages share (src/web/src/lib/            *)
(* query-client.ts), reduced to what its users can tell apart: whether the  *)
(* cached answer was read after every change that this tab has made to the  *)
(* data it shows.                                                           *)
(*                                                                         *)
(* An answer is overwritten by the next one that arrives.  An invalidation  *)
(* repeats a request under way, unless that is the first.  A request that   *)
(* fails once is repeated (retry: 1), which is the same request here.       *)
(***************************************************************************)
EXTENDS Naturals, FiniteSets

VARIABLES
    Part,       \* the parts of an answer that can change on their own (never changes)
    current,    \* parts whose cached value has every change made from this tab
    loaded,     \* there is data
    stale,      \* it was invalidated
    fetch       \* the request, and the parts of its answer that have every change

NoFetch == [phase |-> "none", has |-> {}]
Asked == [phase |-> "asked", has |-> {}]

CacheTypeOK ==
    /\ current \in SUBSET Part
    /\ loaded \in BOOLEAN /\ stale \in BOOLEAN
    /\ fetch \in [phase : {"none", "asked", "served"}, has : SUBSET Part]

CacheInit == current = Part /\ loaded = FALSE /\ stale = FALSE /\ fetch = NoFetch

Ask == IF fetch = NoFetch THEN Asked ELSE fetch

\* A query that comes on display, or is on display when the window is focused, is
\* fetched when it has no data or was invalidated, and may be when its data is
\* older than 30 seconds.
Show(shown) ==
    /\ \E old \in BOOLEAN : fetch' = IF shown /\ (~loaded \/ stale \/ old) THEN Ask ELSE fetch
    /\ UNCHANGED <<current, loaded, stale>>

\* The server reads.
ServeFetch ==
    /\ fetch.phase = "asked"
    /\ fetch' = [phase |-> "served", has |-> Part]
    /\ UNCHANGED <<current, loaded, stale>>

Arrive ==
    /\ fetch.phase = "served"
    /\ current' = fetch.has
    /\ loaded' = TRUE /\ stale' = FALSE
    /\ fetch' = NoFetch

\* The server has changed the parts on behalf of this tab.
Changed(parts) ==
    /\ current' = current \ parts
    /\ fetch' = [fetch EXCEPT !.has = @ \ parts]
    /\ UNCHANGED <<loaded, stale>>

\* mutant: a request under way is not repeated
MutInvalidate(shown) ==
    /\ stale' = TRUE
    /\ fetch' = IF shown THEN Ask ELSE fetch
    /\ UNCHANGED <<current, loaded>>

\* invalidateQueries
Invalidate(shown) ==
    /\ stale' = TRUE
    /\ fetch' = IF ~shown THEN fetch ELSE IF loaded THEN Asked ELSE Ask
    /\ UNCHANGED <<current, loaded>>

\* setQueryData with an answer that has these parts; a request under way stays.
SetData(has) ==
    /\ current' = has
    /\ loaded' = TRUE /\ stale' = FALSE
    /\ UNCHANGED fetch
=============================================================================
