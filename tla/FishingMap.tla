------------------------------ MODULE FishingMap ------------------------------
(***************************************************************************)
(* The fishing dashboard's fetchWeatherAndFishing, called for the centre   *)
(* of the map, for the position of the user, by a refresh ...  The calls   *)
(* overlap and are answered in any order.  The Vue store numbers them with *)
(* packages/utils/src/sequencedTask.ts; the React store does not.          *)
(***************************************************************************)
EXTENDS Naturals

CONSTANTS
    Stores,      \* the stores: "guarded" (Vue), "bare" (React)
    Fetches      \* calls of fetchWeatherAndFishing

NoFetch == 0

VARIABLES
    store,       \* which store
    seq,         \* the calls begun so far, and the sequence number of the guard
    fetch,       \* each call, named by its number
    panel        \* what the store shows: whose data, whose error, and loading

mapVars == <<store, seq, fetch, panel>>

MapTypeOK ==
    /\ store \in Stores
    /\ seq \in 0..Fetches
    /\ fetch \in [1..Fetches -> {"unused", "asked", "over"}]
    /\ panel \in [data : 0..Fetches, error : 0..Fetches, loading : BOOLEAN]

MapInit ==
    /\ store \in Stores
    /\ seq = 0
    /\ fetch = [f \in 1..Fetches |-> "unused"]
    /\ panel = [data |-> NoFetch, error |-> NoFetch, loading |-> FALSE]

\* begin(); the flags are set whatever is under way.
fetchWeatherAndFishing ==
    /\ seq < Fetches
    /\ seq' = seq + 1
    /\ fetch' = [fetch EXCEPT ![seq + 1] = "asked"]
    /\ panel' = [panel EXCEPT !.error = NoFetch, !.loading = TRUE]
    /\ UNCHANGED store

\* Mutant: the number of a call is as good as any later one.
AtMost(token) == token <= seq

isActive(token) == token = seq

\* An answer of the backend, or an error; an overtaken call changes nothing,
\* the loading of the last one included.
FetchAnswered(f) ==
    /\ fetch[f] = "asked"
    /\ fetch' = [fetch EXCEPT ![f] = "over"]
    /\ \E outcome \in {[panel EXCEPT !.data = f], [panel EXCEPT !.error = f]} :
          panel' = IF store = "bare" \/ isActive(f)
                   THEN [outcome EXCEPT !.loading = FALSE] ELSE panel
    /\ UNCHANGED <<store, seq>>

MapNext == fetchWeatherAndFishing \/ \E f \in 1..Fetches : FetchAnswered(f)

MapSpec == MapInit /\ [][MapNext]_mapVars

\* When the dashboard is not loading it shows the outcome of the last call, the
\* data of it or its error, however late the earlier ones are answered; and it
\* is loading as long as that call is not answered.
LatestWins ==
    store = "guarded" /\ seq > 0 =>
        IF fetch[seq] = "asked" THEN panel.loading
        ELSE ~panel.loading /\ seq \in {panel.data, panel.error}
=============================================================================
