--------------------------------- MODULE Lab ---------------------------------
(***************************************************************************)
(* The lab page in the browser (dealfinder/static/lab/lab.js): its modes,   *)
(* its stream and its sign-in.  The page runs on one thread, but every      *)
(* fetch is awaited: the user acts while answers are under way, and they    *)
(* arrive in any order or not at all.                                       *)
(*                                                                         *)
(* What a view shows is reduced to whose answer it is: the mode, the query  *)
(* and the user it was fetched for.  The `watch' button and the count badge *)
(* beside the tab change nothing else of the page and are left out.         *)
(***************************************************************************)
EXTENDS Integers, FiniteSets

CONSTANTS
    Modes,      \* the modes of the rail that are used
    Words,      \* queries the user types
    Users,      \* who may sign in
    Slots       \* bound: fetches under way at once

\* What a view or a slot holds besides the answers of modes.
Notes == {"none", "free", "remove", "empty", "off", "sign in", "loading", "error", "nothing"}

ASSUME LabAssumption ==
    /\ Modes # {} /\ Words # {} /\ Slots # {}
    /\ "" \notin Words /\ Modes \cap Notes = {}

VARIABLES
    live,       \* LIVE: the page was served with live data on
    mode,       \* state.mode, or "none" before the page starts
    words,      \* state.q
    ready,      \* data-ready of the current mode
    loaded,     \* modes whose `loaded' flag is set
    body,       \* view -> what it shows
    flying,     \* slot -> the load or removal under way
    stream,     \* the query of the last EventSource, "" for null
    open,       \* the queries whose EventSource is open
    session     \* the signed-in user, or Nobody

labVars == <<live, mode, words, ready, loaded, body, flying, stream, open, session>>

Nobody == "nobody"
Bespoke == {"deals", "stream", "pipeline", "evals", "models", "tracking", "semantic", "ask", "watchlist"}
NeedsLive == {"deals", "stream", "watchlist"}
KeepsFlag == {"deals", "pipeline", "evals"}              \* a failed load leaves the flag set
ShowsNoLoading == {"pipeline", "evals", "models", "tracking"}
AsksWords == {"deals", "pipeline", "semantic", "ask", "context", "review", "suggestions"}
Toggles == {"ask", "review"}                            \* modes with a checkbox

\* All but the bespoke modes share one view.
View(m) == IF m \in Bespoke THEN m ELSE "generic"
Views == {View(m) : m \in Modes \cup {"stream", "watchlist"}}

\* What the load of m fetches.
Wanted(m) == [mode |-> m, words |-> IF m \in AsksWords THEN words ELSE "",
              user |-> IF m = "watchlist" THEN session ELSE Nobody]

Note(what) == [mode |-> what, words |-> "", user |-> Nobody]
Free == [what |-> Note("free"), rail |-> FALSE]

-----------------------------------------------------------------------------
LabInit ==
    /\ live \in BOOLEAN
    /\ mode = "none" /\ ready = FALSE /\ loaded = {}
    /\ words \in Words
    /\ body = [v \in Views |-> Note("empty")]
    /\ flying = [s \in Slots |-> Free]
    /\ stream = "" /\ open = {}
    /\ session = Nobody

Shows(m, what) == body' = [body EXCEPT ![View(m)] = what]

Starts(s, m, rail) == flying' = [flying EXCEPT ![s] = [what |-> Wanted(m)', rail |-> rail]]

\* liveOff
LoadOff(m, flags) ==
    /\ m \in NeedsLive /\ ~live
    /\ Shows(m, Note("off"))
    /\ loaded' = flags /\ ready' = TRUE
    /\ UNCHANGED flying

\* loadWatchlist with nobody signed in
LoadSignIn(m, flags, rail) ==
    /\ m = "watchlist" /\ live /\ session' = Nobody
    /\ Shows(m, Note("sign in"))
    /\ loaded' = flags \ {m} /\ ready' = (rail \/ ready)
    /\ UNCHANGED flying

\* Any other load, up to its first await: a set flag returns at once.
LoadFetch(m, flags, rail) ==
    /\ m # "stream"
    /\ m \in NeedsLive => live
    /\ m = "watchlist" => session' # Nobody
    /\ \/ /\ m \in flags
          /\ loaded' = flags /\ ready' = (rail \/ ready)
          /\ UNCHANGED <<body, flying>>
       \/ /\ m \notin flags
          /\ IF m \in ShowsNoLoading THEN UNCHANGED body ELSE Shows(m, Note("loading"))
          /\ loaded' = flags \cup {m} /\ ready' = (~rail /\ ready)
          /\ \E s \in Slots : flying[s] = Free /\ Starts(s, m, rail)

\* Mutant of Closes: the old EventSource is only forgotten.
ClosesNot(all, old) == all

\* stream.close()
Closes(all, old) == all \ {old}

\* loadStream, which setMode alone calls; `flags' is `loaded' as the caller left it
LoadStream(flags) ==
    /\ live
    /\ IF "stream" \in flags
       THEN /\ loaded' = flags /\ ready' = TRUE
            /\ UNCHANGED <<body, stream, open>>
       ELSE /\ Shows("stream", Note("empty"))
            /\ loaded' = flags \cup {"stream"} /\ ready' = FALSE
            /\ stream' = words'
            /\ open' = Closes(open, stream) \cup {words'}
    /\ UNCHANGED flying

\* setMode: a switch clears the ready flag; another mode than the stream's ends it.
SetMode(m, flags) ==
    LET leaves == m # "stream" /\ stream # ""
        kept == IF leaves THEN flags \ {"stream"} ELSE flags
    IN /\ mode' = m
       /\ \/ m = "stream" /\ LoadStream(kept)
          \/ /\ \/ LoadOff(m, kept)
                \/ LoadSignIn(m, kept, TRUE)
                \/ LoadFetch(m, kept, TRUE)
             /\ stream' = IF leaves THEN "" ELSE stream
             /\ open' = IF leaves THEN Closes(open, stream) ELSE open

\* The rail, and the start of the page.
Click(m) ==
    /\ UNCHANGED <<live, words, session>>
    /\ SetMode(m, loaded)

\* The search box: every flag goes.
Go(w) ==
    /\ mode # "none"
    /\ words' = w
    /\ UNCHANGED <<live, session>>
    /\ SetMode(mode, {})

\* The checkbox of a mode.
Toggle(m) ==
    /\ mode # "none" /\ m \in Modes
    /\ UNCHANGED <<live, words, session>>
    /\ IF mode = m THEN SetMode(m, loaded \ {m})
       ELSE loaded' = loaded \ {m} /\ UNCHANGED <<mode, ready, body, flying, stream, open>>

\* onAuthStateChange: signed in or out, here or in another tab, or a new token.
AuthChange(who) ==
    /\ live /\ mode # "none"
    /\ session' = who
    /\ UNCHANGED <<live, mode, words, stream, open>>
    /\ IF mode # "watchlist"
       THEN loaded' = loaded \ {"watchlist"} /\ UNCHANGED <<ready, body, flying>>
       ELSE \/ LoadSignIn(mode, loaded, FALSE)
            \/ LoadFetch(mode, loaded \ {"watchlist"}, FALSE)

\* `remove' of a watched item: the DELETE is sent
RemoveWatch ==
    /\ mode = "watchlist" /\ body["watchlist"].mode = "watchlist"
    /\ \E s \in Slots :
         /\ flying[s] = Free
         /\ flying' = [flying EXCEPT ![s] = [Free EXCEPT !.what = Note("remove")]]
    /\ UNCHANGED <<live, mode, words, ready, loaded, body, stream, open, session>>

\* The DELETE was answered: the list is loaded again, whatever the mode is now.
Removed(s) ==
    /\ flying[s].what.mode = "remove"
    /\ UNCHANGED <<live, mode, words, session, ready, stream, open>>
    /\ IF session = Nobody
       THEN /\ Shows("watchlist", Note("sign in"))
            /\ loaded' = loaded \ {"watchlist"}
            /\ flying' = [flying EXCEPT ![s] = Free]
       ELSE /\ Shows("watchlist", Note("loading"))
            /\ loaded' = loaded \cup {"watchlist"}
            /\ Starts(s, "watchlist", FALSE)

\* The DELETE was lost: the handler ends with the exception.
RemoveLost(s) ==
    /\ flying[s].what.mode = "remove"
    /\ flying' = [flying EXCEPT ![s] = Free]
    /\ UNCHANGED <<live, mode, words, ready, loaded, body, stream, open, session>>

\* A load ends: rendered, or an error shown; then setMode's finally.
Arrive(s, ok) ==
    LET f == flying[s]
        m == f.what.mode
    IN /\ m \notin {"free", "remove"}
       /\ Shows(m, IF ok THEN f.what ELSE Note("error"))
       /\ loaded' = IF ok \/ m \in KeepsFlag THEN loaded ELSE loaded \ {m}
       /\ ready' = (ready \/ (f.rail /\ mode = m))
       /\ flying' = [flying EXCEPT ![s] = Free]
       /\ UNCHANGED <<live, mode, words, stream, open, session>>

-----------------------------------------------------------------------------
(* The stream's events; none arrives once it is closed.                     *)

Results(w) ==
    /\ w \in open
    /\ Shows("stream", [mode |-> "stream", words |-> w, user |-> Nobody])
    /\ UNCHANGED <<live, mode, words, ready, loaded, flying, stream, open, session>>

\* Mutant of Resolves: an error closes the stream and leaves the promise open.
ResolvesOnDone(failed) == ~failed

\* both handlers call resolve
Resolves(failed) == TRUE

\* `done', or `error': the stream dropped
StreamEnds(w, failed) ==
    /\ w \in open
    /\ open' = open \ {w}
    /\ loaded' = IF failed THEN loaded \ {"stream"} ELSE loaded
    /\ ready' = (ready \/ (mode = "stream" /\ Resolves(failed)))
    /\ IF body["stream"].mode = "stream" THEN UNCHANGED body
       ELSE Shows("stream", Note(IF failed THEN "error" ELSE "nothing"))
    /\ UNCHANGED <<live, mode, words, flying, stream, session>>

-----------------------------------------------------------------------------
UserActs ==
    \/ \E m \in Modes : Click(m)
    \/ \E w \in Words : Go(w)
    \/ \E m \in Toggles : Toggle(m)
    \/ \E who \in Users \cup {Nobody} : AuthChange(who)
    \/ RemoveWatch

Settles ==
    \/ \E s \in Slots : Removed(s) \/ RemoveLost(s) \/ Arrive(s, TRUE) \/ Arrive(s, FALSE)
    \/ \E w \in open : Results(w) \/ StreamEnds(w, TRUE) \/ StreamEnds(w, FALSE)

LabNext == UserActs \/ Settles

LabSpec == LabInit /\ [][LabNext]_labVars

-----------------------------------------------------------------------------
(* Properties                                                              *)

UnderWay == {s \in Slots : flying[s] # Free}

\* loadStream and setMode: "the open EventSource, closed by a new search or a mode
\* switch".  However searches, switches and late events follow each other, the rows
\* in the stream's view are of the search that runs, no stream runs behind another
\* mode, and at most one runs.
StreamShowsOneSearch ==
    /\ mode = "stream" /\ body["stream"].mode = "stream" => body["stream"].words = words
    /\ open \subseteq {stream}
    /\ open # {} => mode = "stream"

\* setMode: a mode with nothing under way is ready, whichever loads failed, were
\* abandoned or answered in another mode's time: what waits for the flag never waits
\* for ever.
NeverStuck == mode # "none" /\ UnderWay = {} /\ open = {} => ready

\* lab.js: "The ready flag marks a finished render".  With nothing under way, the view
\* shows what this mode fetched, or why it could not; the modes that share a view, their
\* late answers and the return to a loaded one, included.
ReadyMarksRender ==
    ready /\ UnderWay = {} =>
        body[View(mode)].mode \in {mode, "off", "sign in", "error", "nothing", "empty"}

=============================================================================
