----------------------------- MODULE LabProofs -----------------------------
(***************************************************************************)
(* For any modes, queries, users and number of fetches under way: the       *)
(* stream's view shows the search that runs, and no mode of the lab page    *)
(* waits for its ready flag with nothing under way that will set it.  For   *)
(* any snapshots, saved searches and failures: the worker tells a user of a *)
(* deal once, and the gates of the flow, the promotion cycle and the        *)
(* registry hold.  For any snapshot, signals, rankings, lexicon and models: *)
(* an answer that was reviewed is as safe as its review can make it, and    *)
(* the agentic loop makes progress and answers from the sufficient evidence *)
(* it found.  For any result set: licences are asked before a row feeds or  *)
(* gets a verdict, and traps sink below deals.  For any items: union-find   *)
(* groups what chains of pairs join, and each group keeps its cheapest.     *)
(* For any items and costs: a packed window is the best one that fits.      *)
(***************************************************************************)
EXTENDS Agents, Lab, Jobs, RatingCheck, FiniteSetTheorems, FunctionTheorems, WellFoundedInduction, TLAPS

(* The page                                                                *)

\* What a view may show and a slot may fetch.
Content == [mode : Modes \cup {"stream", "watchlist"} \cup Notes,
          words : Words \cup {""}, user : Users \cup {Nobody}]

LabTyped ==
    /\ live \in BOOLEAN /\ ready \in BOOLEAN
    /\ mode \in Modes \cup {"none"}
    /\ words \in Words
    /\ session \in Users \cup {Nobody}
    /\ body \in [Views -> Content]
    /\ flying \in [Slots -> [what : Content, rail : BOOLEAN]]

\* The stream that is not null is the one of the mode and the query on the page; only
\* it may be open, its flag is set only while it exists, and no awaited fetch renders
\* into its view.
StreamOK ==
    /\ stream # "" => live /\ mode = "stream" /\ stream = words
    /\ open \subseteq {stream} \ {""}
    /\ "stream" \in loaded => stream # ""
    /\ mode = "stream" /\ body["stream"].mode = "stream" => body["stream"].words = words
    /\ \A s \in Slots : flying[s].what.mode # "stream"

\* A mode that is not ready is owed its flag: by a load that setMode awaits, or by the
\* stream.
ReadyOK ==
    ~ready /\ mode # "none" =>
        \/ \E s \in Slots : flying[s].rail = TRUE /\ flying[s].what.mode = mode
        \/ mode = "stream" /\ open # {}

LabInv == LabTyped /\ StreamOK /\ ReadyOK

\* Only the stream has the stream's view.
LEMMA ViewOfStream == \A m : View(m) = "stream" <=> m = "stream"
  BY DEF View, Bespoke

\* The views of the stream and of the watchlist exist whatever the modes are.
LEMMA ViewsHold == "stream" \in Views /\ "watchlist" \in Views
  BY DEF Views, View, Bespoke

\* A note is something a view may show.
LEMMA NotesAreShown == \A n \in Notes : Note(n) \in Content
  BY DEF Note, Content

\* What a load of any mode asks for is something a view may show.
LEMMA WantedIsShown ==
    ASSUME words \in Words, session \in Users \cup {Nobody}, NEW m \in Modes \cup {"watchlist"}
    PROVE  Wanted(m) \in Content /\ Wanted(m).mode = m
  BY DEF Wanted, Content

\* A view that is written shows what was written; the stream's is written by the
\* stream's mode only.
LEMMA ShowsOneView ==
    ASSUME body \in [Views -> Content], NEW m, View(m) \in Views, NEW what \in Content, Shows(m, what)
    PROVE  /\ body' \in [Views -> Content]
           /\ m = "stream" => body'["stream"] = what
           /\ m # "stream" => body'["stream"] = body["stream"]
  BY ViewOfStream, ViewsHold DEF Shows

\* The page before it starts.
LEMMA LabInitInv == LabInit => LabInv
<1> SUFFICES ASSUME LabInit PROVE LabInv
  OBVIOUS
<1>1. "empty" \in Notes /\ "free" \in Notes
  BY DEF Notes
<1>2. Note("empty") \in Content /\ Note("free") \in Content
  BY <1>1, NotesAreShown
<1>3. Free \in [what : Content, rail : BOOLEAN]
  BY <1>2 DEF Free
<1>4. LabTyped
  BY <1>2, <1>3 DEF LabInit, LabTyped
<1>5. StreamOK /\ ReadyOK
  BY DEF LabInit, StreamOK, ReadyOK, Free, Note
<1> QED
  BY <1>4, <1>5 DEF LabInv

\* A load of another mode than the stream's, up to its first await, sets the flag or is
\* under way, and leaves the stream's view alone.
LEMMA LoadKeeps ==
    ASSUME LabInv, NEW m \in Modes, NEW flags, NEW rail \in BOOLEAN,
           words' \in Words, session' \in Users \cup {Nobody},
           LoadOff(m, flags) \/ LoadSignIn(m, flags, rail) \/ LoadFetch(m, flags, rail)
    PROVE  /\ ready' \in BOOLEAN
           /\ body' \in [Views -> Content]
           /\ flying' \in [Slots -> [what : Content, rail : BOOLEAN]]
           /\ \A s \in Slots : flying'[s].what.mode # "stream"
           /\ m # "stream" => body'["stream"] = body["stream"]
           /\ m = "stream" => ~live /\ body'["stream"].mode = "off"
           /\ loaded' \subseteq flags \cup {m}
           /\ m = "stream" => loaded' \subseteq flags
           /\ rail => \/ ready'
                      \/ \E s \in Slots : flying'[s].rail = TRUE /\ flying'[s].what.mode = m
           /\ ~rail => ready' \/ ~ready \/ ~live
           /\ \A s \in Slots : flying[s].rail = TRUE => flying'[s] = flying[s]
<1> DEFINE Slot == [what : Content, rail : BOOLEAN]
<1>t. /\ ready \in BOOLEAN /\ body \in [Views -> Content] /\ flying \in [Slots -> Slot]
      /\ \A s \in Slots : flying[s].what.mode # "stream"
  BY DEF LabInv, LabTyped, StreamOK
<1>v. View(m) \in Views
  BY DEF Views
<1>n. Note("off") \in Content /\ Note("sign in") \in Content /\ Note("loading") \in Content
  BY NotesAreShown DEF Notes
<1>1. CASE LoadOff(m, flags)
  <2>1. m \in NeedsLive /\ ~live /\ loaded' = flags /\ ready' = TRUE /\ flying' = flying
    BY <1>1 DEF LoadOff
  <2>2. /\ body' \in [Views -> Content]
        /\ m = "stream" => body'["stream"] = Note("off")
        /\ m # "stream" => body'["stream"] = body["stream"]
    BY <1>t, <1>v, <1>n, <1>1, ShowsOneView DEF LoadOff
  <2>3. Note("off").mode = "off"
    BY DEF Note
  <2> QED
    BY <1>t, <2>1, <2>2, <2>3
<1>2. CASE LoadSignIn(m, flags, rail)
  <2>1. m # "stream" /\ loaded' = flags \ {m} /\ ready' = (rail \/ ready) /\ flying' = flying
    BY <1>2 DEF LoadSignIn
  <2>2. body' \in [Views -> Content] /\ body'["stream"] = body["stream"]
    BY <1>t, <1>v, <1>n, <1>2, <2>1, ShowsOneView DEF LoadSignIn
  <2> QED
    BY <1>t, <2>1, <2>2
<1>3. CASE LoadFetch(m, flags, rail)
  <2>1. m # "stream"
    BY <1>3 DEF LoadFetch
  <2>2. CASE m \in flags
    BY <1>t, <1>3, <2>1, <2>2 DEF LoadFetch
  <2>3. CASE m \notin flags
    <3>1. /\ IF m \in ShowsNoLoading THEN UNCHANGED body ELSE Shows(m, Note("loading"))
          /\ loaded' = flags \cup {m} /\ ready' = (~rail /\ ready)
      BY <1>3, <2>3 DEF LoadFetch
    <3>2. PICK s \in Slots : flying[s] = Free /\ Starts(s, m, rail)
      BY <1>3, <2>3 DEF LoadFetch
    <3>3. Wanted(m)' \in Content /\ Wanted(m)'.mode = m
      BY DEF Wanted, Content
    <3> DEFINE new == [what |-> Wanted(m)', rail |-> rail]
    <3>4. new \in Slot /\ new.what.mode = m /\ new.rail = rail
      BY <3>3
    <3>5. flying' = [flying EXCEPT ![s] = new]
      BY <3>2 DEF Starts
    <3> HIDE DEF new
    <3>6. /\ flying' \in [Slots -> Slot]
          /\ flying'[s] = new /\ \A t \in Slots : t # s => flying'[t] = flying[t]
      BY <1>t, <3>4, <3>5
    <3>7. flying[s].rail = FALSE
      BY <3>2 DEF Free
    <3>8. body' \in [Views -> Content] /\ body'["stream"] = body["stream"]
      BY <1>t, <1>v, <1>n, <2>1, <3>1, ShowsOneView
    <3> QED
      BY <1>t, <2>1, <3>1, <3>4, <3>6, <3>7, <3>8
  <2> QED
    BY <2>2, <2>3
<1> QED
  BY <1>1, <1>2, <1>3

\* Choosing a mode, from the rail, the search box or a checkbox.
LEMMA SetModeInv ==
    ASSUME LabInv, NEW m \in Modes, NEW flags, flags \subseteq loaded, SetMode(m, flags),
           words' \in Words, UNCHANGED <<live, session>>,
           m = "stream" /\ "stream" \in flags => words' = words
    PROVE  LabInv'
<1>t. LabTyped /\ StreamOK
  BY DEF LabInv
<1>s. session' \in Users \cup {Nobody} /\ live' = live /\ live \in BOOLEAN
  BY <1>t DEF LabTyped
<1>m. mode' = m /\ m # "none"
  BY LabAssumption DEF SetMode, Notes
<1>1. CASE m = "stream" /\ LoadStream(flags)
  <2>f. flying' = flying /\ flying \in [Slots -> [what : Content, rail : BOOLEAN]]
        /\ body \in [Views -> Content] /\ \A s \in Slots : flying[s].what.mode # "stream"
    BY <1>t, <1>1 DEF LoadStream, LabTyped, StreamOK
  <2>1. CASE "stream" \in flags
    <3>1. loaded' = flags /\ ready' = TRUE /\ body' = body /\ stream' = stream /\ open' = open
      BY <1>1, <2>1 DEF LoadStream
    <3>2. words' = words /\ stream # "" /\ mode = "stream"
      BY <1>1, <1>t, <2>1 DEF StreamOK
    <3>3. LabTyped'
      BY <1>t, <1>s, <1>m, <2>f, <3>1 DEF LabTyped
    <3>k. live
      BY <1>1 DEF LoadStream
    <3>l. live'
      BY <1>s, <3>k
    <3>4. StreamOK'
      BY <1>t, <3>l, <1>m, <1>1, <2>f, <3>1, <3>2 DEF StreamOK
    <3> QED
      BY <3>1, <3>3, <3>4 DEF LabInv, ReadyOK
  <2>2. CASE "stream" \notin flags
    <3>1. /\ Shows("stream", Note("empty")) /\ loaded' = flags \cup {"stream"} /\ ready' = FALSE
          /\ stream' = words' /\ open' = Closes(open, stream) \cup {words'} /\ live
      BY <1>1, <2>2 DEF LoadStream
    <3>2. Note("empty") \in Content /\ Note("empty").mode = "empty"
      BY NotesAreShown DEF Note, Notes
    <3>3. View("stream") \in Views
      BY ViewOfStream, ViewsHold
    <3>4. body' \in [Views -> Content] /\ body'["stream"].mode = "empty"
      BY <2>f, <3>1, <3>2, <3>3, ShowsOneView
    <3>5. open' = {words'} /\ words' # ""
      BY <1>t, <3>1, LabAssumption DEF StreamOK, Closes
    <3>6. LabTyped'
      BY <1>t, <1>s, <1>m, <2>f, <3>1, <3>4 DEF LabTyped
    <3>l. live'
      BY <1>s, <3>1
    <3>7. StreamOK'
      BY <3>l, <1>m, <1>1, <2>f, <3>1, <3>4, <3>5 DEF StreamOK
    <3>8. ReadyOK'
      BY <1>m, <1>1, <3>5 DEF ReadyOK
    <3> QED
      BY <3>6, <3>7, <3>8 DEF LabInv
  <2> QED
    BY <2>1, <2>2
<1>2. CASE ~(m = "stream" /\ LoadStream(flags))
  <2> DEFINE leaves == m # "stream" /\ stream # ""
             kept == IF leaves THEN flags \ {"stream"} ELSE flags
  <2>1. /\ LoadOff(m, kept) \/ LoadSignIn(m, kept, TRUE) \/ LoadFetch(m, kept, TRUE)
        /\ stream' = IF leaves THEN "" ELSE stream
        /\ open' = IF leaves THEN Closes(open, stream) ELSE open
    BY <1>2 DEF SetMode
  <2>2. kept \subseteq flags /\ (m # "stream" => "stream" \notin kept)
    BY <1>t DEF StreamOK
  <2> HIDE DEF kept
  <2>3. /\ ready' \in BOOLEAN
        /\ body' \in [Views -> Content]
        /\ flying' \in [Slots -> [what : Content, rail : BOOLEAN]]
        /\ \A s \in Slots : flying'[s].what.mode # "stream"
        /\ m = "stream" => ~live /\ body'["stream"].mode = "off"
        /\ loaded' \subseteq kept \cup {m}
        /\ m = "stream" => loaded' \subseteq kept
        /\ \/ ready'
           \/ \E s \in Slots : flying'[s].rail = TRUE /\ flying'[s].what.mode = m
    BY <1>s, <2>1, LoadKeeps
  <2>4. LabTyped'
    BY <1>s, <1>m, <2>3 DEF LabTyped
  <2>5. stream' = ""
    BY <1>t, <2>1, <2>3 DEF StreamOK
  <2>6. open' = {}
    BY <1>t, <2>1, <2>5 DEF StreamOK, Closes
  <2>7. "stream" \notin loaded'
    BY <1>t, <2>2, <2>3, <2>5 DEF StreamOK
  <2>8. StreamOK'
    BY <1>m, <2>3, <2>5, <2>6, <2>7 DEF StreamOK
  <2>9. ReadyOK'
    BY <1>m, <2>3 DEF ReadyOK
  <2> QED
    BY <2>4, <2>8, <2>9 DEF LabInv
<1> QED
  BY <1>1, <1>2

\* onAuthStateChange.
LEMMA AuthChangeInv ==
    ASSUME LabInv, NEW who \in Users \cup {Nobody}, AuthChange(who)
    PROVE  LabInv'
<1>t. LabTyped /\ StreamOK /\ ReadyOK
  BY DEF LabInv
<1>1. /\ live /\ live' = live /\ mode' = mode /\ words' = words /\ stream' = stream /\ open' = open
      /\ session' = who /\ mode # "none"
  BY DEF AuthChange
<1>2. live' \in BOOLEAN /\ mode \in Modes /\ words \in Words
  BY <1>t, <1>1 DEF LabTyped
<1>l. live'
  BY <1>1
<1>3. CASE mode # "watchlist"
  <2>1. loaded' = loaded \ {"watchlist"} /\ ready' = ready /\ body' = body /\ flying' = flying
    BY <1>3 DEF AuthChange
  <2>2. LabTyped'
    BY <1>t, <1>1, <1>2, <2>1 DEF LabTyped
  <2>3. StreamOK'
    BY <1>t, <1>1, <1>l, <2>1 DEF StreamOK
  <2>4. ReadyOK'
    BY <1>t, <1>1, <2>1 DEF ReadyOK
  <2> QED
    BY <2>2, <2>3, <2>4 DEF LabInv
<1>4. CASE mode = "watchlist"
  <2>1. PICK flags \in {loaded, loaded \ {"watchlist"}} :
           LoadOff(mode, flags) \/ LoadSignIn(mode, flags, FALSE) \/ LoadFetch(mode, flags, FALSE)
    BY <1>4 DEF AuthChange
  <2>2. /\ ready' \in BOOLEAN
        /\ body' \in [Views -> Content]
        /\ flying' \in [Slots -> [what : Content, rail : BOOLEAN]]
        /\ \A s \in Slots : flying'[s].what.mode # "stream"
        /\ loaded' \subseteq flags \cup {mode}
        /\ ready' \/ ~ready \/ ~live
        /\ \A s \in Slots : flying[s].rail = TRUE => flying'[s] = flying[s]
    BY <1>1, <1>2, <2>1, LoadKeeps
  <2>3. LabTyped'
    BY <1>t, <1>1, <1>2, <2>2 DEF LabTyped
  <2>4. stream = "" /\ open = {} /\ "stream" \notin loaded
    BY <1>t, <1>4 DEF StreamOK
  <2>5. StreamOK'
    BY <1>1, <1>4, <2>1, <2>2, <2>4 DEF StreamOK
  <2>6. ReadyOK'
    BY <1>t, <1>1, <1>4, <2>2 DEF ReadyOK
  <2> QED
    BY <2>3, <2>5, <2>6 DEF LabInv
<1> QED
  BY <1>3, <1>4

\* A slot that is no load of setMode may be given up or used again: the flag is not its.
LEMMA SlotChange ==
    ASSUME LabInv, NEW s \in Slots, NEW f \in [what : Content, rail : BOOLEAN],
           flying' = [flying EXCEPT ![s] = f], f.what.mode # "stream",
           flying[s].rail = FALSE \/ flying[s].what.mode # mode,
           UNCHANGED <<live, mode, words, session, ready, stream, open>>,
           body' \in [Views -> Content], body'["stream"] = body["stream"],
           "stream" \in loaded' => "stream" \in loaded
    PROVE  LabInv'
<1>t. LabTyped /\ StreamOK /\ ReadyOK
  BY DEF LabInv
<1>1. flying' \in [Slots -> [what : Content, rail : BOOLEAN]]
      /\ \A t \in Slots : flying'[t] = IF t = s THEN f ELSE flying[t]
  BY <1>t DEF LabTyped
<1>2. LabTyped'
  BY <1>t, <1>1 DEF LabTyped
<1>3. StreamOK'
  BY <1>t, <1>1 DEF StreamOK
<1>4. ReadyOK'
  BY <1>t, <1>1 DEF ReadyOK
<1> QED
  BY <1>2, <1>3, <1>4 DEF LabInv

\* The DELETE of a watched item: sent, answered or lost.
LEMMA RemovalInv ==
    ASSUME LabInv, RemoveWatch \/ \E s \in Slots : Removed(s) \/ RemoveLost(s)
    PROVE  LabInv'
<1> DEFINE Slot == [what : Content, rail : BOOLEAN]
<1>t. LabTyped /\ StreamOK
  BY DEF LabInv
<1>n. /\ \A n \in {"free", "remove", "sign in", "loading"} : Note(n) \in Content /\ Note(n).mode = n
      /\ mode # "remove"
  BY <1>t, NotesAreShown, LabAssumption DEF Note, Notes, LabTyped
<1>f. Free \in Slot /\ Free.what.mode = "free" /\ Free.rail = FALSE
  BY <1>n DEF Free
<1>b. body \in [Views -> Content] /\ flying \in [Slots -> Slot]
  BY <1>t DEF LabTyped
<1>1. CASE RemoveWatch
  <2>1. PICK s \in Slots : flying[s] = Free
              /\ flying' = [flying EXCEPT ![s] = [Free EXCEPT !.what = Note("remove")]]
    BY <1>1 DEF RemoveWatch
  <2> DEFINE f == [Free EXCEPT !.what = Note("remove")]
  <2>2. f \in Slot /\ f.what.mode = "remove"
    BY <1>n, <1>f DEF Free
  <2>3. UNCHANGED <<live, mode, words, session, ready, stream, open, body, loaded>>
    BY <1>1 DEF RemoveWatch
  <2> HIDE DEF f
  <2> QED
    BY <1>b, <1>f, <2>1, <2>2, <2>3, SlotChange DEF f
<1>2. ASSUME NEW s \in Slots, Removed(s) PROVE LabInv'
  <2>1. /\ flying[s].what.mode = "remove"
        /\ UNCHANGED <<live, mode, words, session, ready, stream, open>>
    BY <1>2 DEF Removed
  <2>v. View("watchlist") \in Views
    BY ViewsHold DEF View, Bespoke
  <2>2. /\ body' \in [Views -> Content] /\ body'["stream"] = body["stream"]
        /\ "stream" \in loaded' => "stream" \in loaded
    <3>1. PICK n \in {"sign in", "loading"} : Shows("watchlist", Note(n))
      BY <1>2 DEF Removed
    <3>2. Note(n) \in Content
      BY <1>n
    <3>3. body' \in [Views -> Content] /\ ("watchlist" # "stream" => body'["stream"] = body["stream"])
      BY <1>b, <2>v, <3>1, <3>2, ShowsOneView
    <3>4. loaded' = loaded \ {"watchlist"} \/ loaded' = loaded \cup {"watchlist"}
      BY <1>2 DEF Removed
    <3> QED
      BY <3>3, <3>4
  <2>3. CASE session = Nobody
    <3>1. flying' = [flying EXCEPT ![s] = Free]
      BY <1>2, <2>3 DEF Removed
    <3> QED
      BY <1>f, <1>n, <2>1, <2>2, <3>1, SlotChange
  <2>4. CASE session # Nobody
    <3> DEFINE f == [what |-> Wanted("watchlist")', rail |-> FALSE]
    <3>1. flying' = [flying EXCEPT ![s] = f]
      BY <1>2, <2>4 DEF Removed, Starts
    <3>2. Wanted("watchlist")' \in Content /\ Wanted("watchlist")'.mode = "watchlist"
      BY <1>t, <2>1 DEF Wanted, Content, LabTyped
    <3>3. f \in Slot /\ f.what.mode # "stream"
      BY <3>2
    <3> HIDE DEF f
    <3> QED
      BY <1>n, <2>1, <2>2, <3>1, <3>3, SlotChange
  <2> QED
    BY <2>3, <2>4
<1>3. ASSUME NEW s \in Slots, RemoveLost(s) PROVE LabInv'
  <2>1. /\ flying[s].what.mode = "remove" /\ flying' = [flying EXCEPT ![s] = Free]
        /\ UNCHANGED <<live, mode, words, session, ready, stream, open, body, loaded>>
    BY <1>3 DEF RemoveLost
  <2> QED
    BY <1>b, <1>f, <1>n, <2>1, SlotChange
<1> QED
  BY <1>1, <1>2, <1>3

\* A load ends, in its own mode's time or in another's.
LEMMA ArriveInv ==
    ASSUME LabInv, NEW s \in Slots, NEW ok \in BOOLEAN, Arrive(s, ok)
    PROVE  LabInv'
<1> DEFINE Slot == [what : Content, rail : BOOLEAN]
           m == flying[s].what.mode
           what == IF ok THEN flying[s].what ELSE Note("error")
<1>t. LabTyped /\ StreamOK /\ ReadyOK
  BY DEF LabInv
<1>b. body \in [Views -> Content] /\ flying \in [Slots -> Slot] /\ m # "stream" /\ ready \in BOOLEAN
  BY <1>t DEF LabTyped, StreamOK
<1>f. Free \in Slot /\ Free.what.mode = "free" /\ Free.rail = FALSE
  BY NotesAreShown DEF Free, Note, Notes
<1>1. /\ Shows(m, what)
      /\ loaded' = IF ok \/ m \in KeepsFlag THEN loaded ELSE loaded \ {m}
      /\ ready' = (ready \/ (flying[s].rail /\ mode = m))
      /\ flying' = [flying EXCEPT ![s] = Free]
      /\ UNCHANGED <<live, mode, words, stream, open, session>>
  BY DEF Arrive
<1>2. what \in Content
  BY <1>b, NotesAreShown DEF Notes
<1> HIDE DEF what
<1>3. body' \in [Views -> Content] /\ body'["stream"] = body["stream"]
  <2>1. body' = [body EXCEPT ![View(m)] = what]
    BY <1>1 DEF Shows
  <2>2. View(m) # "stream"
    BY <1>b, ViewOfStream
  <2> QED
    BY <1>b, <1>2, <2>1, <2>2, ViewsHold
<1>4. /\ flying' \in [Slots -> Slot]
      /\ \A t \in Slots : flying'[t] = IF t = s THEN Free ELSE flying[t]
  BY <1>b, <1>f, <1>1
<1>5. ready' \in BOOLEAN /\ (~ready' => ~ready /\ ~(flying[s].rail = TRUE /\ m = mode))
  BY <1>b, <1>1
<1>6. LabTyped'
  BY <1>t, <1>1, <1>3, <1>4, <1>5 DEF LabTyped
<1>7. StreamOK'
  <2>1. "stream" \in loaded' => "stream" \in loaded
    BY <1>1
  <2> HIDE DEF m
  <2> QED
    BY <1>t, <1>1, <1>f, <1>3, <1>4, <2>1 DEF StreamOK
<1>8. ReadyOK'
  BY <1>t, <1>1, <1>f, <1>4, <1>5 DEF ReadyOK
<1> QED
  BY <1>6, <1>7, <1>8 DEF LabInv

\* The stream's rows are of the search that runs.
LEMMA ResultsInv ==
    ASSUME LabInv, NEW w \in open, Results(w)
    PROVE  LabInv'
<1> DEFINE row == [mode |-> "stream", words |-> w, user |-> Nobody]
<1>t. LabTyped /\ StreamOK /\ ReadyOK
  BY DEF LabInv
<1>1. w = words /\ w \in Words
  BY <1>t DEF StreamOK, LabTyped
<1>2. row \in Content /\ row.words = words
  BY <1>1 DEF Content
<1>3. Shows("stream", row) /\ UNCHANGED <<live, mode, words, ready, loaded, flying, stream, open, session>>
  BY DEF Results
<1> HIDE DEF row
<1>4. body' \in [Views -> Content] /\ body'["stream"].words = words
  <2>1. body \in [Views -> Content] /\ View("stream") \in Views
    BY <1>t, ViewsHold, ViewOfStream DEF LabTyped
  <2> QED
    BY <1>2, <1>3, <2>1, ShowsOneView
<1>5. LabTyped'
  BY <1>t, <1>3, <1>4 DEF LabTyped
<1>6. StreamOK'
  BY <1>t, <1>3, <1>4 DEF StreamOK
<1>7. ReadyOK'
  BY <1>t, <1>3 DEF ReadyOK
<1> QED
  BY <1>5, <1>6, <1>7 DEF LabInv

\* The end of the stream, or its error, sets the flag.
LEMMA StreamEndsInv ==
    ASSUME LabInv, NEW w \in open, NEW failed \in BOOLEAN, StreamEnds(w, failed)
    PROVE  LabInv'
<1>t. LabTyped /\ StreamOK /\ ReadyOK
  BY DEF LabInv
<1>1. /\ open' = open \ {w}
      /\ loaded' = IF failed THEN loaded \ {"stream"} ELSE loaded
      /\ ready' = (ready \/ (mode = "stream" /\ Resolves(failed)))
      /\ UNCHANGED <<live, mode, words, flying, stream, session>>
  BY DEF StreamEnds
<1>2. mode = "stream" /\ ready'
  <2>1. mode = "stream"
    BY <1>t DEF StreamOK
  <2> QED
    BY <1>1, <2>1 DEF Resolves
<1>3. /\ body' \in [Views -> Content]
      /\ body'["stream"] = body["stream"] \/ body'["stream"].mode # "stream"
  <2>1. body \in [Views -> Content] /\ View("stream") \in Views
    BY <1>t, ViewsHold, ViewOfStream DEF LabTyped
  <2>2. CASE body["stream"].mode = "stream"
    BY <2>1, <2>2 DEF StreamEnds
  <2>3. CASE body["stream"].mode # "stream"
    <3>1. PICK n \in {"error", "nothing"} : Shows("stream", Note(n))
      BY <2>3 DEF StreamEnds
    <3>2. Note(n) \in Content /\ Note(n).mode # "stream"
      BY NotesAreShown DEF Notes, Note
    <3> QED
      BY <2>1, <3>1, <3>2, ShowsOneView
  <2> QED
    BY <2>2, <2>3
<1>4. LabTyped'
  <2>1. ready' \in BOOLEAN
    BY <1>1
  <2> QED
    BY <1>t, <1>1, <1>3, <2>1 DEF LabTyped
<1>5. StreamOK'
  BY <1>t, <1>1, <1>3 DEF StreamOK
<1>6. ReadyOK'
  BY <1>2 DEF ReadyOK
<1> QED
  BY <1>4, <1>5, <1>6 DEF LabInv

\* Every step of the page keeps the invariant.
LEMMA LabNextInv ==
    ASSUME LabInv, [LabNext]_labVars
    PROVE  LabInv'
<1>t. LabTyped /\ StreamOK /\ ReadyOK
  BY DEF LabInv
<1>w. words \in Words /\ (mode # "none" => mode \in Modes)
  BY <1>t DEF LabTyped
<1>1. ASSUME NEW m \in Modes, Click(m) PROVE LabInv'
  BY <1>1, <1>w, SetModeInv DEF Click
<1>2. ASSUME NEW w \in Words, Go(w) PROVE LabInv'
  <2>1. mode \in Modes /\ words' \in Words /\ UNCHANGED <<live, session>> /\ SetMode(mode, {})
    BY <1>2, <1>w DEF Go
  <2> QED
    BY <2>1, SetModeInv
<1>3. ASSUME NEW m \in Toggles, Toggle(m) PROVE LabInv'
  <2>1. CASE mode = m
    <3>1. m \in Modes /\ words' = words /\ UNCHANGED <<live, session>> /\ SetMode(m, loaded \ {m})
      BY <1>3, <2>1 DEF Toggle
    <3>2. loaded \ {m} \subseteq loaded
      OBVIOUS
    <3> QED
      BY <1>w, <3>1, <3>2, SetModeInv
  <2>2. CASE mode # m
    <3>1. /\ loaded' = loaded \ {m}
          /\ UNCHANGED <<live, words, session, mode, ready, body, flying, stream, open>>
      BY <1>3, <2>2 DEF Toggle
    <3>2. LabTyped'
      BY <1>t, <3>1 DEF LabTyped
    <3>3. StreamOK'
      BY <1>t, <3>1 DEF StreamOK
    <3>4. ReadyOK'
      BY <1>t, <3>1 DEF ReadyOK
    <3> QED
      BY <3>2, <3>3, <3>4 DEF LabInv
  <2> QED
    BY <2>1, <2>2
<1>4. ASSUME NEW who \in Users \cup {Nobody}, AuthChange(who) PROVE LabInv'
  BY <1>4, AuthChangeInv
<1>5. CASE RemoveWatch \/ \E s \in Slots : Removed(s) \/ RemoveLost(s)
  BY <1>5, RemovalInv
<1>6. ASSUME NEW s \in Slots, Arrive(s, TRUE) \/ Arrive(s, FALSE) PROVE LabInv'
  BY <1>6, ArriveInv
<1>7. ASSUME NEW w \in open, Results(w) PROVE LabInv'
  BY <1>7, ResultsInv
<1>8. ASSUME NEW w \in open, StreamEnds(w, TRUE) \/ StreamEnds(w, FALSE) PROVE LabInv'
  BY <1>8, StreamEndsInv
<1>9. CASE UNCHANGED labVars
  <2>1. UNCHANGED <<live, mode, words, ready, loaded, body, flying, stream, open, session>>
    BY <1>9 DEF labVars
  <2>2. LabTyped'
    BY <1>t, <2>1 DEF LabTyped
  <2>3. StreamOK'
    BY <1>t, <2>1 DEF StreamOK
  <2>4. ReadyOK'
    BY <1>t, <2>1 DEF ReadyOK
  <2> QED
    BY <2>2, <2>3, <2>4 DEF LabInv
<1> QED
  BY <1>1, <1>2, <1>3, <1>4, <1>5, <1>6, <1>7, <1>8, <1>9 DEF LabNext, UserActs, Settles

\* setMode and its handlers, over any schedule of clicks, searches, sign-ins, answers,
\* failures and stream events: the inductive invariant of the page.
THEOREM LabInvariance == LabSpec => []LabInv
<1>1. LabInv /\ [LabNext]_labVars => LabInv'
  BY LabNextInv
<1> QED
  BY LabInitInv, <1>1, PTL DEF LabSpec

\* loadStream and setMode: the rows in the stream's view are of the search that runs, no
\* stream runs behind another mode and at most one runs.
THEOREM OneSearchIsStreamed == LabSpec => []StreamShowsOneSearch
<1>1. LabInv => StreamShowsOneSearch
  BY DEF LabInv, StreamOK, StreamShowsOneSearch
<1> QED
  BY <1>1, LabInvariance, PTL

\* setMode: a mode with nothing under way is ready, whichever loads failed, were
\* abandoned or answered in another mode's time.
THEOREM PageNeverStuck == LabSpec => []NeverStuck
<1>1. ASSUME LabInv, mode # "none", UnderWay = {}, open = {}
      PROVE  ready
  <2>1. \A s \in Slots : flying[s] = Free
    BY <1>1 DEF UnderWay
  <2>2. \A s \in Slots : flying[s].rail = FALSE
    BY <2>1 DEF Free
  <2> QED
    BY <1>1, <2>2 DEF LabInv, ReadyOK
<1>2. LabInv => NeverStuck
  BY <1>1 DEF NeverStuck
<1> QED
  BY <1>2, LabInvariance, PTL

-----------------------------------------------------------------------------
(* The worker                                                              *)

\* The search the run is at, and what it found.
Current == Saved[run.i]
Hits == run.found[Current.query]

WorkerTyped ==
    /\ seen \in [SearchKeys -> SUBSET Ids]
    /\ sent \in [SearchKeys -> [Ids -> Nat]]
    /\ failures \in Nat
    /\ run.pc \in {"off", "search", "notify"}
    /\ run = [pc |-> run.pc, found |-> run.found, i |-> run.i, new |-> run.new,
              todo |-> run.todo, fresh |-> run.fresh]
    /\ run.i \in Nat \ {0}
    /\ run.new \in [SearchKeys -> SUBSET Ids]
    /\ run.fresh \in SUBSET Ids
    /\ run.pc # "off" => \E s \in Snapshots : run.found = s.found
    /\ run.pc = "notify" => run.i \in DOMAIN Saved /\ run.todo \subseteq DOMAIN Hits

\* What the run believes x was told: its copy, and the deals it has just sent.
Told(x) ==
    IF run.pc = "off" THEN seen[x]
    ELSE IF run.pc = "notify" /\ x = KeyOf(Current) THEN run.new[x] \cup run.fresh
    ELSE run.new[x]

\* The copy holds all that the caller's state does.
CopyOK == run.pc # "off" => \A x \in SearchKeys : seen[x] \subseteq run.new[x]

\* A deal that is still to be considered was not sent by this search.
TodoOK == run.pc = "notify" => \A j \in run.todo : Hits[j].id \notin run.fresh

\* What the run counts as told was sent, at most once more than runs failed; anything
\* else only by runs that failed.
CountOK ==
    \A x \in SearchKeys : \A d \in Ids :
        IF d \in Told(x) THEN sent[x][d] >= 1 /\ sent[x][d] <= 1 + failures
        ELSE sent[x][d] <= failures

WorkerInv == WorkerTyped /\ CopyOK /\ TodoOK /\ CountOK

\* No run, and nothing sent.
LEMMA WorkerInitInv == JobsInit => WorkerInv
<1> SUFFICES ASSUME JobsInit PROVE WorkerInv
  OBVIOUS
<1>1. WorkerTyped
  BY DEF JobsInit, WorkerTyped, NoRun
<1>2. CopyOK /\ TodoOK
  BY DEF JobsInit, CopyOK, TodoOK, NoRun
<1>3. CountOK
  BY DEF JobsInit, CountOK, Told, NoRun
<1> QED
  BY <1>1, <1>2, <1>3 DEF WorkerInv

\* The key of every saved search is one of the keys.
LEMMA KeyOfSaved == \A i \in DOMAIN Saved : KeyOf(Saved[i]) \in SearchKeys
  BY DEF KeyOf, SearchKeys

\* load_catalog and state.copy.
LEMMA StartRunInv == ASSUME WorkerInv, StartRun, file \in Snapshots PROVE WorkerInv'
<1>t. WorkerTyped /\ CountOK /\ run.pc = "off"
  BY DEF WorkerInv, StartRun
<1>1. run' = [pc |-> "search", found |-> file.found, i |-> 1, new |-> seen, todo |-> {}, fresh |-> {}]
  BY DEF StartRun, NoRun
<1>2. UNCHANGED <<seen, sent, failures>>
  BY DEF StartRun
<1>3. WorkerTyped'
  BY <1>t, <1>1, <1>2 DEF WorkerTyped
<1>4. CopyOK' /\ TodoOK'
  BY <1>1, <1>2 DEF CopyOK, TodoOK
<1>5. \A x \in SearchKeys : Told(x)' = Told(x)
  BY <1>t, <1>1, <1>2 DEF Told
<1>6. CountOK'
  BY <1>t, <1>2, <1>5 DEF CountOK
<1> QED
  BY <1>3, <1>4, <1>6 DEF WorkerInv

\* The next saved search.
LEMMA SearchInv == ASSUME WorkerInv, Search PROVE WorkerInv'
<1>t. WorkerTyped /\ CopyOK /\ CountOK /\ run.pc = "search" /\ run.i <= Len(Saved)
  BY DEF WorkerInv, Search
<1>i. run.i \in DOMAIN Saved
  BY <1>t, JobsAssumption DEF WorkerTyped
<1> DEFINE next == FindDeals(run.found, Saved[run.i])
<1>1. run' = [pc |-> "notify", found |-> run.found, i |-> run.i, new |-> run.new,
              todo |-> next, fresh |-> {}]
  BY <1>t DEF Search, WorkerTyped
<1>2. UNCHANGED <<seen, sent, failures>>
  BY DEF Search
<1>3. next \subseteq DOMAIN run.found[Saved[run.i].query]
  BY DEF FindDeals
<1> HIDE DEF next
<1>4. WorkerTyped'
  BY <1>t, <1>i, <1>1, <1>2, <1>3 DEF WorkerTyped, Current, Hits
<1>5. CopyOK' /\ TodoOK'
  BY <1>t, <1>1, <1>2 DEF CopyOK, TodoOK
<1>6. \A x \in SearchKeys : Told(x)' = Told(x)
  BY <1>t, <1>1, <1>2 DEF Told
<1>7. CountOK'
  BY <1>t, <1>2, <1>6 DEF CountOK
<1> QED
  BY <1>4, <1>5, <1>7 DEF WorkerInv

\* One deal: it is sent only if neither the copy nor this search holds it.
LEMMA NotifyInv == ASSUME WorkerInv, Notify PROVE WorkerInv'
<1>t. WorkerTyped /\ CopyOK /\ TodoOK /\ CountOK /\ run.pc = "notify"
  BY DEF WorkerInv, Notify
<1> DEFINE x == KeyOf(Current)
           id(n) == Hits[n].id
           fresh(d) == IF d \in run.new[x] THEN run.fresh ELSE run.fresh \cup {d}
<1>1. PICK j \in run.todo :
        /\ run' = [run EXCEPT !.todo = @ \ {j},
                              !.fresh = IF id(j) \in run.new[x] THEN @ ELSE @ \cup {id(j)}]
        /\ sent' = IF id(j) \in run.new[x] THEN sent ELSE [sent EXCEPT ![x][id(j)] = @ + 1]
  BY DEF Notify, AlreadySeen, Current, Hits
<1> DEFINE d == id(j)
<1>2. UNCHANGED <<seen, failures>>
  BY DEF Notify
<1>3. run' = [pc |-> "notify", found |-> run.found, i |-> run.i, new |-> run.new,
              todo |-> run.todo \ {j}, fresh |-> fresh(d)]
  BY <1>t, <1>1 DEF WorkerTyped
<1>c. Current' = Current /\ Hits' = Hits
  BY <1>3 DEF Current, Hits
<1>4. x \in SearchKeys
  BY <1>t, KeyOfSaved DEF WorkerTyped, Current
<1>5. PICK s \in Snapshots : run.found = s.found
  BY <1>t DEF WorkerTyped
<1>6. /\ Current.query \in DOMAIN s.found /\ j \in DOMAIN Hits /\ run.todo \subseteq DOMAIN Hits
      /\ \A k \in DOMAIN Hits : Hits[k].id = Hits[j].id => k = j
  <2>1. run.i \in DOMAIN Saved /\ run.todo \subseteq DOMAIN Hits
    BY <1>t DEF WorkerTyped
  <2>2. Current.query \in DOMAIN s.found
    BY <2>1, JobsAssumption DEF Current
  <2>3. \A i, k \in DOMAIN s.found[Current.query] :
           s.found[Current.query][i].id = s.found[Current.query][k].id => i = k
    BY <2>2, JobsAssumption
  <2> QED
    BY <1>5, <2>1, <2>2, <2>3 DEF Hits
<1>7. d \in Ids
  BY <1>5, <1>6 DEF Ids, Hits
<1>8. d \notin run.fresh
  BY <1>t DEF TodoOK
<1>9. \A k \in run.todo \ {j} : Hits[k].id # d
  BY <1>6
<1> HIDE DEF d, x
<1>10. fresh(d) \in SUBSET Ids /\ \A e \in fresh(d) : e \in run.fresh \/ e = d
  BY <1>t, <1>7 DEF WorkerTyped
<1>11. TodoOK'
  BY <1>t, <1>3, <1>c, <1>9, <1>10 DEF TodoOK
<1>12. CopyOK'
  BY <1>t, <1>2, <1>3 DEF CopyOK
<1>13. CASE d \in run.new[x]
  <2>1. sent' = sent /\ fresh(d) = run.fresh
    BY <1>1, <1>13 DEF d, x
  <2>2. WorkerTyped'
    BY <1>t, <1>2, <1>3, <1>5, <1>6, <1>c, <1>10, <2>1 DEF WorkerTyped
  <2>3. \A y \in SearchKeys : Told(y)' = Told(y)
    BY <1>t, <1>2, <1>3, <1>c, <2>1 DEF Told
  <2>4. CountOK'
    BY <1>t, <1>2, <2>1, <2>3 DEF CountOK
  <2> QED
    BY <1>11, <1>12, <2>2, <2>4 DEF WorkerInv
<1>14. CASE d \notin run.new[x]
  <2>1. sent' = [sent EXCEPT ![x][d] = @ + 1] /\ fresh(d) = run.fresh \cup {d}
    BY <1>1, <1>14 DEF d, x
  <2>2. sent \in [SearchKeys -> [Ids -> Nat]]
    BY <1>t DEF WorkerTyped
  <2>3. /\ sent' \in [SearchKeys -> [Ids -> Nat]]
        /\ sent'[x][d] = sent[x][d] + 1
        /\ \A y \in SearchKeys : \A e \in Ids : y # x \/ e # d => sent'[y][e] = sent[y][e]
    BY <1>4, <1>7, <2>1, <2>2
  <2>4. WorkerTyped'
    BY <1>t, <1>2, <1>3, <1>5, <1>6, <1>c, <1>10, <2>3 DEF WorkerTyped
  <2>5. /\ Told(x) = run.new[x] \cup run.fresh
        /\ \A y \in SearchKeys : Told(y)' = IF y = x THEN Told(y) \cup {d} ELSE Told(y)
    BY <1>t, <1>2, <1>3, <1>c, <2>1 DEF Told, x
  <2>6. d \notin Told(x)
    BY <1>8, <1>14, <2>5
  <2>7. sent[x][d] <= failures /\ failures \in Nat /\ sent[x][d] \in Nat
    BY <1>t, <1>4, <1>7, <2>2, <2>6 DEF CountOK, WorkerTyped
  <2>8. CountOK'
    <3>1. SUFFICES ASSUME NEW y \in SearchKeys, NEW e \in Ids
                   PROVE  IF e \in Told(y)' THEN sent'[y][e] >= 1 /\ sent'[y][e] <= 1 + failures
                          ELSE sent'[y][e] <= failures
      BY <1>2 DEF CountOK
    <3>2. CASE y = x /\ e = d
      BY <2>3, <2>5, <2>7, <3>2
    <3>3. CASE y # x \/ e # d
      <4>1. sent'[y][e] = sent[y][e] /\ (e \in Told(y)' <=> e \in Told(y))
        BY <2>3, <2>5, <3>3
      <4> QED
        BY <1>t, <4>1 DEF CountOK
    <3> QED
      BY <3>2, <3>3
  <2> QED
    BY <1>11, <1>12, <2>4, <2>8 DEF WorkerInv
<1> QED
  BY <1>13, <1>14

\* mark_seen: what was just sent moves into the copy.
LEMMA MarkSeenInv == ASSUME WorkerInv, MarkSeen PROVE WorkerInv'
<1>t. WorkerTyped /\ CopyOK /\ CountOK /\ run.pc = "notify"
  BY DEF WorkerInv, MarkSeen
<1> DEFINE x == KeyOf(Current)
           new == [run.new EXCEPT ![x] = @ \cup run.fresh]
<1>1. run' = [pc |-> "search", found |-> run.found, i |-> run.i + 1, new |-> new,
              todo |-> run.todo, fresh |-> run.fresh]
  BY <1>t DEF MarkSeen, WorkerTyped, Current
<1>2. UNCHANGED <<seen, sent, failures>>
  BY DEF MarkSeen
<1>3. x \in SearchKeys
  BY <1>t, KeyOfSaved DEF WorkerTyped, Current
<1>4. /\ new \in [SearchKeys -> SUBSET Ids]
      /\ \A y \in SearchKeys : new[y] = IF y = x THEN run.new[y] \cup run.fresh ELSE run.new[y]
  BY <1>t, <1>3 DEF WorkerTyped
<1> HIDE DEF new
<1>5. run.i + 1 \in Nat \ {0}
  BY <1>t DEF WorkerTyped
<1>6. WorkerTyped'
  BY <1>t, <1>1, <1>2, <1>4, <1>5 DEF WorkerTyped
<1>7. CopyOK' /\ TodoOK'
  BY <1>t, <1>1, <1>2, <1>4 DEF CopyOK, TodoOK
<1>8. \A y \in SearchKeys : Told(y)' = Told(y)
  BY <1>t, <1>1, <1>2, <1>4 DEF Told
<1>9. CountOK'
  BY <1>t, <1>2, <1>8 DEF CountOK
<1> QED
  BY <1>6, <1>7, <1>9 DEF WorkerInv

\* The caller keeps the new state.
LEMMA EndRunInv == ASSUME WorkerInv, EndRun PROVE WorkerInv'
<1>t. WorkerTyped /\ CountOK /\ run.pc = "search"
  BY DEF WorkerInv, EndRun
<1>1. seen' = run.new /\ run' = NoRun /\ UNCHANGED <<sent, failures>>
  BY DEF EndRun
<1>2. WorkerTyped'
  BY <1>t, <1>1 DEF WorkerTyped, NoRun
<1>3. CopyOK' /\ TodoOK'
  BY <1>1 DEF CopyOK, TodoOK, NoRun
<1>4. \A y \in SearchKeys : Told(y)' = Told(y)
  BY <1>t, <1>1 DEF Told, NoRun
<1>5. CountOK'
  BY <1>t, <1>1, <1>4 DEF CountOK
<1> QED
  BY <1>2, <1>3, <1>5 DEF WorkerInv

\* What the run had sent is forgotten; the failure pays for it.
LEMMA RunFailsInv == ASSUME WorkerInv, RunFails PROVE WorkerInv'
<1>t. WorkerTyped /\ CopyOK /\ CountOK /\ run.pc # "off"
  BY DEF WorkerInv, RunFails
<1>1. run' = NoRun /\ failures' = failures + 1 /\ UNCHANGED <<seen, sent>>
  BY DEF RunFails
<1>2. failures \in Nat /\ failures + 1 \in Nat /\ sent \in [SearchKeys -> [Ids -> Nat]]
  BY <1>t DEF WorkerTyped
<1>3. WorkerTyped'
  BY <1>t, <1>1, <1>2 DEF WorkerTyped, NoRun
<1>4. CopyOK' /\ TodoOK'
  BY <1>1 DEF CopyOK, TodoOK, NoRun
<1>5. \A y \in SearchKeys : Told(y)' = seen[y] /\ seen[y] \subseteq Told(y)
  BY <1>t, <1>1 DEF Told, NoRun, CopyOK
<1>6. CountOK'
  <2>1. SUFFICES ASSUME NEW y \in SearchKeys, NEW e \in Ids
                 PROVE  IF e \in seen[y] THEN sent[y][e] >= 1 /\ sent[y][e] <= 1 + (failures + 1)
                        ELSE sent[y][e] <= failures + 1
    BY <1>1, <1>5 DEF CountOK
  <2>2. sent[y][e] \in Nat
    BY <1>2
  <2>3. IF e \in Told(y) THEN sent[y][e] >= 1 /\ sent[y][e] <= 1 + failures
        ELSE sent[y][e] <= failures
    BY <1>t DEF CountOK
  <2>4. e \in seen[y] => e \in Told(y)
    BY <1>5
  <2> QED
    BY <1>2, <2>2, <2>3, <2>4
<1> QED
  BY <1>3, <1>4, <1>6 DEF WorkerInv

\* The other jobs and a new file leave the worker alone.
LEMMA WorkerStutters == ASSUME WorkerInv, UNCHANGED workerVars PROVE WorkerInv'
<1>t. WorkerTyped /\ CopyOK /\ TodoOK /\ CountOK
  BY DEF WorkerInv
<1>1. seen' = seen /\ run' = run /\ sent' = sent /\ failures' = failures
  BY DEF workerVars
<1>2. Current' = Current /\ Hits' = Hits /\ \A x \in SearchKeys : Told(x)' = Told(x)
  BY <1>1 DEF Current, Hits, Told
<1>3. WorkerTyped'
  BY <1>t, <1>1, <1>2 DEF WorkerTyped
<1>4. CopyOK' /\ TodoOK'
  BY <1>t, <1>1, <1>2 DEF CopyOK, TodoOK
<1>5. CountOK'
  BY <1>t, <1>1, <1>2 DEF CountOK
<1> QED
  BY <1>3, <1>4, <1>5 DEF WorkerInv

-----------------------------------------------------------------------------
(* The gates                                                               *)

\* Past the quality gate the flow holds rows that passed it, and the file good_deals.csv
\* was made from such rows.
FlowOK ==
    /\ flow = [pc |-> flow.pc, tries |-> flow.tries, rows |-> flow.rows]
    /\ flow.pc \in {"label", "model"} => Passed(flow.rows)
    /\ csv.made => (\A i \in DOMAIN csv.of : Valid(csv.of[i])) /\ csv.rows \subseteq {"good"}

\* The golden sets are those of some snapshot, and the champion passed the gate on its own.
Goldens == {s.golden : s \in Snapshots}
CycleOK ==
    /\ cycle.pc # "off" => cycle.golden \in Goldens
    /\ champion.ranker # Nothing =>
         champion.golden \in Goldens /\ PassesGate(Precision(champion.ranker, champion.golden))

\* The registered model is selectable and no selectable run is better.
RegistryOK ==
    registry.winner # Nothing =>
        /\ registry.winner \in Selectable(registry.runs)
        /\ \A n \in Selectable(registry.runs) : registry.runs[registry.winner] <= registry.runs[n]

JobsInv == file \in Snapshots /\ WorkerInv /\ FlowOK /\ CycleOK /\ RegistryOK

\* Nothing was made, promoted or registered yet.
LEMMA JobsInitInv == JobsInit => JobsInv
<1> SUFFICES ASSUME JobsInit PROVE JobsInv
  OBVIOUS
<1>1. FlowOK
  BY DEF JobsInit, FlowOK, NoFlow
<1>2. CycleOK /\ RegistryOK
  BY DEF JobsInit, CycleOK, RegistryOK, NoCycle
<1> QED
  BY <1>1, <1>2, WorkerInitInv DEF JobsInit, JobsInv

\* The steps of the flow: only the gate lets rows through to the model.
LEMMA FlowInv ==
    ASSUME FlowOK, StartFlow \/ Ingest \/ Normalize \/ QualityGate \/ LabelRows \/ Persist
    PROVE  FlowOK'
<1>f. flow = [pc |-> flow.pc, tries |-> flow.tries, rows |-> flow.rows]
  BY DEF FlowOK
<1>n. FlowFails /\ csv' = csv => FlowOK'
  BY DEF FlowOK, FlowFails, NoFlow
<1>1. CASE StartFlow
  BY <1>f, <1>1 DEF StartFlow, FlowTo, FlowOK
<1>2. CASE Ingest
  <2>1. CASE flow' = [flow EXCEPT !.pc = "normalize", !.rows = file.rows] /\ csv' = csv
    BY <1>f, <2>1 DEF FlowOK
  <2>2. CASE flow' = [flow EXCEPT !.tries = @ + 1] /\ csv' = csv
    BY <1>f, <1>2, <2>2 DEF FlowOK, Ingest
  <2> QED
    BY <1>2, <1>n, <2>1, <2>2 DEF Ingest
<1>3. CASE Normalize
  <2>1. CASE FlowTo("gate") /\ csv' = csv
    BY <1>f, <2>1 DEF FlowOK, FlowTo
  <2> QED
    BY <1>3, <1>n, <2>1 DEF Normalize
<1>4. CASE QualityGate
  <2>1. CASE Passed(flow.rows)
    <3>1. flow' = [flow EXCEPT !.pc = "label"] /\ csv' = csv
      BY <1>4, <2>1 DEF QualityGate, FlowTo
    <3> QED
      BY <1>f, <2>1, <3>1 DEF FlowOK
  <2>2. CASE ~Passed(flow.rows)
    BY <1>4, <1>n, <2>2 DEF QualityGate
  <2> QED
    BY <2>1, <2>2
<1>5. CASE LabelRows
  <2>1. CASE FlowTo("model") /\ csv' = csv
    BY <1>f, <1>5, <2>1 DEF FlowOK, FlowTo, LabelRows
  <2> QED
    BY <1>5, <1>n, <2>1 DEF LabelRows
<1>6. CASE Persist
  <2>1. csv' = [made |-> TRUE, of |-> flow.rows, rows |-> GoodDeals(flow.rows)] /\ flow' = NoFlow
    BY <1>6 DEF Persist, FlowFails
  <2>2. \A i \in DOMAIN flow.rows : Valid(flow.rows[i])
    BY <1>6 DEF Persist, FlowOK, Passed
  <2>3. GoodDeals(flow.rows) \subseteq {"good"}
    BY <2>2 DEF GoodDeals, ToSet, Valid
  <2> HIDE DEF GoodDeals
  <2> QED
    BY <2>1, <2>2, <2>3 DEF FlowOK, NoFlow
<1> QED
  BY <1>1, <1>2, <1>3, <1>4, <1>5, <1>6

\* The steps of the promotion cycle: only a challenger that passes the gate serves.
LEMMA CycleInv ==
    ASSUME file \in Snapshots, CycleOK, StartCycle \/ Promote
    PROVE  CycleOK'
<1>1. CASE StartCycle
  <2>1. cycle'.golden = file.golden /\ champion' = champion
    BY <1>1 DEF StartCycle
  <2> QED
    BY <2>1 DEF CycleOK, Goldens
<1>2. CASE Promote
  <2> DEFINE p == Precision(cycle.ranker, cycle.golden)
  <2>1. /\ cycle' = NoCycle /\ cycle.golden \in Goldens
        /\ \/ champion' = champion
           \/ PassesGate(p) /\ champion' = [ranker |-> cycle.ranker, golden |-> cycle.golden]
    BY <1>2 DEF Promote, CycleOK
  <2>2. CASE champion' = champion
    BY <2>1, <2>2 DEF CycleOK, NoCycle
  <2>3. CASE PassesGate(p) /\ champion' = [ranker |-> cycle.ranker, golden |-> cycle.golden]
    <3>1. champion'.ranker = cycle.ranker /\ champion'.golden = cycle.golden
      BY <2>3
    <3>2. PassesGate(Precision(champion'.ranker, champion'.golden))
      BY <2>3, <3>1
    <3> QED
      BY <2>1, <3>1, <3>2 DEF CycleOK, NoCycle
  <2> QED
    BY <2>1, <2>2, <2>3
<1> QED
  BY <1>1, <1>2

\* Every step of a job keeps the invariant.
LEMMA JobsNextInv == ASSUME JobsInv, [JobsNext]_jobVars PROVE JobsInv'
<1>t. file \in Snapshots /\ WorkerInv /\ FlowOK /\ CycleOK /\ RegistryOK
  BY DEF JobsInv
<1>f. ASSUME UNCHANGED <<flow, csv>> PROVE FlowOK'
  BY <1>t, <1>f DEF FlowOK
<1>c. ASSUME UNCHANGED <<cycle, champion>> PROVE CycleOK'
  BY <1>t, <1>c DEF CycleOK
<1>r. ASSUME registry' = registry PROVE RegistryOK'
  BY <1>t, <1>r DEF RegistryOK
<1>1. CASE Refresh
  <2>1. file' \in Snapshots /\ UNCHANGED <<workerVars, flow, csv, cycle, champion, registry>>
    BY <1>1 DEF Refresh, workerVars
  <2> QED
    BY <1>t, <1>f, <1>c, <1>r, <2>1, WorkerStutters DEF JobsInv
<1>2. CASE StartRun \/ Search \/ Notify \/ MarkSeen \/ EndRun \/ RunFails
  <2>1. UNCHANGED <<file, flow, csv, cycle, champion, registry>>
    BY <1>2 DEF StartRun, Search, Notify, MarkSeen, EndRun, RunFails, flowVars, cycleVars
  <2>2. WorkerInv'
    BY <1>t, <1>2, StartRunInv, SearchInv, NotifyInv, MarkSeenInv, EndRunInv, RunFailsInv
  <2> QED
    BY <1>t, <1>f, <1>c, <1>r, <2>1, <2>2 DEF JobsInv
<1>3. CASE StartFlow \/ Ingest \/ Normalize \/ QualityGate \/ LabelRows \/ Persist
  <2>1. UNCHANGED <<file, workerVars, cycle, champion, registry>>
    BY <1>3 DEF StartFlow, Ingest, Normalize, QualityGate, LabelRows, Persist, cycleVars
  <2>2. FlowOK'
    BY <1>t, <1>3, FlowInv
  <2> QED
    BY <1>t, <1>c, <1>r, <2>1, <2>2, WorkerStutters DEF JobsInv
<1>4. CASE StartCycle \/ Promote
  <2>1. UNCHANGED <<file, workerVars, flow, csv, registry>>
    BY <1>4 DEF StartCycle, Promote, flowVars
  <2>2. CycleOK'
    BY <1>t, <1>4, CycleInv
  <2> QED
    BY <1>t, <1>f, <1>r, <2>1, <2>2, WorkerStutters DEF JobsInv
<1>5. CASE Track
  <2>1. UNCHANGED <<file, workerVars, flow, csv, cycle, champion>>
    BY <1>5 DEF Track, flowVars
  <2>2. \E runs : \E w \in Selectable(runs) :
           /\ \A n \in Selectable(runs) : runs[w] <= runs[n]
           /\ registry' = [winner |-> w, runs |-> runs]
    BY <1>5 DEF Track
  <2>3. RegistryOK'
    BY <2>2 DEF RegistryOK
  <2> QED
    BY <1>t, <1>f, <1>c, <2>1, <2>3, WorkerStutters DEF JobsInv
<1>6. CASE UNCHANGED jobVars
  <2>1. UNCHANGED <<file, workerVars, flow, csv, cycle, champion, registry>>
    BY <1>6 DEF jobVars, workerVars
  <2> QED
    BY <1>t, <1>f, <1>c, <1>r, <2>1, WorkerStutters DEF JobsInv
<1> QED
  BY <1>1, <1>2, <1>3, <1>4, <1>5, <1>6 DEF JobsNext

\* The worker, the flow, the promotion cycle and tracking, over any schedule of their
\* steps, new files and failures: the inductive invariant of the jobs.
THEOREM JobsInvariance == JobsSpec => []JobsInv
<1>1. JobsInv /\ [JobsNext]_jobVars => JobsInv'
  BY JobsNextInv
<1> QED
  BY JobsInitInv, <1>1, PTL DEF JobsSpec

\* run_suggestions, "nothing is re-notified": a user hears of an item once for every run
\* that failed and once more, and no item is marked seen without a message.
THEOREM ToldOnce == JobsSpec => []NotifiedOnce
<1>1. ASSUME JobsInv PROVE NotifiedOnce
  <2>1. SUFFICES ASSUME NEW x \in SearchKeys, NEW d \in Ids
                 PROVE  sent[x][d] <= 1 + failures /\ (d \in seen[x] => sent[x][d] > 0)
    BY DEF NotifiedOnce
  <2>2. sent[x][d] \in Nat /\ failures \in Nat
    BY <1>1 DEF JobsInv, WorkerInv, WorkerTyped
  <2>3. seen[x] \subseteq Told(x)
    BY <1>1 DEF JobsInv, WorkerInv, CopyOK, Told
  <2>4. IF d \in Told(x) THEN sent[x][d] >= 1 /\ sent[x][d] <= 1 + failures
        ELSE sent[x][d] <= failures
    BY <1>1 DEF JobsInv, WorkerInv, CountOK
  <2> QED
    BY <2>2, <2>3, <2>4
<1> QED
  BY <1>1, JobsInvariance, PTL

\* Of at least one place of the golden set, a gate of four fifths passes only with four
\* deals of five on top.
LEMMA GateIsFourFifths ==
    ASSUME NEW golden \in Goldens, NEW ranker, ranker # Nothing,
           PassesGate(Precision(ranker, golden))
    PROVE  LET ranked == Ranked(ranker, golden)
               top == {i \in DOMAIN ranked : i <= GateK}
           IN 5 * Cardinality({i \in top : ranked[i].label = "deal"}) >= 4 * Cardinality(top)
<1> DEFINE ranked == Ranked(ranker, golden)
           deals == {i \in Top(golden) : ranked[i].label = "deal"}
<1>1. golden \in Seq({golden[i] : i \in DOMAIN golden})
  BY JobsAssumption DEF Goldens
<1>2. DOMAIN golden = 1..Len(golden) /\ Len(golden) \in Nat
  BY <1>1
<1>3. DOMAIN ranked = DOMAIN golden
  BY Zenon DEF Ranked, SortedBy
<1>4. Top(golden) = {i \in DOMAIN ranked : i <= GateK}
  BY <1>3 DEF Top
<1>5. IsFiniteSet(Top(golden)) /\ IsFiniteSet(deals)
  <2>1. IsFiniteSet(1..Len(golden))
    BY <1>2, FS_Interval
  <2>2. Top(golden) \subseteq 1..Len(golden) /\ deals \subseteq 1..Len(golden)
    BY <1>2 DEF Top
  <2> QED
    BY <2>1, <2>2, FS_Subset
<1>6. Cardinality(Top(golden)) \in Nat /\ Cardinality(deals) \in Nat
  BY <1>5, FS_CardinalityType
<1>7. Top(golden) = {} => Cardinality(Top(golden)) = 0
  BY FS_EmptySet
<1>8. 100 * Cardinality(deals) >= 80 * (IF Top(golden) = {} THEN 1 ELSE Cardinality(Top(golden)))
  BY Zenon DEF PassesGate, Precision, Gate
<1> HIDE DEF deals
<1>9. 5 * Cardinality(deals) >= 4 * Cardinality(Top(golden))
  BY <1>6, <1>7, <1>8
<1> QED
  BY <1>4, <1>9 DEF deals

\* The three gates: good_deals.csv comes from a batch that met the contract, the ranker in
\* service passed its eval gate, and the registered model is the best same-features run.
THEOREM GatesAlwaysHold == JobsSpec => []GatesHold
<1>1. ASSUME JobsInv PROVE GatesHold
  <2>t. FlowOK /\ CycleOK /\ RegistryOK
    BY <1>1 DEF JobsInv
  <2>1. csv.made => /\ \A i \in DOMAIN csv.of : csv.of[i] \in {"good", "plain", "cheap"}
                    /\ csv.rows \subseteq {"good"}
    BY <2>t DEF FlowOK, Valid
  <2>2. champion.ranker # Nothing =>
         LET ranked == Ranked(champion.ranker, champion.golden)
             top == {i \in DOMAIN ranked : i <= GateK}
         IN 5 * Cardinality({i \in top : ranked[i].label = "deal"}) >= 4 * Cardinality(top)
    BY <2>t, GateIsFourFifths DEF CycleOK
  <2>3. registry.winner # Nothing =>
         /\ registry.winner \in {"linear", "gbdt", "torch"}
         /\ \A n \in {"linear", "gbdt", "torch"} \cap DOMAIN registry.runs :
                registry.runs[registry.winner] <= registry.runs[n]
    BY <2>t DEF RegistryOK, Selectable
  <2> QED
    BY <2>1, <2>2, <2>3 DEF GatesHold
<1> QED
  BY <1>1, JobsInvariance, PTL

-----------------------------------------------------------------------------
(* Sorting by a score                                                      *)

\* A place is among the ones that are not after it, and these are places.
LEMMA PlacesOfScore ==
    ASSUME NEW n \in Nat, NEW score \in [1..n -> Int], NEW i \in 1..n
    PROVE  /\ NotAfter(score, i) \subseteq 1..n /\ i \in NotAfter(score, i)
           /\ IsFiniteSet(NotAfter(score, i))
           /\ Cardinality(NotAfter(score, i)) \in 1..n
<1>1. NotAfter(score, i) \subseteq 1..n /\ i \in NotAfter(score, i)
  BY DEF NotAfter
<1>2. IsFiniteSet(1..n) /\ Cardinality(1..n) = n
  BY FS_Interval
<1>3. IsFiniteSet(NotAfter(score, i)) /\ Cardinality(NotAfter(score, i)) <= n
  BY <1>1, <1>2, FS_Subset
<1>4. Cardinality(NotAfter(score, i)) \in Nat
  BY <1>3, FS_CardinalityType
<1>5. IsFiniteSet({i}) /\ Cardinality({i}) = 1
  BY FS_Singleton
<1>6. Cardinality({i}) <= Cardinality(NotAfter(score, i))
  BY <1>1, <1>3, FS_Subset
<1> QED
  BY <1>1, <1>3, <1>4, <1>5, <1>6

\* Two places have different numbers of places that are not after them.
LEMMA ScoreTellsApart ==
    ASSUME NEW n \in Nat, NEW score \in [1..n -> Int], NEW i \in 1..n, NEW j \in 1..n,
           Cardinality(NotAfter(score, i)) = Cardinality(NotAfter(score, j))
    PROVE  i = j
<1>1. IsFiniteSet(NotAfter(score, i)) /\ IsFiniteSet(NotAfter(score, j))
  BY PlacesOfScore
<1>2. i \in NotAfter(score, i) /\ j \in NotAfter(score, j)
  BY PlacesOfScore
<1>3. CASE i \in NotAfter(score, j)
  <2>1. NotAfter(score, i) \subseteq NotAfter(score, j)
    BY <1>3 DEF NotAfter
  <2>2. NotAfter(score, i) = NotAfter(score, j)
    BY <1>1, <2>1, FS_Subset
  <2>3. j \in NotAfter(score, i)
    BY <1>2, <2>2
  <2> QED
    BY <1>3, <2>3 DEF NotAfter
<1>4. CASE i \notin NotAfter(score, j)
  <2>1. NotAfter(score, j) \subseteq NotAfter(score, i)
    BY <1>4 DEF NotAfter
  <2>2. NotAfter(score, i) = NotAfter(score, j)
    BY <1>1, <2>1, FS_Subset
  <2> QED
    BY <1>2, <1>4, <2>2
<1> QED
  BY <1>3, <1>4

\* Every number is that of one place.
LEMMA PlacesOf ==
    ASSUME NEW n \in Nat, NEW score \in [1..n -> Int]
    PROVE  /\ \A m \in 1..n : /\ PlaceOf(score, m) \in 1..n
                              /\ Cardinality(NotAfter(score, PlaceOf(score, m))) = m
           /\ \A i \in 1..n : \E m \in 1..n : PlaceOf(score, m) = i
<1> DEFINE rank == [i \in 1..n |-> Cardinality(NotAfter(score, i))]
<1>1. rank \in [1..n -> 1..n]
  BY PlacesOfScore
<1>2. \A i, j \in 1..n : rank[i] = rank[j] => i = j
  BY ScoreTellsApart
<1>3. rank \in Injection(1..n, 1..n)
  BY <1>1, <1>2 DEF Injection, IsInjective
<1>4. IsFiniteSet(1..n)
  BY FS_Interval
<1>5. rank \in Surjection(1..n, 1..n)
  BY <1>3, <1>4, FS_Injection
<1>6. \A m \in 1..n : \E i \in 1..n : rank[i] = m
  BY <1>5 DEF Surjection
<1>7. \A m \in 1..n : PlaceOf(score, m) \in 1..n /\ Cardinality(NotAfter(score, PlaceOf(score, m))) = m
  <2> SUFFICES ASSUME NEW m \in 1..n
               PROVE  PlaceOf(score, m) \in 1..n /\ Cardinality(NotAfter(score, PlaceOf(score, m))) = m
    OBVIOUS
  <2>1. \E i \in DOMAIN score : Cardinality(NotAfter(score, i)) = m
    BY <1>6
  <2> QED
    BY <2>1 DEF PlaceOf
<1>8. ASSUME NEW i \in 1..n PROVE \E m \in 1..n : PlaceOf(score, m) = i
  <2>1. rank[i] \in 1..n /\ rank[i] = Cardinality(NotAfter(score, i))
    BY <1>1
  <2>2. PlaceOf(score, rank[i]) = i
    BY <1>7, <2>1, ScoreTellsApart
  <2> QED
    BY <2>1, <2>2
<1> QED
  BY <1>7, <1>8

\* Of two places the one with the higher score comes first.
LEMMA HigherFirst ==
    ASSUME NEW n \in Nat, NEW score \in [1..n -> Int], NEW m \in 1..n, NEW k \in 1..n,
           score[PlaceOf(score, m)] > score[PlaceOf(score, k)]
    PROVE  m < k
<1> DEFINE i == PlaceOf(score, m)
           j == PlaceOf(score, k)
<1>1. \A l \in 1..n : PlaceOf(score, l) \in 1..n /\ Cardinality(NotAfter(score, PlaceOf(score, l))) = l
  BY PlacesOf
<1>2. /\ i \in 1..n /\ Cardinality(NotAfter(score, i)) = m
      /\ j \in 1..n /\ Cardinality(NotAfter(score, j)) = k
  BY <1>1
<1>3. score[i] > score[j]
  OBVIOUS
<1> HIDE DEF i, j
<1>4. NotAfter(score, i) \subseteq NotAfter(score, j) /\ j \notin NotAfter(score, i)
  BY <1>2, <1>3 DEF NotAfter
<1>5. IsFiniteSet(NotAfter(score, j)) /\ j \in NotAfter(score, j)
  BY <1>2, PlacesOfScore
<1>6. m <= k /\ m # k
  BY <1>2, <1>4, <1>5, FS_Subset
<1> QED
  BY <1>6

\* Sorting is a permutation: every place of the result holds one place of the argument,
\* and no two of them the same.
LEMMA SortedIsPermutation ==
    ASSUME NEW n \in Nat, NEW score \in [1..n -> Int], NEW S, NEW s \in [1..n -> S], IsInjective(s)
    PROVE  SortedBy(s, score) \in [1..n -> S] /\ IsInjective(SortedBy(s, score))
<1>1. \A m \in 1..n : /\ PlaceOf(score, m) \in 1..n
                      /\ Cardinality(NotAfter(score, PlaceOf(score, m))) = m
  BY PlacesOf
<1>2. SortedBy(s, score) = [m \in 1..n |-> s[PlaceOf(score, m)]]
  BY DEF SortedBy
<1>3. \A m, k \in 1..n : PlaceOf(score, m) = PlaceOf(score, k) => m = k
  BY <1>1
<1>4. SortedBy(s, score) \in [1..n -> S]
  BY <1>1, <1>2
<1>5. \A m, k \in 1..n : SortedBy(s, score)[m] = SortedBy(s, score)[k] => m = k
  BY <1>1, <1>2, <1>3 DEF IsInjective
<1> QED
  BY <1>4, <1>5 DEF IsInjective

-----------------------------------------------------------------------------
(* Retrieval                                                               *)

\* Places of a result: a one-to-one enumeration of listings.
Enumerates(s) == \E n \in Nat : s \in [1..n -> Listings] /\ IsInjective(s)

\* The share of one list in the fusion is a number.
LEMMA ReciprocalIsInt ==
    ASSUME NEW n \in Nat, NEW s, DOMAIN s = 1..n, NEW l
    PROVE  Reciprocal(s, l) \in Int
<1>1. CASE l \in ToSet(s)
  <2>1. \E i \in DOMAIN s : s[i] = l
    BY <1>1 DEF ToSet
  <2>2. IndexIn(s, l) \in 1..n
    BY <2>1 DEF IndexIn
  <2> DEFINE d == 60 + IndexIn(s, l)
  <2>3. d \in Nat /\ d > 0
    BY <2>2
  <2> HIDE DEF d
  <2>4. 1000000 \div d \in Int
    BY <2>3
  <2> QED
    BY <1>1, <2>4 DEF Reciprocal, d
<1>2. CASE l \notin ToSet(s)
  BY <1>2 DEF Reciprocal
<1> QED
  BY <1>1, <1>2

\* Fusion keeps every listing of the semantic ranking once.
LEMMA FuseEnumerates ==
    ASSUME NEW r \in Rankings
    PROVE  \E n \in Nat : Fuse(r) \in [1..n -> Listings] /\ IsInjective(Fuse(r))
<1> DEFINE n == Cardinality(Listings)
           s == r.semantic
           score == [i \in DOMAIN s |-> Reciprocal(s, s[i]) + Reciprocal(r.keyword, s[i])]
<1>1. n \in Nat
  BY AgentsAssumption, FS_CardinalityType
<1>2. s \in [1..n -> Listings] /\ IsInjective(s)
  BY DEF Rankings
<1>3. \E m \in Nat : DOMAIN r.keyword = 1..m
  BY <1>1 DEF Rankings
<1> HIDE DEF n
<1>4. \A i \in 1..n : Reciprocal(s, s[i]) \in Int
  BY <1>1, <1>2, ReciprocalIsInt
<1>5. \A i \in 1..n : Reciprocal(r.keyword, s[i]) \in Int
  BY <1>3, ReciprocalIsInt
<1>6. score \in [1..n -> Int]
  BY <1>2, <1>4, <1>5
<1>7. Fuse(r) = SortedBy(s, score)
  BY DEF Fuse
<1> HIDE DEF score, s
<1>8. SortedBy(s, score) \in [1..n -> Listings] /\ IsInjective(SortedBy(s, score))
  BY <1>1, <1>2, <1>6, SortedIsPermutation
<1> QED
  BY <1>1, <1>7, <1>8

\* So does the reranking by value.
LEMMA RerankEnumerates ==
    ASSUME signals \in [Listings -> Signals], NEW n \in Nat, NEW s \in [1..n -> Listings],
           IsInjective(s)
    PROVE  Rerank(s) \in [1..n -> Listings] /\ IsInjective(Rerank(s))
<1> DEFINE last == IF Len(s) > 1 THEN Len(s) - 1 ELSE 1
           rel(i) == 100 - (100 * (i - 1)) \div last
           gain(l) == IF DealScore(l) > 0 THEN DealScore(l) ELSE 0
           score == [i \in DOMAIN s |-> rel(i) + gain(s[i])]
<1>1. Len(s) = n /\ DOMAIN s = 1..n
  OBVIOUS
<1>2. last \in Nat /\ last > 0
  BY <1>1
<1> HIDE DEF last
<1>3. \A i \in 1..n : rel(i) \in Int
  <2> SUFFICES ASSUME NEW i \in 1..n PROVE rel(i) \in Int
    OBVIOUS
  <2> DEFINE k == 100 * (i - 1)
  <2>1. k \in Int
    OBVIOUS
  <2> HIDE DEF k
  <2>2. k \div last \in Int
    BY <1>2, <2>1
  <2>3. rel(i) = 100 - k \div last
    BY DEF k
  <2> QED
    BY <2>2, <2>3
<1>4. \A l \in Listings : gain(l) \in Int
  <2> SUFFICES ASSUME NEW l \in Listings PROVE gain(l) \in Int
    OBVIOUS
  <2>1. signals[l].m \in Int
    BY AgentsAssumption
  <2>2. DealScore(l) \in Int
    BY <2>1 DEF DealScore
  <2> QED
    BY <2>2
<1> HIDE DEF rel, gain
<1>5. score \in [1..n -> Int]
  BY <1>1, <1>3, <1>4
<1>6. Rerank(s) = SortedBy(s, score)
  BY DEF Rerank, rel, gain, last
<1> HIDE DEF score
<1>7. SortedBy(s, score) \in [1..n -> Listings] /\ IsInjective(SortedBy(s, score))
  BY <1>5, SortedIsPermutation
<1> QED
  BY <1>6, <1>7

\* A cut result still has every listing at most once.
LEMMA CutEnumerates ==
    ASSUME NEW s, Enumerates(s), NEW k \in Nat
    PROVE  Enumerates(Cut(s, k))
<1>1. PICK n \in Nat : s \in [1..n -> Listings] /\ IsInjective(s)
  BY DEF Enumerates
<1> DEFINE m == IF Len(s) < k THEN Len(s) ELSE k
<1>2. Len(s) = n /\ s \in Seq(Listings)
  BY <1>1
<1>3. m \in Nat /\ m <= n
  BY <1>2
<1>4. Cut(s, k) = SubSeq(s, 1, m)
  BY DEF Cut
<1> HIDE DEF m
<1>5. SubSeq(s, 1, m) = [i \in 1..m |-> s[i]]
  BY <1>2, <1>3
<1>6. Cut(s, k) \in [1..m -> Listings]
  <2>1. \A i \in 1..m : s[i] \in Listings
    BY <1>1, <1>3
  <2> QED
    BY <1>4, <1>5, <2>1
<1>7. IsInjective(Cut(s, k))
  BY <1>1, <1>3, <1>4, <1>5 DEF IsInjective
<1> QED
  BY <1>3, <1>6, <1>7 DEF Enumerates

\* search_catalog returns listings of the snapshot, none of them twice.
LEMMA RetrieveEnumerates ==
    ASSUME signals \in [Listings -> Signals], NEW r \in Rankings
    PROVE  Enumerates(Retrieve(r))
<1>k. TopK \in Nat /\ 3 * TopK \in Nat
  BY AgentsAssumption
<1>1. Enumerates(Fuse(r))
  BY FuseEnumerates DEF Enumerates
<1>2. Enumerates(Cut(Fuse(r), 3 * TopK))
  BY <1>1, <1>k, CutEnumerates
<1>3. Enumerates(Rerank(Cut(Fuse(r), 3 * TopK)))
  BY <1>2, RerankEnumerates DEF Enumerates
<1> QED
  BY <1>3, <1>k, CutEnumerates DEF Retrieve

-----------------------------------------------------------------------------
(* The extractive answer                                                   *)

\* A non-empty set of numbers has a least one.
LEMMA LeastPlace ==
    ASSUME NEW T \in SUBSET Nat, T # {}
    PROVE  \E x \in T : \A y \in T : x <= y
<1> DEFINE R == OpToRel(<, Nat)
<1>1. IsWellFoundedOn(R, Nat)
  BY NatLessThanWellFounded, Zenon
<1>2. PICK x \in T : \A y \in T : ~(<<y, x>> \in R)
  <2> HIDE DEF R
  <2> QED BY <1>1, WFMin
<1>3. \A y \in T : ~(y < x)
  BY <1>2 DEF OpToRel
<1> QED BY <1>3

\* The best of some places is the listing at one of them.
LEMMA BestIsAmong ==
    ASSUME Enumerates(items), NEW places \in SUBSET DOMAIN items, places # {}
    PROVE  \E i \in places : Best(places) = items[i]
<1>1. places \subseteq Nat
  BY DEF Enumerates
<1>2. \E i \in places : \A j \in places : i <= j
  BY <1>1, LeastPlace
<1> QED
  BY <1>2 DEF Best

\* _deterministic_answer names what was retrieved, writes of it what was shown, warns of a
\* trap and leads with the best deal when there is one; a deal that the reviewer
\* recognises passes.
LEMMA DeterministicIsSafe ==
    ASSUME Enumerates(items)
    PROVE  /\ Deterministic.names \subseteq Found
           /\ AllOf(Written, Deterministic.names) \subseteq AllOf(Shown, Found)
           /\ TrapWarned(Deterministic)
           /\ With("deal") # {} =>
                 /\ Deterministic.lead = Best(With("deal"))
                 /\ Recognised(Deterministic.lead) => Approves(Deterministic)
<1> DEFINE hero == IF With("deal") # {} THEN Best(With("deal")) ELSE Best(DOMAIN items)
           runners == {i \in DOMAIN items : items[i] # hero} \ With("suspicious")
           traps == With("suspicious")
           first(places) == IF places = {} THEN {} ELSE {Best(places)}
           D == [lead |-> hero, names |-> {hero} \cup first(runners) \cup first(traps),
                 warns |-> traps # {}]
           E == [lead |-> None, names |-> {}, warns |-> FALSE]
<1>1. Found = {items[i] : i \in DOMAIN items} /\ Found \subseteq Listings
  BY DEF Found, ToSet, Enumerates
<1>2. With("deal") \subseteq DOMAIN items /\ traps \subseteq DOMAIN items /\ runners \subseteq DOMAIN items
  BY DEF With
<1>3. \A places \in SUBSET DOMAIN items : places # {} => Best(places) \in Found
  BY <1>1, BestIsAmong
<1>4. Deterministic = IF Found = {} THEN E ELSE D
  BY DEF Deterministic
<1>5. CASE Found = {}
  <2>1. DOMAIN items = {}
    BY <1>1, <1>5
  <2>2. With("deal") = {} /\ With("suspicious") = {}
    BY <1>2, <2>1
  <2>3. Deterministic.names = {}
    BY <1>4, <1>5
  <2> QED
    BY <2>2, <2>3 DEF TrapWarned, AllOf
<1>6. CASE Found # {}
  <2>1. DOMAIN items # {}
    BY <1>1, <1>6
  <2>2. hero \in Found
    BY <1>2, <1>3, <2>1
  <2>3. With("deal") # {} => hero = Best(With("deal")) /\ VerdictFor(hero) = "deal"
    <3> SUFFICES ASSUME With("deal") # {} PROVE VerdictFor(Best(With("deal"))) = "deal"
      OBVIOUS
    <3>1. PICK i \in With("deal") : Best(With("deal")) = items[i]
      BY <1>2, BestIsAmong
    <3> QED
      BY <3>1 DEF With
  <2>4. first(runners) \subseteq Found /\ first(traps) \subseteq Found
    BY <1>2, <1>3
  <2>5. Deterministic = D
    BY <1>4, <1>6
  <2> HIDE DEF hero, first, runners
  <2>6. /\ Deterministic.lead = hero /\ Deterministic.warns = (traps # {})
        /\ Deterministic.names = {hero} \cup first(runners) \cup first(traps)
    BY <2>5
  <2> HIDE DEF traps, D
  <2>7. Deterministic.names \subseteq Found
    BY <2>2, <2>4, <2>6
  <2>8. TrapWarned(Deterministic)
    BY <2>6 DEF TrapWarned, traps
  <2>9. AllOf(Written, Deterministic.names) \subseteq AllOf(Shown, Found)
    <3>1. \A l \in Found : Written[l] \subseteq Shown[l]
      BY <1>1, AgentsAssumption
    <3> QED
      BY <2>7, <3>1 DEF AllOf
  <2>10. With("deal") # {} /\ Recognised(hero) => LeadIsADeal(Deterministic)
    BY <2>3, <2>6 DEF LeadIsADeal, Recognised
  <2> QED
    BY <1>6, <2>3, <2>6, <2>7, <2>8, <2>9, <2>10 DEF Approves, IsGrounded
<1> QED
  BY <1>5, <1>6

-----------------------------------------------------------------------------
(* A session                                                               *)

\* What can be searched, and what it can find.
Queries == {Asked, Plain} \cup {Text[p] : p \in Phrases}
ItemLists == {s \in Seq(Listings) : Enumerates(s)}

SessionTyped ==
    /\ signals \in [Listings -> Signals]
    /\ items \in ItemLists
    /\ query \in Queries
    /\ tried \in SUBSET Phrases
    /\ hops \in Seq([query : Queries, items : ItemLists, sufficient : BOOLEAN])

Searched(q) == \E h \in DOMAIN hops : hops[h].query = q

\* A query is as it was asked, plain, or built on a phrase used up.
QueriesOK ==
    /\ \A i \in DOMAIN hops : hops[i].query \in {Asked, Plain} \cup {Text[p] : p \in tried}
    /\ query \in {Asked, Plain} \cup {Text[p] : p \in tried}

\* The query that comes next: it was searched before only as the plain one or for a phrase
\* with the same words, it is the plain one only when all the phrases of the last hop's
\* category were searched, and no phrase is used up without its query.
NextOK ==
    pc = "retrieve" =>
        /\ Searched(query) => \/ query = Plain
                              \/ \E p, q \in Phrases : p # q /\ Text[p] = query /\ Text[q] = query
        /\ query = Plain =>
              /\ hops # << >>
              /\ \A p \in ToSet(Lexicon[TopCategory(hops[Len(hops)].items)]) : Searched(Text[p])
        /\ \A p \in tried : Text[p] = query \/ Searched(Text[p])

LoopInv == SessionTyped /\ QueriesOK /\ NextOK /\ HopsMakeProgress
SessionInv == LoopInv /\ FinalAnswerIsSafe

LEMMA SessionInitInv == Init => SessionInv
<1> SUFFICES ASSUME Init PROVE SessionInv
  OBVIOUS
<1>1. PICK r \in Rankings : items = Retrieve(r)
  BY DEF Init
<1>2. signals \in [Listings -> Signals] /\ hops = << >> /\ tried = {} /\ query = Asked /\ pc # "done"
  BY DEF Init
<1>3. items \in ItemLists
  BY <1>1, <1>2, RetrieveEnumerates DEF ItemLists, Enumerates
<1>4. SessionTyped
  BY <1>2, <1>3 DEF SessionTyped, Queries
<1>5. QueriesOK /\ NextOK
  BY <1>2 DEF QueriesOK, NextOK, Searched, Asked, Plain
<1>6. HopsMakeProgress
  BY <1>2 DEF HopsMakeProgress
<1> QED
  BY <1>2, <1>4, <1>5, <1>6 DEF SessionInv, LoopInv, FinalAnswerIsSafe

\* The operators that judge a result read only the signals and the result.
LEMMA JudgedAlike ==
    ASSUME UNCHANGED <<signals, items>>
    PROVE  /\ Found' = Found
           /\ \A v : With(v)' = With(v)
           /\ \A l : VerdictFor(l)' = VerdictFor(l)
           /\ \A places : Best(places)' = Best(places)
           /\ \A x : Matches(x)' = Matches(x)
  BY DEF Found, With, VerdictFor, Best, Matches

\* A step that searches nothing leaves the loop as it was.
LEMMA LoopRests ==
    ASSUME LoopInv, UNCHANGED <<signals, query, items, hops, tried>>,
           pc' = "retrieve" <=> pc = "retrieve"
    PROVE  LoopInv'
<1>1. SessionTyped'
  BY DEF LoopInv, SessionTyped
<1>2. QueriesOK'
  BY DEF LoopInv, QueriesOK
<1>3. NextOK'
  BY DEF LoopInv, NextOK, Searched, TopCategory, ToSet
<1>4. HopsMakeProgress'
  BY DEF LoopInv, HopsMakeProgress, TopCategory, ToSet
<1> QED
  BY <1>1, <1>2, <1>3, <1>4 DEF LoopInv

\* The writer, the models and the end of a session.
LEMMA WriteInv ==
    ASSUME SessionInv, WriteOffline \/ WriteLLM \/ NextModel \/ ModelsFail \/ Answered
    PROVE  SessionInv'
<1>1. /\ UNCHANGED <<signals, kind, query, items, hops, tried>>
      /\ pc # "retrieve" /\ pc' # "retrieve"
      /\ pc' = "done" => kind' = "agentic"
  BY DEF WriteOffline, WriteLLM, NextModel, ModelsFail, Answered
<1>2. LoopInv'
  BY <1>1, LoopRests DEF SessionInv
<1>3. FinalAnswerIsSafe'
  BY <1>1 DEF FinalAnswerIsSafe
<1> QED
  BY <1>2, <1>3 DEF SessionInv

\* The reviewer lets a draft through that it approves, and else the extractive answer.
LEMMA ReviewInv == ASSUME SessionInv, Review PROVE SessionInv'
<1>1. /\ UNCHANGED <<signals, kind, query, items, hops, tried>>
      /\ pc # "retrieve" /\ pc' # "retrieve"
  BY DEF Review
<1>2. LoopInv'
  BY <1>1, LoopRests DEF SessionInv
<1>3. /\ AllOf(Written, draft'.names) \subseteq AllOf(Shown, Found)
      /\ TrapWarned(draft')
      /\ outcome'.revised => draft'.names \subseteq Found
      /\ outcome'.approved /\ Recognised(draft'.lead) => VerdictFor(draft'.lead) = "deal"
      /\ ~outcome'.approved /\ With("deal") # {} =>
            draft'.lead = Best(With("deal")) /\ ~Recognised(draft'.lead)
  <2>1. CASE Approves(draft) /\ draft' = draft /\ outcome' = [approved |-> TRUE, revised |-> FALSE]
    <3>1. outcome'.approved = TRUE /\ outcome'.revised = FALSE
      BY <2>1
    <3>2. IsGrounded(draft) /\ LeadIsADeal(draft) /\ TrapWarned(draft)
      BY <2>1 DEF Approves
    <3>3. Recognised(draft.lead) => VerdictFor(draft.lead) = "deal"
      BY <3>2 DEF Recognised, LeadIsADeal
    <3> QED
      BY <2>1, <3>1, <3>2, <3>3 DEF IsGrounded
  <2>2. CASE draft' = Deterministic /\ outcome' = [approved |-> Approves(Deterministic), revised |-> TRUE]
    <3>1. Enumerates(items)
      BY DEF SessionInv, LoopInv, SessionTyped, ItemLists
    <3>2. outcome'.approved = Approves(Deterministic)
      BY <2>2
    <3>3. Approves(Deterministic) /\ Recognised(Deterministic.lead) => VerdictFor(Deterministic.lead) = "deal"
      BY DEF Approves, Recognised, LeadIsADeal
    <3> QED
      BY <2>2, <3>1, <3>2, <3>3, DeterministicIsSafe
  <2> QED
    BY <2>1, <2>2 DEF Review, Revision
<1>4. /\ Found' = Found /\ \A v : With(v)' = With(v)
      /\ \A l : VerdictFor(l)' = VerdictFor(l)
      /\ \A places : Best(places)' = Best(places)
      /\ \A x : Matches(x)' = Matches(x)
  BY <1>1, JudgedAlike
<1>5. FinalAnswerIsSafe'
  BY <1>3, <1>4 DEF FinalAnswerIsSafe, TrapWarned, Recognised, AllOf
<1> QED
  BY <1>2, <1>5 DEF SessionInv

\* The category of the listing on top has phrases.
LEMMA TopHasPhrases ==
    ASSUME NEW s \in ItemLists
    PROVE  TopCategory(s) \in DOMAIN Lexicon
<1>1. CASE s = << >>
  BY <1>1, AgentsAssumption DEF TopCategory
<1>2. CASE s # << >>
  <2>1. s[1] \in Listings
    BY <1>2 DEF ItemLists
  <2> QED
    BY <1>2, <2>1, AgentsAssumption DEF TopCategory
<1> QED
  BY <1>1, <1>2

\* What a query finds is the top of some rankings, or what it found before.
LEMMA ResultsOfQuery ==
    ASSUME signals \in [Listings -> Signals], NEW q,
           NEW made \in Seq([query : Queries, items : ItemLists, sufficient : BOOLEAN])
    PROVE  ResultsOf(q, made) \subseteq ItemLists
<1>1. \A r \in Rankings : Retrieve(r) \in ItemLists
  BY RetrieveEnumerates DEF ItemLists, Enumerates
<1>2. \A i \in DOMAIN made : made[i].items \in ItemLists
  <2> DEFINE R == [query : Queries, items : ItemLists, sufficient : BOOLEAN]
  <2> HIDE DEF R
  <2>0. made \in Seq(R)
    BY DEF R
  <2>1. \A i \in DOMAIN made : made[i] \in R
    BY <2>0
  <2> QED
    BY <2>1 DEF R
<1> DEFINE before == {i \in DOMAIN made : made[i].query = q}
<1>3. CASE before = {}
  <2>1. ResultsOf(q, made) = {Retrieve(r) : r \in Rankings}
    BY <1>3 DEF ResultsOf
  <2> QED
    BY <1>1, <2>1
<1>4. CASE before # {}
  <2>1. ResultsOf(q, made) = {made[i].items : i \in before}
    BY <1>4 DEF ResultsOf
  <2> QED
    BY <1>2, <2>1
<1> QED
  BY <1>3, <1>4

\* A hop: the phrase it takes is one that was not tried.
LEMMA HopInv == ASSUME SessionInv, Hop PROVE SessionInv'
<1> DEFINE cat == TopCategory(items)
           left == Untried(cat)
           phrase == Lexicon[cat][CHOOSE i \in left : \A j \in left : i <= j]
           hop == [query |-> query, items |-> items, sufficient |-> Sufficient]
           n == Len(hops)
<1>1. /\ pc = "retrieve" /\ UNCHANGED <<signals, kind, tier, draft, outcome>>
      /\ hops' = Append(hops, hop)
      /\ pc' \in {"retrieve", "write"}
  BY DEF Hop
<1>2. \/ Sufficient /\ pc' = "write" /\ UNCHANGED <<query, items, tried>>
      \/ /\ ~Sufficient
         /\ query' = IF left = {} THEN Plain ELSE Text[phrase]
         /\ tried' = tried \cup (IF left = {} THEN {} ELSE {phrase})
         /\ items' \in ResultsOf(query', hops')
  BY DEF Hop
<1>t. SessionTyped /\ QueriesOK /\ NextOK /\ HopsMakeProgress
  BY DEF SessionInv, LoopInv
<1>u. /\ signals \in [Listings -> Signals] /\ items \in ItemLists /\ query \in Queries
      /\ tried \in SUBSET Phrases
      /\ hops \in Seq([query : Queries, items : ItemLists, sufficient : BOOLEAN])
  BY <1>t DEF SessionTyped
<1>3. cat \in DOMAIN Lexicon
  BY <1>u, TopHasPhrases
<1> HIDE DEF cat
<1>4. left # {} => phrase \in Phrases /\ phrase \notin tried /\ Text[phrase] \notin {Asked, Plain}
  <2> SUFFICES ASSUME left # {} PROVE phrase \in Phrases /\ phrase \notin tried
    BY AgentsAssumption
  <2>1. left \subseteq DOMAIN Lexicon[cat] /\ left \subseteq Nat
    BY <1>3, AgentsAssumption DEF Untried
  <2>2. \E i \in left : \A j \in left : i <= j
    <3> HIDE DEF left
    <3> QED
      BY <2>1, LeastPlace
  <2> DEFINE i == CHOOSE x \in left : \A j \in left : x <= j
  <2>3. i \in left
    BY <2>2
  <2>4. phrase = Lexicon[cat][i]
    OBVIOUS
  <2> HIDE DEF i
  <2>5. i \in DOMAIN Lexicon[cat] /\ Lexicon[cat][i] \notin tried
    BY <2>1, <2>3 DEF Untried
  <2>6. Lexicon[cat][i] \in Phrases
    BY <1>3, <2>5 DEF Phrases, ToSet
  <2> HIDE DEF left, phrase
  <2> QED
    BY <2>4, <2>5, <2>6
<1>5. left = {} => ToSet(Lexicon[cat]) \subseteq tried
  BY DEF Untried, ToSet
<1> HIDE DEF left, phrase
<1>6. hop \in [query : Queries, items : ItemLists, sufficient : BOOLEAN]
  <2>1. Sufficient \in BOOLEAN
    BY DEF Sufficient
  <2> QED
    BY <1>u, <2>1
<1>7. hop.query = query /\ hop.items = items /\ hop.sufficient = Sufficient
  OBVIOUS
<1> HIDE DEF hop
<1>8. /\ hops' \in Seq([query : Queries, items : ItemLists, sufficient : BOOLEAN])
      /\ n \in Nat /\ Len(hops') = n + 1 /\ DOMAIN hops' = 1..(n + 1) /\ DOMAIN hops = 1..n
      /\ hops'[n + 1] = hop
      /\ \A i \in 1..n : hops'[i] = hops[i]
  BY <1>1, <1>6, <1>u
<1> DEFINE Now(q) == \E h \in DOMAIN hops' : hops'[h].query = q
<1>9. \A q : Now(q) <=> Searched(q) \/ q = query
  BY <1>7, <1>8 DEF Searched
<1>10. \A i \in 1..(n + 1) : hops'[i].query \in {Asked, Plain} \cup {Text[p] : p \in tried}
  BY <1>7, <1>8, <1>t DEF QueriesOK
<1>11. SessionTyped'
  <2>1. CASE UNCHANGED <<query, items, tried>>
    BY <1>1, <1>8, <1>u, <2>1 DEF SessionTyped
  <2>2. CASE /\ query' = IF left = {} THEN Plain ELSE Text[phrase]
             /\ tried' = tried \cup (IF left = {} THEN {} ELSE {phrase})
             /\ items' \in ResultsOf(query', hops')
    <3>1. items' \in ItemLists
      BY <1>8, <1>u, <2>2, ResultsOfQuery
    <3>2. query' \in Queries /\ tried' \in SUBSET Phrases
      BY <1>4, <1>u, <2>2 DEF Queries
    <3> QED
      BY <1>1, <1>8, <1>u, <3>1, <3>2 DEF SessionTyped
  <2> QED
    BY <1>2, <2>1, <2>2
<1>12. QueriesOK'
  <2>1. tried \subseteq tried' /\ query' \in {Asked, Plain} \cup {Text[p] : p \in tried'}
    BY <1>2, <1>t DEF QueriesOK
  <2>2. \A i \in DOMAIN hops' : hops'[i].query \in {Asked, Plain} \cup {Text[p] : p \in tried'}
    BY <1>8, <1>10, <2>1
  <2> QED
    BY <2>1, <2>2 DEF QueriesOK
<1>13. NextOK'
  <2>1. CASE pc' # "retrieve"
    BY <2>1 DEF NextOK
  <2>2. CASE pc' = "retrieve"
    <3>1. /\ query' = IF left = {} THEN Plain ELSE Text[phrase]
          /\ tried' = tried \cup (IF left = {} THEN {} ELSE {phrase})
      BY <1>2, <2>2
    <3>2. ASSUME Now(query'), query' # Plain
          PROVE  \E p, q \in Phrases : p # q /\ Text[p] = query' /\ Text[q] = query'
      <4>1. left # {} /\ query' = Text[phrase]
        BY <3>1, <3>2
      <4>2. query' \in {Asked, Plain} \cup {Text[p] : p \in tried}
        BY <1>8, <1>10, <3>2
      <4>3. PICK p \in tried : Text[p] = Text[phrase]
        BY <1>4, <4>1, <4>2
      <4> QED
        BY <1>4, <1>u, <4>1, <4>3
    <3>3. \A p \in tried : Now(Text[p])
      BY <1>1, <1>9, <1>t DEF NextOK
    <3>4. query' = Plain => \A p \in ToSet(Lexicon[cat]) : Now(Text[p])
      BY <1>4, <1>5, <3>1, <3>3
    <3>5. hops' # << >> /\ TopCategory(hops'[Len(hops')].items) = cat
      BY <1>7, <1>8 DEF cat
    <3>6. \A p \in tried' : Text[p] = query' \/ Now(Text[p])
      BY <3>1, <3>3
    <3> QED
      BY <3>2, <3>4, <3>5, <3>6 DEF NextOK, Searched, TopCategory, ToSet
  <2> QED
    BY <2>1, <2>2
<1>14. HopsMakeProgress'
  <2>1. ASSUME NEW i \in 1..(n + 1), NEW j \in 1..(n + 1), i < j, hops'[i].query = hops'[j].query
        PROVE  \/ hops'[i].query = Plain
               \/ \E p, q \in Phrases : p # q /\ Text[p] = hops'[i].query /\ Text[q] = hops'[i].query
    <3>1. i \in 1..n /\ hops'[i] = hops[i]
      BY <1>8, <2>1
    <3>2. CASE j \in 1..n
      BY <1>8, <1>t, <2>1, <3>1, <3>2 DEF HopsMakeProgress
    <3>3. CASE j = n + 1
      <4>1. hops[i].query = query /\ Searched(query)
        BY <1>7, <1>8, <2>1, <3>1, <3>3 DEF Searched
      <4> QED
        BY <1>1, <1>t, <3>1, <4>1 DEF NextOK
    <3> QED
      BY <1>8, <3>2, <3>3
  <2>2. ASSUME NEW j \in 1..(n + 1), hops'[j].query = Plain
        PROVE  /\ j > 1
               /\ \A p \in ToSet(Lexicon[TopCategory(hops'[j - 1].items)]) :
                     \E h \in 1..(j - 1) : hops'[h].query = Text[p]
    <3>1. CASE j \in 1..n
      <4>1. /\ j > 1
            /\ \A p \in ToSet(Lexicon[TopCategory(hops[j - 1].items)]) :
                  \E h \in 1..(j - 1) : hops[h].query = Text[p]
        BY <1>8, <1>t, <2>2, <3>1 DEF HopsMakeProgress
      <4>2. j - 1 \in 1..n /\ \A h \in 1..(j - 1) : hops'[h] = hops[h]
        BY <1>8, <3>1, <4>1
      <4> QED
        BY <4>1, <4>2
    <3>2. CASE j = n + 1
      <4>1. /\ hops # << >>
            /\ \A p \in ToSet(Lexicon[TopCategory(hops[n].items)]) : Searched(Text[p])
        BY <1>1, <1>7, <1>8, <1>t, <2>2, <3>2 DEF NextOK
      <4>2. n \in 1..n
        BY <1>8, <1>u, <4>1
      <4>3. hops'[j - 1] = hops[n] /\ 1..(j - 1) = DOMAIN hops
        BY <1>8, <3>2, <4>2
      <4> QED
        BY <1>8, <3>2, <4>1, <4>2, <4>3 DEF Searched
    <3> QED
      BY <1>8, <3>1, <3>2
  <2>3. ASSUME NEW i \in 1..(n + 1), hops'[i].sufficient
        PROVE  /\ i = Len(hops') /\ pc' # "retrieve"
               /\ query' = hops'[i].query /\ items' = hops'[i].items
    <3>1. i = n + 1
      BY <1>1, <1>8, <1>t, <2>3 DEF HopsMakeProgress
    <3> QED
      BY <1>2, <1>7, <1>8, <2>3, <3>1
  <2> QED
    BY <1>8, <2>1, <2>2, <2>3 DEF HopsMakeProgress, TopCategory, ToSet
<1>15. FinalAnswerIsSafe'
  BY <1>1 DEF FinalAnswerIsSafe
<1> QED
  BY <1>11, <1>12, <1>13, <1>14, <1>15 DEF SessionInv, LoopInv

LEMMA SessionInvariance == Spec => []SessionInv
<1>1. ASSUME SessionInv, [Next]_vars PROVE SessionInv'
  <2>1. CASE WriteOffline \/ WriteLLM \/ NextModel \/ ModelsFail \/ Answered
    BY <1>1, <2>1, WriteInv
  <2>2. CASE Review
    BY <1>1, <2>2, ReviewInv
  <2>3. CASE Hop
    BY <1>1, <2>3, HopInv
  <2>4. CASE UNCHANGED vars
    <3>1. UNCHANGED <<signals, kind, query, items, hops, tried, pc, draft, outcome>>
      BY <2>4 DEF vars
    <3>2. LoopInv'
      BY <1>1, <3>1, LoopRests DEF SessionInv
    <3>3. /\ Found' = Found /\ \A v : With(v)' = With(v)
          /\ \A l : VerdictFor(l)' = VerdictFor(l)
          /\ \A places : Best(places)' = Best(places)
          /\ \A x : Matches(x)' = Matches(x)
      BY <3>1, JudgedAlike
    <3>4. FinalAnswerIsSafe'
      BY <1>1, <3>1, <3>3 DEF SessionInv, FinalAnswerIsSafe, TrapWarned, Recognised, AllOf
    <3> QED
      BY <3>2, <3>4 DEF SessionInv
  <2> QED
    BY <1>1, <2>1, <2>2, <2>3, <2>4 DEF Next, Done
<1> QED
  BY <1>1, SessionInitInv, PTL DEF Spec

\* Whatever the models wrote or failed to write, the answer that leaves orchestrate and
\* GET /review writes no price and no model code that was not retrieved and warns of a
\* trap; a lead that the reviewer recognises is a deal, and a deal is only passed over when
\* he does not recognise it: for any snapshot, signals, rankings, names and models.
THEOREM AnswersAreSafe == Spec => []FinalAnswerIsSafe
<1>1. SessionInv => FinalAnswerIsSafe
  BY DEF SessionInv
<1> QED
  BY <1>1, SessionInvariance, PTL

\* agentic_answer searches a text twice only for two phrases with the same words, asks the
\* plain query only when it has asked for every phrase of the category on top, and writes
\* from the first sufficient evidence: for any lexicon and number of hops.
THEOREM LoopMakesProgress == Spec => []HopsMakeProgress
<1>1. SessionInv => HopsMakeProgress
  BY DEF SessionInv, LoopInv
<1> QED
  BY <1>1, SessionInvariance, PTL

-----------------------------------------------------------------------------
(* Picking places                                                          *)

\* The places up to one of them are some of the places, that one among them.
LEMMA UpToFacts ==
    ASSUME NEW n \in Nat, NEW places \in SUBSET (1..n), NEW i \in places
    PROVE  /\ IsFiniteSet(places) /\ Cardinality(places) \in 0..n
           /\ IsFiniteSet(UpTo(places, i)) /\ i \in UpTo(places, i)
           /\ Cardinality(UpTo(places, i)) \in 1..Cardinality(places)
<1>1. IsFiniteSet(1..n) /\ Cardinality(1..n) = n
  BY FS_Interval
<1>2. IsFiniteSet(places) /\ Cardinality(places) <= n
  BY <1>1, FS_Subset
<1>3. UpTo(places, i) \subseteq places /\ i \in UpTo(places, i)
  BY DEF UpTo
<1>4. IsFiniteSet(UpTo(places, i)) /\ Cardinality(UpTo(places, i)) <= Cardinality(places)
  BY <1>2, <1>3, FS_Subset
<1>5. Cardinality({i}) = 1 /\ Cardinality({i}) <= Cardinality(UpTo(places, i))
  BY <1>3, <1>4, FS_Singleton, FS_Subset
<1>6. Cardinality(places) \in Nat /\ Cardinality(UpTo(places, i)) \in Nat
  BY <1>2, <1>4, FS_CardinalityType
<1> QED
  BY <1>2, <1>3, <1>4, <1>5, <1>6

\* Of two places, the lower has fewer places up to it.
LEMMA LowerHasFewer ==
    ASSUME NEW n \in Nat, NEW places \in SUBSET (1..n), NEW i \in places, NEW j \in places, i < j
    PROVE  Cardinality(UpTo(places, i)) < Cardinality(UpTo(places, j))
<1>1. IsFiniteSet(UpTo(places, j)) /\ j \in UpTo(places, j)
  BY UpToFacts
<1>i. i \in Int /\ j \in Int /\ \A x \in places : x \in Int
  OBVIOUS
<1>2. UpTo(places, i) \subseteq UpTo(places, j) /\ j \notin UpTo(places, i)
  <2>1. ASSUME NEW x \in places, x <= i PROVE x <= j
    BY <1>i, <2>1
  <2>2. ~(j <= i)
    BY <1>i
  <2> QED
    BY <2>1, <2>2 DEF UpTo
<1>3. /\ Cardinality(UpTo(places, i)) <= Cardinality(UpTo(places, j))
      /\ Cardinality(UpTo(places, i)) # Cardinality(UpTo(places, j))
  BY <1>1, <1>2, FS_Subset
<1>4. Cardinality(UpTo(places, i)) \in Nat /\ Cardinality(UpTo(places, j)) \in Nat
  <2>1. /\ Cardinality(UpTo(places, i)) \in 1..Cardinality(places)
        /\ Cardinality(UpTo(places, j)) \in 1..Cardinality(places)
    BY UpToFacts
  <2> QED
    BY <2>1
<1> QED
  BY <1>3, <1>4

\* A place is the one with its number.
LEMMA NthIs ==
    ASSUME NEW n \in Nat, NEW places \in SUBSET (1..n), NEW i \in places
    PROVE  Nth(places, Cardinality(UpTo(places, i))) = i
<1> DEFINE m == Cardinality(UpTo(places, i))
           k == CHOOSE x \in places : Cardinality(UpTo(places, x)) = m
<1>1. k \in places /\ Cardinality(UpTo(places, k)) = m
  OBVIOUS
<1>2. k = Nth(places, m)
  BY DEF Nth
<1> HIDE DEF k
<1>3. m \in Nat
  <2>1. Cardinality(UpTo(places, i)) \in 1..Cardinality(places)
    BY UpToFacts
  <2> QED
    BY <2>1
<1>4. ~(k < i) /\ ~(i < k)
  <2>1. k < i => Cardinality(UpTo(places, k)) < Cardinality(UpTo(places, i))
    BY <1>1, LowerHasFewer
  <2>2. i < k => Cardinality(UpTo(places, i)) < Cardinality(UpTo(places, k))
    BY <1>1, LowerHasFewer
  <2> QED
    BY <1>1, <1>3, <2>1, <2>2
<1>5. k \in Int /\ i \in Int
  BY <1>1
<1> QED
  BY <1>2, <1>4, <1>5

\* Every number up to that of the places is the number of one of them, every place has
\* one, and they rise with the places.
LEMMA NthFacts ==
    ASSUME NEW n \in Nat, NEW places \in SUBSET (1..n)
    PROVE  /\ Cardinality(places) \in 0..n
           /\ \A m \in 1..Cardinality(places) :
                /\ Nth(places, m) \in places
                /\ Cardinality(UpTo(places, Nth(places, m))) = m
           /\ \A i \in places : \E m \in 1..Cardinality(places) : Nth(places, m) = i
           /\ \A m, k \in 1..Cardinality(places) : m < k => Nth(places, m) < Nth(places, k)
<1> DEFINE N == Cardinality(places)
           rank == [i \in places |-> Cardinality(UpTo(places, i))]
<1>0. IsFiniteSet(places) /\ N \in 0..n
  <2>1. IsFiniteSet(1..n) /\ Cardinality(1..n) = n
    BY FS_Interval
  <2>2. IsFiniteSet(places) /\ N <= n
    BY <2>1, FS_Subset
  <2>3. N \in Nat
    BY <2>2, FS_CardinalityType
  <2> QED
    BY <2>2, <2>3
<1>1. \A i \in places : Cardinality(UpTo(places, i)) \in 1..N
  BY UpToFacts
<1>2. rank \in [places -> 1..N]
  BY <1>1
<1>3. \A i, j \in places : rank[i] = rank[j] => i = j
  BY NthIs
<1>4. rank \in Injection(places, 1..N)
  BY <1>2, <1>3 DEF Injection, IsInjective
<1>5. IsFiniteSet(1..N) /\ Cardinality(1..N) = N
  BY <1>0, FS_Interval
<1>6. rank \in Surjection(places, 1..N)
  BY <1>4, <1>5, FS_Injection
<1>7. \A m \in 1..N : \E i \in places : rank[i] = m
  BY <1>6 DEF Surjection
<1>8. \A m \in 1..N : Nth(places, m) \in places /\ Cardinality(UpTo(places, Nth(places, m))) = m
  <2> SUFFICES ASSUME NEW m \in 1..N
               PROVE  Nth(places, m) \in places /\ Cardinality(UpTo(places, Nth(places, m))) = m
    OBVIOUS
  <2>1. PICK i \in places : Cardinality(UpTo(places, i)) = m
    BY <1>7
  <2>2. Nth(places, Cardinality(UpTo(places, i))) = i
    BY NthIs
  <2> QED
    BY <2>1, <2>2
<1>9. \A i \in places : \E m \in 1..N : Nth(places, m) = i
  BY <1>1, NthIs
<1>10. ASSUME NEW m \in 1..N, NEW k \in 1..N, m < k PROVE Nth(places, m) < Nth(places, k)
  <2>1. Nth(places, m) \in places /\ Nth(places, k) \in places
    BY <1>8
  <2>2. ~(Nth(places, k) < Nth(places, m))
    <3>1. ASSUME Nth(places, k) < Nth(places, m) PROVE FALSE
      <4>1. Cardinality(UpTo(places, Nth(places, k))) < Cardinality(UpTo(places, Nth(places, m)))
        BY <2>1, <3>1, LowerHasFewer
      <4> QED
        BY <1>8, <1>10, <4>1
    <3> QED
      BY <3>1
  <2>3. Nth(places, k) # Nth(places, m)
    BY <1>8, <1>10
  <2>4. Nth(places, k) \in Int /\ Nth(places, m) \in Int
    <3>1. \A x \in places : x \in Int
      OBVIOUS
    <3> QED
      BY <2>1, <3>1
  <2> QED
    BY <2>1, <2>2, <2>3, <2>4
<1> HIDE DEF N
<1>11. \A m, k \in 1..N : m < k => Nth(places, m) < Nth(places, k)
  BY <1>10
<1> QED
  BY <1>0, <1>8, <1>9, <1>11 DEF N

\* What is picked is the places in order.
LEMMA PickIs ==
    ASSUME NEW n \in Nat, NEW s, NEW places \in SUBSET (1..n)
    PROVE  Pick(s, places) = [m \in 1..Cardinality(places) |-> s[Nth(places, m)]]
<1> DEFINE N == Cardinality(places)
           t == [m \in 1..N |-> s[Nth(places, m)]]
<1>1. N \in Nat
  <2>1. N \in 0..n
    BY NthFacts
  <2> QED
    BY <2>1
<1>2. Pick(s, places) = SubSeq(t, 1, N)
  BY DEF Pick
<1> HIDE DEF N
<1>3. DOMAIN t = 1..N /\ Len(t) = N /\ t \in Seq({t[m] : m \in 1..N})
  BY <1>1
<1>4. t = [m \in 1..N |-> t[m]]
  OBVIOUS
<1> HIDE DEF t
<1>5. SubSeq(t, 1, N) = [m \in 1..N |-> t[m]]
  BY <1>1, <1>3
<1> QED
  BY <1>2, <1>4, <1>5 DEF t, N

\* Picking from what was picked is picking once.
LEMMA PickPick ==
    ASSUME NEW n \in Nat, NEW s, DOMAIN s = 1..n, NEW A \in SUBSET (1..n),
           NEW B \in SUBSET (1..Cardinality(A))
    PROVE  Pick(Pick(s, A), B) = Pick(s, {Nth(A, m) : m \in B})
<1> DEFINE N == Cardinality(A)
           M == Cardinality(B)
           C == {Nth(A, m) : m \in B}
<1>p. \A places \in SUBSET (1..n) :
          Pick(s, places) = [m \in 1..Cardinality(places) |-> s[Nth(places, m)]]
  BY PickIs
<1>1. /\ N \in 0..n
      /\ \A m \in 1..N : Nth(A, m) \in A
      /\ \A m, k \in 1..N : m < k => Nth(A, m) < Nth(A, k)
  BY NthFacts
<1>i. A \subseteq Int
  OBVIOUS
<1>2. /\ M \in 0..N
      /\ \A k \in 1..M : Nth(B, k) \in B /\ Cardinality(UpTo(B, Nth(B, k))) = k
  <2>1. N \in Nat
    BY <1>1
  <2> HIDE DEF N
  <2>2. B \in SUBSET (1..N)
    BY DEF N
  <2> QED
    BY <2>1, <2>2, NthFacts
<1>3. C \in SUBSET (1..n)
  BY <1>1
<1>4. ASSUME NEW D \in SUBSET B
      PROVE  Cardinality({Nth(A, m) : m \in D}) = Cardinality(D)
  <2> DEFINE f == [m \in D |-> Nth(A, m)]
             E == {Nth(A, m) : m \in D}
  <2>1. \A m, k \in D : Nth(A, m) = Nth(A, k) => m = k
    <3> SUFFICES ASSUME NEW m \in D, NEW k \in D, Nth(A, m) = Nth(A, k) PROVE m = k
      OBVIOUS
    <3>1. m \in 1..N /\ k \in 1..N
      OBVIOUS
    <3>2. Nth(A, m) \in Int
      BY <1>1, <1>i, <3>1
    <3>3. ~(m < k) /\ ~(k < m)
      BY <1>1, <3>1, <3>2
    <3>4. m \in Int /\ k \in Int
      BY <3>1
    <3> QED
      BY <3>3, <3>4
  <2>2. f \in [D -> E]
    OBVIOUS
  <2>3. \A e \in E : \E m \in D : f[m] = e
    OBVIOUS
  <2>4. \A m, k \in D : f[m] = f[k] => m = k
    BY <2>1
  <2>5. f \in Bijection(D, E)
    <3> HIDE DEF f, E
    <3> QED
      BY <2>2, <2>3, <2>4 DEF Bijection, Injection, Surjection, IsInjective
  <2>6. IsFiniteSet(D)
    <3>1. IsFiniteSet(1..N)
      BY <1>1, FS_Interval
    <3>2. D \in SUBSET (1..N)
      OBVIOUS
    <3> QED
      BY <3>1, <3>2, FS_Subset
  <2>7. ExistsBijection(D, E)
    BY <2>5 DEF ExistsBijection
  <2> HIDE DEF E
  <2>8. Cardinality(E) = Cardinality(D)
    BY <2>6, <2>7, FS_Bijection
  <2> QED
    BY <2>8 DEF E
<1>5. Cardinality(C) = M
  BY <1>4
<1>6. ASSUME NEW k \in 1..M PROVE Nth(C, k) = Nth(A, Nth(B, k))
  <2> DEFINE m == Nth(B, k)
             i == Nth(A, m)
             D == UpTo(B, m)
  <2>1. m \in B /\ m \in 1..N /\ Cardinality(D) = k
    BY <1>2
  <2>2. i \in C
    BY <2>1
  <2>3. UpTo(C, i) = {Nth(A, x) : x \in D}
    <3>1. ASSUME NEW x \in B PROVE Nth(A, x) <= i <=> x <= m
      <4>1. x \in 1..N /\ x \in Int /\ m \in Int
        BY <2>1
      <4>2. Nth(A, x) \in Int /\ i \in Int
        BY <1>1, <1>i, <2>1, <4>1
      <4> HIDE DEF m
      <4>3. x < m => Nth(A, x) < i
        BY <1>1, <2>1, <4>1
      <4>4. m < x => i < Nth(A, x)
        BY <1>1, <2>1, <4>1
      <4> QED
        BY <4>1, <4>2, <4>3, <4>4
    <3> HIDE DEF i, m
    <3> QED
      BY <3>1 DEF UpTo
  <2>4. D \in SUBSET B
    BY DEF UpTo
  <2>5. Cardinality(UpTo(C, i)) = k
    <3> HIDE DEF i, D, m, C
    <3> QED
      BY <1>4, <2>1, <2>3, <2>4
  <2>6. Nth(C, Cardinality(UpTo(C, i))) = i
    <3> HIDE DEF C, i
    <3> QED
      BY <1>3, <2>2, NthIs
  <2> QED
    BY <2>5, <2>6
<1>7. Pick(s, A) = [m \in 1..N |-> s[Nth(A, m)]]
  BY PickIs
<1>8. Pick(Pick(s, A), B) = [k \in 1..M |-> Pick(s, A)[Nth(B, k)]]
  <2>1. N \in Nat /\ B \in SUBSET (1..N)
    BY <1>1
  <2> HIDE DEF N
  <2> QED
    BY <2>1, PickIs
<1>9. Pick(s, C) = [k \in 1..M |-> s[Nth(C, k)]]
  <2> HIDE DEF C, M
  <2>1. Pick(s, C) = [k \in 1..Cardinality(C) |-> s[Nth(C, k)]]
    BY <1>3, <1>p, Zenon
  <2> QED
    BY <1>5, <2>1
<1> HIDE DEF C, M, N
<1>10. ASSUME NEW k \in 1..M PROVE Pick(s, A)[Nth(B, k)] = s[Nth(C, k)]
  <2>1. Nth(B, k) \in 1..N
    BY <1>2 DEF N
  <2>2. Pick(s, A)[Nth(B, k)] = s[Nth(A, Nth(B, k))]
    BY <1>7, <2>1
  <2> QED
    BY <1>6, <2>2
<1> QED
  BY <1>8, <1>9, <1>10 DEF C

-----------------------------------------------------------------------------
(* Licences                                                                *)

\* The rows of a result set whose source has all of some rights.
Rightful(offers, R) == {i \in DOMAIN offers : \A right \in R : May(right, offers[i].src)}
Rows(offers, R) == Pick(offers, Rightful(offers, R))

LEMMA ResultSetIsSeq ==
    ASSUME NEW offers, IsResultSet(offers)
    PROVE  Len(offers) \in Nat /\ DOMAIN offers = 1..Len(offers)
  BY DEF IsResultSet

\* Asking for one right.
LEMMA LicensedIsRows ==
    ASSUME NEW offers, NEW right
    PROVE  Licensed(right, offers) = Rows(offers, {right})
<1>1. Rightful(offers, {right}) = {i \in DOMAIN offers : May(right, offers[i].src)}
  BY DEF Rightful
<1> QED
  BY <1>1 DEF Licensed, Rows

\* Some rows of a result set are a result set; they are offers that have the rights, and
\* all of these.
LEMMA RowsFacts ==
    ASSUME NEW offers, IsResultSet(offers), NEW R
    PROVE  /\ IsResultSet(Rows(offers, R))
           /\ Len(Rows(offers, R)) <= Len(offers)
           /\ \A m \in DOMAIN Rows(offers, R) : \E i \in Rightful(offers, R) : Rows(offers, R)[m] = offers[i]
           /\ \A i \in Rightful(offers, R) : \E m \in DOMAIN Rows(offers, R) : Rows(offers, R)[m] = offers[i]
<1> DEFINE n == Len(offers)
           A == Rightful(offers, R)
           N == Cardinality(A)
           rows == Rows(offers, R)
<1>1. n \in Nat /\ DOMAIN offers = 1..n
  BY ResultSetIsSeq
<1>2. A \in SUBSET (1..n)
  BY <1>1 DEF Rightful
<1> HIDE DEF n, A
<1>3. /\ N \in 0..n
      /\ \A m \in 1..N : Nth(A, m) \in A
      /\ \A i \in A : \E m \in 1..N : Nth(A, m) = i
      /\ \A m, k \in 1..N : m < k => Nth(A, m) < Nth(A, k)
  BY <1>1, <1>2, NthFacts
<1>4. rows = [m \in 1..N |-> offers[Nth(A, m)]]
  BY <1>1, <1>2, PickIs DEF Rows, A
<1> HIDE DEF rows, N
<1>5. DOMAIN rows = 1..N /\ Len(rows) = N /\ \A m \in 1..N : rows[m] = offers[Nth(A, m)]
  BY <1>3, <1>4
<1>6. \A m \in 1..N : Nth(A, m) \in 1..n
  BY <1>2, <1>3
<1>7. rows \in Seq({rows[m] : m \in DOMAIN rows})
  BY <1>3, <1>4, <1>5
<1>8. ASSUME NEW m \in 1..N, NEW k \in 1..N, rows[m].id = rows[k].id PROVE m = k
  <2>1. Nth(A, m) = Nth(A, k)
    BY <1>1, <1>5, <1>6, <1>8 DEF IsResultSet
  <2>2. Nth(A, m) \in Int /\ Nth(A, k) \in Int
    BY <1>6
  <2>3. ~(m < k) /\ ~(k < m)
    BY <1>3, <2>1, <2>2
  <2>4. m \in Int /\ k \in Int
    OBVIOUS
  <2> QED
    BY <2>3, <2>4
<1>9. \A m \in 1..N : rows[m].price \in Nat
  BY <1>1, <1>5, <1>6 DEF IsResultSet
<1>10. IsResultSet(rows)
  BY <1>5, <1>7, <1>8, <1>9 DEF IsResultSet
<1>11. N <= n
  BY <1>1, <1>3
<1> QED
  BY <1>3, <1>5, <1>10, <1>11 DEF n, A, rows

\* Licences are asked in any order, and asking again changes nothing.
LEMMA LicensedRows ==
    ASSUME NEW offers, IsResultSet(offers), NEW R, NEW right
    PROVE  Licensed(right, Rows(offers, R)) = Rows(offers, R \cup {right})
<1> DEFINE n == Len(offers)
           A == Rightful(offers, R)
           N == Cardinality(A)
           rows == Rows(offers, R)
           B == {m \in DOMAIN rows : May(right, rows[m].src)}
<1>1. n \in Nat /\ DOMAIN offers = 1..n
  BY ResultSetIsSeq
<1>2. A \in SUBSET (1..n)
  BY <1>1 DEF Rightful
<1>3. rows = [m \in 1..N |-> offers[Nth(A, m)]]
  BY <1>1, <1>2, PickIs DEF Rows
<1>4. B \in SUBSET (1..N)
  BY <1>3
<1>5. Licensed(right, rows) = Pick(Pick(offers, A), B)
  BY DEF Licensed, Rows
<1> HIDE DEF n, A, rows
<1>6. /\ \A m \in 1..N : Nth(A, m) \in A
      /\ \A i \in A : \E m \in 1..N : Nth(A, m) = i
  BY <1>1, <1>2, NthFacts
<1>7. {Nth(A, m) : m \in B} = {i \in A : May(right, offers[i].src)}
  <2> HIDE DEF N
  <2>1. \A m \in B : m \in 1..N /\ May(right, offers[Nth(A, m)].src)
    BY <1>3
  <2>2. \A m \in 1..N : May(right, offers[Nth(A, m)].src) => m \in B
    BY <1>3
  <2> HIDE DEF B
  <2> QED
    BY <1>6, <2>1, <2>2
<1>8. {i \in A : May(right, offers[i].src)} = Rightful(offers, R \cup {right})
  BY DEF A, Rightful
<1> HIDE DEF B, N
<1>9. Pick(Pick(offers, A), B) = Pick(offers, {Nth(A, m) : m \in B})
  BY <1>1, <1>2, <1>4, PickPick DEF N
<1> QED
  BY <1>5, <1>7, <1>8, <1>9 DEF Rows, rows

-----------------------------------------------------------------------------
(* Scores                                                                  *)

\* The median of whole numbers, doubled, is whole.
LEMMA MedianIsInt ==
    ASSUME NEW n \in Nat, NEW s \in [1..n -> Int]
    PROVE  Median2(s) \in Int
<1> DEFINE score == [i \in DOMAIN s |-> -s[i]]
           up == SortedBy(s, score)
           lo == (n + 1) \div 2
           hi == n \div 2 + 1
<1>1. score \in [1..n -> Int] /\ Len(s) = n
  OBVIOUS
<1>2. CASE s = << >>
  BY <1>2 DEF Median2
<1>3. CASE s # << >>
  <2>1. n # 0
    BY <1>3
  <2>2. lo \in 1..n /\ hi \in 1..n
    BY <2>1
  <2> HIDE DEF score, lo, hi
  <2>3. \A m \in 1..n : PlaceOf(score, m) \in 1..n
    BY <1>1, PlacesOf
  <2>4. \A m \in 1..n : up[m] \in Int
    BY <2>3 DEF SortedBy
  <2>5. up[lo] \in Int /\ up[hi] \in Int
    BY <2>2, <2>4
  <2>6. Median2(s) = up[lo] + up[hi]
    BY <1>1, <1>3 DEF Median2, lo, hi, score
  <2> HIDE DEF up
  <2> QED
    BY <2>5, <2>6
<1> QED
  BY <1>2, <1>3

LEMMA MarketMedianIsInt ==
    ASSUME NEW offers, IsResultSet(offers)
    PROVE  MarketMedian2(offers) \in Int
<1> DEFINE rows == Rows(offers, {"verdicts"})
           n == Len(rows)
<1>1. IsResultSet(rows)
  BY RowsFacts
<1> HIDE DEF rows
<1>2. n \in Nat /\ DOMAIN rows = 1..n
  BY <1>1, ResultSetIsSeq
<1>3. Prices(rows) \in [1..n -> Int]
  BY <1>1, <1>2 DEF Prices, IsResultSet
<1>4. MarketMedian2(offers) = Median2(Prices(rows))
  BY LicensedIsRows DEF MarketMedian2, rows
<1> QED
  BY <1>2, <1>3, <1>4, MedianIsInt

\* The rows with their verdicts, and the value of each.
Rated(rows, med2) ==
    [i \in DOMAIN rows |-> [id |-> rows[i].id, src |-> rows[i].src, price |-> rows[i].price,
                            verdict |-> VerdictOf(rows, rows[i], med2)]]
Values(rated, med2) == [i \in DOMAIN rated |-> Value(rated[i], med2)]

\* score_offers shows the rows that may be mixed, each once, sorted by value.
LEMMA ShopShape ==
    ASSUME NEW offers, IsResultSet(offers), NEW rows, rows = Rows(offers, {"comingle"}),
           NEW med2, med2 = MarketMedian2(offers)
    PROVE  /\ Values(Rated(rows, med2), med2) \in [1..Len(rows) -> Int]
           /\ ShopResults(offers, Len(offers), "live")
                = [m \in 1..Len(rows) |-> Rated(rows, med2)[PlaceOf(Values(Rated(rows, med2), med2), m)]]
<1> DEFINE n == Len(rows)
           rated == Rated(rows, med2)
           score == Values(rated, med2)
           sorted == SortedBy(rated, score)
<1>1. IsResultSet(rows) /\ n <= Len(offers)
  BY RowsFacts
<1>2. n \in Nat /\ DOMAIN rows = 1..n /\ Len(offers) \in Nat
  BY <1>1, ResultSetIsSeq
<1>3. med2 \in Int
  BY MarketMedianIsInt
<1>4. DOMAIN rated = 1..n /\ \A i \in 1..n : rated[i].price \in Nat
  BY <1>1, <1>2 DEF Rated, IsResultSet
<1>5. \A i \in 1..n : Value(rated[i], med2) \in Int
  <2> SUFFICES ASSUME NEW i \in 1..n PROVE Value(rated[i], med2) \in Int
    OBVIOUS
  <2> DEFINE price == rated[i].price
             penalty == Penalty(rated[i].verdict)
  <2>1. price \in Nat
    BY <1>4
  <2>2. penalty \in {0, 1, 2}
    BY DEF Penalty
  <2>3. Value(rated[i], med2) = (IF May("verdicts", rated[i].src) THEN 2 * (med2 - 2 * price) ELSE 0) - penalty * med2
    BY DEF Value
  <2> HIDE DEF rated, price, penalty
  <2> QED
    BY <1>3, <2>1, <2>2, <2>3
<1> HIDE DEF rated
<1>6. score \in [1..n -> Int]
  BY <1>4, <1>5 DEF Values
<1>7. sorted = [m \in 1..n |-> rated[PlaceOf(score, m)]]
  BY <1>4 DEF SortedBy
<1>8. ScoreOffers(offers, med2, "live") = sorted
  BY LicensedIsRows DEF ScoreOffers, rated, Rated, Values
<1>9. ShopResults(offers, Len(offers), "live") = Cut(sorted, Len(offers))
  BY <1>8 DEF ShopResults
<1> HIDE DEF score, n
<1>10. Len(sorted) = n /\ sorted \in Seq({sorted[m] : m \in 1..n})
  BY <1>2, <1>7
<1> HIDE DEF sorted
<1>11. Cut(sorted, Len(offers)) = SubSeq(sorted, 1, n)
  BY <1>1, <1>2, <1>10 DEF Cut, n
<1>12. SubSeq(sorted, 1, n) = sorted
  BY <1>2, <1>7, <1>10
<1> QED
  BY <1>6, <1>7, <1>9, <1>11, <1>12 DEF n, rated, score

\* A row that may be mixed is shown with its verdict.
LEMMA ShownWithVerdict ==
    ASSUME NEW offers, IsResultSet(offers), NEW rows, rows = Rows(offers, {"comingle"}),
           NEW i \in DOMAIN rows
    PROVE  VerdictIn(ShopResults(offers, Len(offers), "live"), rows[i].id)
              = VerdictOf(rows, rows[i], MarketMedian2(offers))
<1> DEFINE n == Len(rows)
           med2 == MarketMedian2(offers)
           rated == Rated(rows, med2)
           score == Values(rated, med2)
           all == ShopResults(offers, Len(offers), "live")
<1>1. IsResultSet(rows)
  BY RowsFacts
<1>2. n \in Nat /\ DOMAIN rows = 1..n
  BY <1>1, ResultSetIsSeq
<1>3. score \in [1..n -> Int] /\ all = [m \in 1..n |-> rated[PlaceOf(score, m)]]
  BY ShopShape
<1>4. \A k \in 1..n : rated[k].id = rows[k].id /\ rated[k].verdict = VerdictOf(rows, rows[k], med2)
  BY <1>2 DEF Rated
<1> HIDE DEF n, med2, rated, score, all
<1>5. /\ \A m \in 1..n : PlaceOf(score, m) \in 1..n
      /\ \E m \in 1..n : PlaceOf(score, m) = i
  <2>1. /\ \A m \in 1..n : PlaceOf(score, m) \in 1..n
        /\ \A k \in 1..n : \E m \in 1..n : PlaceOf(score, m) = k
    BY <1>2, <1>3, PlacesOf, Zenon
  <2>2. i \in 1..n
    BY <1>2
  <2> QED
    BY <2>1, <2>2, Zenon
<1>6. \E m \in DOMAIN all : all[m].id = rows[i].id
  <2>1. PICK m \in 1..n : PlaceOf(score, m) = i
    BY <1>5
  <2>2. m \in DOMAIN all /\ all[m] = rated[i]
    BY <1>3, <2>1
  <2> QED
    BY <1>2, <1>4, <2>2
<1>7. \A m \in DOMAIN all : all[m].id = rows[i].id => all[m].verdict = VerdictOf(rows, rows[i], med2)
  <2> SUFFICES ASSUME NEW m \in 1..n, all[m].id = rows[i].id
               PROVE  all[m].verdict = VerdictOf(rows, rows[i], med2)
    BY <1>3
  <2> DEFINE k == PlaceOf(score, m)
  <2>1. k \in 1..n /\ all[m] = rated[k]
    BY <1>3, <1>5
  <2> HIDE DEF k
  <2>2. rows[k].id = rows[i].id
    BY <1>4, <2>1
  <2>3. k = i
    BY <1>1, <1>2, <2>1, <2>2 DEF IsResultSet
  <2> QED
    BY <1>4, <2>1, <2>3
<1>8. VerdictIn(all, rows[i].id) = VerdictOf(rows, rows[i], med2)
  BY <1>6, <1>7 DEF VerdictIn
<1> QED
  BY <1>8 DEF all, med2

\* Rows without the right to be rated feed no median and no peer estimate.
LEMMA UnlicensedFeedNothing ==
    ASSUME NEW offers, IsResultSet(offers), NEW own, own = Rows(offers, {"verdicts"}), NEW o
    PROVE  /\ MarketMedian2(own) = MarketMedian2(offers)
           /\ VerdictOf(Rows(own, {"comingle"}), o, MarketMedian2(own))
                = VerdictOf(Rows(offers, {"comingle"}), o, MarketMedian2(offers))
<1>1. Licensed("verdicts", own) = own
  <2>1. {"verdicts"} \cup {"verdicts"} = {"verdicts"}
    OBVIOUS
  <2> QED
    BY <2>1, LicensedRows
<1>2. MarketMedian2(own) = MarketMedian2(offers)
  BY <1>1, LicensedIsRows DEF MarketMedian2
<1>3. Peers(Rows(offers, {"comingle"})) = Rows(offers, {"comingle", "verdicts", "embed"})
  <2>1. Licensed("verdicts", Rows(offers, {"comingle"})) = Rows(offers, {"comingle"} \cup {"verdicts"})
    BY LicensedRows
  <2>2. Licensed("embed", Rows(offers, {"comingle"} \cup {"verdicts"}))
          = Rows(offers, ({"comingle"} \cup {"verdicts"}) \cup {"embed"})
    BY LicensedRows
  <2>3. ({"comingle"} \cup {"verdicts"}) \cup {"embed"} = {"comingle", "verdicts", "embed"}
    OBVIOUS
  <2> QED
    BY <2>1, <2>2, <2>3 DEF Peers
<1>4. Peers(Rows(own, {"comingle"})) = Rows(offers, {"comingle", "verdicts", "embed"})
  <2>1. Rows(own, {"comingle"}) = Rows(offers, {"verdicts"} \cup {"comingle"})
    <3>1. Licensed("comingle", own) = Rows(own, {"comingle"})
      BY LicensedIsRows
    <3>2. Licensed("comingle", Rows(offers, {"verdicts"})) = Rows(offers, {"verdicts"} \cup {"comingle"})
      BY LicensedRows
    <3> QED
      BY <3>1, <3>2
  <2>2. Licensed("verdicts", Rows(offers, {"verdicts"} \cup {"comingle"}))
          = Rows(offers, ({"verdicts"} \cup {"comingle"}) \cup {"verdicts"})
    BY LicensedRows
  <2>3. Licensed("embed", Rows(offers, ({"verdicts"} \cup {"comingle"}) \cup {"verdicts"}))
          = Rows(offers, (({"verdicts"} \cup {"comingle"}) \cup {"verdicts"}) \cup {"embed"})
    BY LicensedRows
  <2>4. (({"verdicts"} \cup {"comingle"}) \cup {"verdicts"}) \cup {"embed"} = {"comingle", "verdicts", "embed"}
    OBVIOUS
  <2> QED
    BY <2>1, <2>2, <2>3, <2>4 DEF Peers
<1>5. Fair2(Rows(own, {"comingle"}), o) = Fair2(Rows(offers, {"comingle"}), o)
  BY <1>3, <1>4 DEF Fair2, PeerFair2
<1> QED
  BY <1>2, <1>5 DEF VerdictOf

\* The inputs are result sets for ever.
InputOK == input.what = "offers" => IsResultSet(input.offers)

LEMMA InputsAreResultSets == RatingSpec => []InputOK
<1>1. RatingInit => InputOK
  <2>1. ASSUME NEW offers \in Lists, input = [what |-> "offers", offers |-> offers] PROVE InputOK
    BY <2>1, RatingAssumption DEF InputOK
  <2>2. ASSUME NEW x \in Items, input = [what |-> "items", prices |-> x.prices, same |-> x.same]
        PROVE  InputOK
    BY <2>2 DEF InputOK
  <2> QED
    BY <2>1, <2>2 DEF RatingInit
<1>2. InputOK /\ [UNCHANGED input]_input => InputOK'
  BY DEF InputOK
<1> QED
  BY <1>1, <1>2, PTL DEF RatingSpec

\* Every signal of shop.py asks the licence first: for any result set, a row that may not
\* be rated has no verdict, one that may not be mixed is not shown, and neither moves the
\* verdict of any other row.
THEOREM LicenceAlwaysAsked == RatingSpec => []LicenceAskedFirst
<1>1. ASSUME NEW offers, IsResultSet(offers) PROVE UnlicensedMovesNothing(offers)
  <2> DEFINE rows == Rows(offers, {"comingle"})
             med2 == MarketMedian2(offers)
             rated == Rated(rows, med2)
             score == Values(rated, med2)
             all == ShopResults(offers, Len(offers), "live")
             own == Licensed("verdicts", offers)
             alone == ShopResults(own, Len(own), "live")
  <2>0. own = Rows(offers, {"verdicts"})
    BY LicensedIsRows
  <2>1. IsResultSet(rows) /\ IsResultSet(own)
    BY <1>1, <2>0, RowsFacts
  <2>2. Len(rows) \in Nat /\ DOMAIN rows = 1..Len(rows)
    BY <2>1, ResultSetIsSeq
  <2>3. score \in [1..Len(rows) -> Int] /\ all = [m \in 1..Len(rows) |-> rated[PlaceOf(score, m)]]
    BY <1>1, ShopShape
  <2>4. \A m \in 1..Len(rows) : PlaceOf(score, m) \in 1..Len(rows)
    <3> HIDE DEF score
    <3> QED
      BY <2>2, <2>3, PlacesOf
  <2>5. ASSUME NEW m \in DOMAIN all
        PROVE  May("comingle", all[m].src) /\ (all[m].verdict # "none" => May("verdicts", all[m].src))
    <3> DEFINE k == PlaceOf(score, m)
    <3>1. k \in DOMAIN rows /\ all[m] = rated[k]
      BY <2>2, <2>3, <2>4, <2>5
    <3> HIDE DEF k
    <3>2. all[m].src = rows[k].src /\ all[m].verdict = VerdictOf(rows, rows[k], med2)
      BY <3>1 DEF Rated
    <3>3. PICK x \in Rightful(offers, {"comingle"}) : rows[k] = offers[x]
      BY <1>1, <3>1, RowsFacts
    <3>4. May("comingle", rows[k].src)
      BY <3>3 DEF Rightful
    <3>5. VerdictOf(rows, rows[k], med2) # "none" => May("verdicts", rows[k].src)
      BY DEF VerdictOf
    <3> QED
      BY <3>2, <3>4, <3>5
  <2>6. ASSUME NEW i \in DOMAIN own, May("comingle", own[i].src)
        PROVE  VerdictIn(all, own[i].id) = VerdictIn(alone, own[i].id)
    <3>1. PICK x \in Rightful(offers, {"verdicts"}) : own[i] = offers[x]
      BY <1>1, <2>0, <2>6, RowsFacts
    <3>2. x \in Rightful(offers, {"comingle"})
      BY <2>6, <3>1 DEF Rightful
    <3>3. PICK m \in DOMAIN rows : rows[m] = own[i]
      BY <1>1, <3>1, <3>2, RowsFacts
    <3>4. VerdictIn(all, own[i].id) = VerdictOf(rows, own[i], med2)
      <4>1. VerdictIn(all, rows[m].id) = VerdictOf(rows, rows[m], med2)
        BY <1>1, ShownWithVerdict
      <4> QED
        BY <3>3, <4>1
    <3> HIDE DEF own
    <3>5. i \in Rightful(own, {"comingle"})
      BY <2>6 DEF Rightful
    <3>6. PICK k \in DOMAIN Rows(own, {"comingle"}) : Rows(own, {"comingle"})[k] = own[i]
      BY <2>1, <3>5, RowsFacts
    <3>7. VerdictIn(alone, own[i].id) = VerdictOf(Rows(own, {"comingle"}), own[i], MarketMedian2(own))
      <4>1. VerdictIn(alone, Rows(own, {"comingle"})[k].id)
              = VerdictOf(Rows(own, {"comingle"}), Rows(own, {"comingle"})[k], MarketMedian2(own))
        BY <2>1, ShownWithVerdict
      <4> QED
        BY <3>6, <4>1
    <3>8. VerdictOf(Rows(own, {"comingle"}), own[i], MarketMedian2(own)) = VerdictOf(rows, own[i], med2)
      BY <1>1, <2>0, UnlicensedFeedNothing
    <3> QED
      BY <3>4, <3>7, <3>8
  <2> QED
    BY <2>5, <2>6 DEF UnlicensedMovesNothing
<1>2. InputOK => LicenceAskedFirst
  BY <1>1 DEF InputOK, LicenceAskedFirst
<1> QED
  BY <1>2, InputsAreResultSets, PTL

\* A deal is worth more than nothing and a trap is not: score_offers of any result set puts
\* every deal above every trap; and check_deal calls no listing a trap that it shows as a
\* deal, where the title of the listing names its product type.
THEOREM TrapsAlwaysSink == RatingSpec => []TrapsSink
<1>1. ASSUME NEW offers, IsResultSet(offers) PROVE TrapsSinkBelowDeals(offers)
  <2> DEFINE rows == Rows(offers, {"comingle"})
             med2 == MarketMedian2(offers)
             rated == Rated(rows, med2)
             score == Values(rated, med2)
             n == Len(rows)
             all == ShopResults(offers, Len(offers), "live")
  <2>1. IsResultSet(rows)
    BY <1>1, RowsFacts
  <2>2. n \in Nat /\ DOMAIN rows = 1..n
    BY <2>1, ResultSetIsSeq
  <2>3. score \in [1..n -> Int] /\ all = [m \in 1..n |-> rated[PlaceOf(score, m)]]
    BY <1>1, ShopShape
  <2>4. \A m \in 1..n : PlaceOf(score, m) \in 1..n
    <3> HIDE DEF score, n
    <3> QED
      BY <2>2, <2>3, PlacesOf
  <2>5. med2 \in Int
    BY <1>1, MarketMedianIsInt
  <2>6. ASSUME NEW k \in 1..n
        PROVE  /\ rated[k].id = rows[k].id /\ rated[k].src = rows[k].src
               /\ rated[k].price = rows[k].price /\ rows[k].price \in Nat
               /\ rated[k].verdict = VerdictOf(rows, rows[k], med2)
               /\ score[k] = Value(rated[k], med2)
    BY <2>1, <2>2 DEF Rated, Values, IsResultSet
  <2> HIDE DEF rated, score, all, med2, n, rows
  <2>7. ASSUME NEW k \in 1..n, rated[k].verdict = "deal" PROVE score[k] > 0
    <3> DEFINE price == rows[k].price
    <3>1. /\ May("verdicts", rows[k].src)
          /\ AtLeast(DealMedian, price, med2)
      BY <2>6, <2>7 DEF VerdictOf, Badge
    <3>2. price \in Nat
      BY <2>6
    <3>3. score[k] = 2 * (med2 - 2 * price) - 0 * med2
      BY <2>6, <2>7, <3>1 DEF Value, Penalty
    <3>4. med2 > 0 /\ 100 * (med2 - 2 * price) >= 15 * med2
      BY <3>1 DEF AtLeast, DealMedian
    <3> HIDE DEF price
    <3> QED
      BY <2>5, <3>2, <3>3, <3>4
  <2>8. ASSUME NEW k \in 1..n, rated[k].verdict = "suspicious" PROVE score[k] <= 0
    <3> DEFINE price == rows[k].price
    <3>1. May("verdicts", rows[k].src)
      BY <2>6, <2>8 DEF VerdictOf
    <3>2. price \in Nat
      BY <2>6
    <3>3. score[k] = 2 * (med2 - 2 * price) - 2 * med2
      BY <2>6, <2>8, <3>1 DEF Value, Penalty
    <3> HIDE DEF price
    <3> QED
      BY <2>5, <3>2, <3>3
  <2>9. ASSUME NEW i \in DOMAIN all, NEW j \in DOMAIN all,
               all[i].verdict = "suspicious", all[j].verdict = "deal"
        PROVE  j < i
    <3>1. i \in 1..n /\ j \in 1..n
      BY <2>3
    <3>2. PlaceOf(score, i) \in 1..n /\ PlaceOf(score, j) \in 1..n
      BY <2>4, <3>1
    <3>3. all[i] = rated[PlaceOf(score, i)] /\ all[j] = rated[PlaceOf(score, j)]
      BY <2>3, <3>1
    <3>4. score[PlaceOf(score, i)] <= 0 /\ score[PlaceOf(score, j)] > 0
      BY <2>7, <2>8, <2>9, <3>2, <3>3
    <3>5. score[PlaceOf(score, i)] \in Int /\ score[PlaceOf(score, j)] \in Int
      BY <2>3, <3>2
    <3>6. score[PlaceOf(score, j)] > score[PlaceOf(score, i)]
      BY <3>4, <3>5
    <3> QED
      BY <2>2, <2>3, <3>1, <3>6, HigherFirst
  <2>10. ASSUME NEW i \in DOMAIN offers, offers[i].cat # Untyped, NEW j \in DOMAIN all,
                all[j].id = offers[i].id, all[j].verdict = "deal"
         PROVE  CheckDeal(offers[i].cat, offers[i].like, offers[i].price) # "suspicious"
    <3> DEFINE k == PlaceOf(score, j)
               o == offers[i]
    <3>1. k \in 1..n /\ all[j] = rated[k]
      BY <2>3, <2>4
    <3> HIDE DEF k
    <3>2. rows[k].id = o.id /\ VerdictOf(rows, rows[k], med2) = "deal"
      BY <2>6, <2>10, <3>1
    <3>3. PICK x \in Rightful(offers, {"comingle"}) : rows[k] = offers[x]
      BY <1>1, <2>2, <3>1, RowsFacts DEF rows
    <3>4. x = i
      BY <1>1, <3>2, <3>3 DEF IsResultSet, Rightful
    <3>5. VerdictOf(rows, o, med2) = "deal"
      BY <3>2, <3>3, <3>4
    <3>6. ~AtLeast(SuspiciousResidual, o.price, Fair2(rows, o))
      BY <3>5 DEF VerdictOf, Badge
    <3>7. o.cat \in DOMAIN ModelFair => Fair2(rows, o) = 2 * ModelFair[o.cat]
      BY DEF Fair2
    <3> QED
      BY <2>10, <3>6, <3>7 DEF CheckDeal
  <2> QED
    BY <2>9, <2>10 DEF TrapsSinkBelowDeals, all
<1>2. InputOK => TrapsSink
  BY <1>1 DEF InputOK, TrapsSink
<1> QED
  BY <1>2, InputsAreResultSets, PTL

-----------------------------------------------------------------------------
(* Loops.  A recursive function f[k] over m..n stands for a loop; what      *)
(* holds at m and is kept by each round holds at n.                         *)

\* Induction over the rounds: `good' are the rounds after which the claim holds.
LEMMA Rounds ==
    ASSUME NEW m \in Nat, NEW n \in Nat, NEW good, m \in good,
           \A k \in (m + 1)..n : k - 1 \in good => k \in good
    PROVE  m..n \subseteq good
<1> DEFINE bad == {k \in m..n : k \notin good}
<1> SUFFICES ASSUME bad # {} PROVE FALSE
  OBVIOUS
<1>1. bad \in SUBSET Nat
  OBVIOUS
<1>2. PICK k \in bad : \A l \in bad : k <= l
  <2> HIDE DEF bad
  <2> QED
    BY <1>1, LeastPlace
<1>3. k \in (m + 1)..n
  OBVIOUS
<1>4. k - 1 \in m..n /\ ~(k <= k - 1)
  BY <1>3
<1>5. k - 1 \in good
  BY <1>2, <1>4
<1> QED
  BY <1>3, <1>5

\* f gives the state after each round.
IsLoop(f, m, n, S, start, Round) ==
    /\ f \in [m..n -> S]
    /\ \A k \in m..n : f[k] = IF k = m THEN start ELSE Round[k][f[k - 1]]

\* A loop whose state starts in S and stays in S: the function that its recursive
\* definition chooses exists.
LEMMA LoopIsDefined ==
    ASSUME NEW m \in Nat, NEW n \in Nat, NEW S, NEW start \in S,
           NEW Round \in [m..n -> [S -> S]]
    PROVE  \E f : IsLoop(f, m, n, S, start, Round)
<1> DEFINE Runs(f, l) == IsLoop(f, m, l, S, start, Round)
           good == {l \in m..n : \E f : Runs(f, l)}
<1>1. CASE n < m
  <2>1. m..n = {}
    BY <1>1
  <2> DEFINE f == [k \in m..n |-> start]
  <2>2. IsLoop(f, m, n, S, start, Round)
    BY <2>1 DEF IsLoop
  <2> QED
    BY <2>2
<1>2. CASE m <= n
  <2>1. m \in good
    <3> DEFINE f == [k \in m..m |-> start]
    <3>1. Runs(f, m)
      BY DEF IsLoop
    <3> HIDE DEF f, Runs
    <3> QED
      BY <1>2, <3>1
  <2>2. ASSUME NEW k \in (m + 1)..n, k - 1 \in good PROVE k \in good
    <3>1. PICK f : Runs(f, k - 1)
      BY <2>2
    <3>2. k \in Int /\ k > m /\ k <= n /\ m..k = (m..(k - 1)) \cup {k} /\ k - 1 \in m..(k - 1)
      OBVIOUS
    <3>3. f[k - 1] \in S /\ Round[k][f[k - 1]] \in S
      BY <3>1, <3>2 DEF IsLoop
    <3> DEFINE g == [l \in m..k |-> IF l = k THEN Round[k][f[k - 1]] ELSE f[l]]
    <3>4. g \in [m..k -> S]
      BY <3>1, <3>2, <3>3 DEF IsLoop
    <3>5. ASSUME NEW l \in m..k PROVE g[l] = IF l = m THEN start ELSE Round[l][g[l - 1]]
      <4>1. CASE l = k
        BY <3>2, <4>1
      <4>2. CASE l # k
        <5>1. l \in m..(k - 1) /\ l \in Int
          BY <4>2
        <5>2. l # m => l - 1 \in m..(k - 1) /\ l - 1 \in m..k /\ l - 1 # k
          BY <5>1, <3>2
        <5>3. g[l] = f[l] /\ (l # m => g[l - 1] = f[l - 1])
          BY <4>2, <5>2
        <5>4. f[l] = IF l = m THEN start ELSE Round[l][f[l - 1]]
          BY <3>1, <5>1 DEF IsLoop
        <5> QED
          BY <5>3, <5>4
      <4> QED
        BY <4>1, <4>2
    <3> HIDE DEF g
    <3>6. Runs(g, k)
      BY <3>4, <3>5 DEF IsLoop
    <3> HIDE DEF Runs
    <3> QED
      BY <3>2, <3>6
  <2> HIDE DEF good
  <2>3. m..n \subseteq good
    BY <2>1, <2>2, Rounds
  <2>4. n \in good
    BY <1>2, <2>3
  <2> QED
    BY <2>4 DEF good
<1> QED
  BY <1>1, <1>2

-----------------------------------------------------------------------------
(* Union-find                                                              *)

\* The items with the same root.
ClusterOf(R, n, x) == {y \in 1..n : R[y] = R[x]}

\* The parents P form a forest: R gives the root of each item and d its depth, or more,
\* which stays below the size of the cluster.
Forest(P, R, d, n) ==
    /\ P \in [1..n -> 1..n] /\ R \in [1..n -> 1..n] /\ d \in [1..n -> Nat]
    /\ \A x \in 1..n :
          /\ R[P[x]] = R[x] /\ R[R[x]] = R[x]
          /\ P[x] = x <=> R[x] = x
          /\ P[x] = x => d[x] = 0
          /\ P[x] # x => d[P[x]] < d[x]
          /\ d[x] < Cardinality(ClusterOf(R, n, x))

LEMMA ClusterIsFinite ==
    ASSUME NEW n \in Nat, NEW R, NEW x
    PROVE  /\ IsFiniteSet(ClusterOf(R, n, x))
           /\ Cardinality(ClusterOf(R, n, x)) \in 0..n
<1>1. IsFiniteSet(1..n) /\ Cardinality(1..n) = n
  BY FS_Interval
<1>2. ClusterOf(R, n, x) \subseteq 1..n
  BY DEF ClusterOf
<1> QED
  BY <1>1, <1>2, FS_Subset, FS_CardinalityType

LEMMA LenOfFunction ==
    ASSUME NEW n \in Nat, NEW S, NEW P \in [1..n -> S]
    PROVE  Len(P) = n /\ P \in Seq(S)
  OBVIOUS

\* find ends at the root.
LEMMA RootIs ==
    ASSUME NEW n \in Nat, NEW P, NEW R, NEW d, Forest(P, R, d, n), NEW x \in 1..n
    PROVE  Root(P, x) = R[x]
<1>1. P \in [1..n -> 1..n] /\ R \in [1..n -> 1..n] /\ d \in [1..n -> Nat]
  BY DEF Forest
<1>2. Len(P) = n
  BY <1>1, LenOfFunction
<1> DEFINE up == CHOOSE f : f = [k \in 0..n |-> IF k = 0 THEN x ELSE P[f[k - 1]]]
<1>3. Root(P, x) = up[n]
  BY <1>2 DEF Root
<1>4. up = [k \in 0..n |-> IF k = 0 THEN x ELSE P[up[k - 1]]]
  <2> DEFINE Round == [k \in 0..n |-> P]
  <2>1. Round \in [0..n -> [1..n -> 1..n]]
    BY <1>1
  <2> HIDE DEF Round
  <2>2. PICK f : IsLoop(f, 0, n, 1..n, x, Round)
    BY <2>1, LoopIsDefined
  <2>3. \A k \in 0..n : Round[k] = P
    BY DEF Round
  <2>4. \A k \in 0..n : f[k] = IF k = 0 THEN x ELSE P[f[k - 1]]
    BY <2>2, <2>3 DEF IsLoop
  <2>5. f = [k \in 0..n |-> f[k]]
    BY <2>2 DEF IsLoop
  <2>6. f = [k \in 0..n |-> IF k = 0 THEN x ELSE P[f[k - 1]]]
    <3>1. [k \in 0..n |-> f[k]] = [k \in 0..n |-> IF k = 0 THEN x ELSE P[f[k - 1]]]
      BY <2>4
    <3> QED
      BY <2>5, <3>1
  <2> QED
    BY <2>6
<1> HIDE DEF up
<1> DEFINE good == {k \in 0..n : /\ up[k] \in 1..n /\ R[up[k]] = R[x]
                                 /\ d[up[k]] + k <= d[x] \/ P[up[k]] = up[k]}
<1>5. 0 \in good
  BY <1>1, <1>4
<1>6. ASSUME NEW k \in (0 + 1)..n, k - 1 \in good PROVE k \in good
  <2> DEFINE y == up[k - 1]
  <2>1. /\ y \in 1..n /\ R[y] = R[x]
        /\ d[y] + (k - 1) <= d[x] \/ P[y] = y
    BY <1>6
  <2>2. up[k] = P[y] /\ k \in 0..n
    BY <1>4
  <2>3. R[P[y]] = R[y] /\ (P[y] # y => d[P[y]] < d[y])
    BY <2>1 DEF Forest
  <2>4. P[y] \in 1..n /\ d[P[y]] \in Nat /\ d[y] \in Nat /\ d[x] \in Nat
    BY <1>1, <2>1
  <2> HIDE DEF y
  <2>5. d[P[y]] + k <= d[x] \/ P[P[y]] = P[y]
    BY <2>1, <2>3, <2>4
  <2> QED
    BY <2>1, <2>2, <2>3, <2>4, <2>5
<1>7. 0..n \subseteq good
  <2> HIDE DEF good
  <2> QED
    BY <1>5, <1>6, Rounds
<1>8. n \in good
  BY <1>7
<1>9. d[x] < n /\ d[up[n]] >= 0
  <2>1. d[x] < Cardinality(ClusterOf(R, n, x)) /\ Cardinality(ClusterOf(R, n, x)) \in 0..n
    BY ClusterIsFinite DEF Forest
  <2>2. d[x] \in Nat /\ d[up[n]] \in Nat
    BY <1>1, <1>8
  <2> QED
    BY <2>1, <2>2
<1>10. P[up[n]] = up[n] /\ up[n] \in 1..n /\ R[up[n]] = R[x]
  <2>1. d[x] \in Nat /\ d[up[n]] \in Nat
    BY <1>1, <1>8
  <2> QED
    BY <1>8, <1>9, <2>1
<1>11. R[up[n]] = up[n]
  BY <1>10 DEF Forest
<1> QED
  BY <1>3, <1>10, <1>11

\* The path halving of find moves an item nearer to its root and leaves the clusters
\* alone, which is why Root leaves it out.
LEMMA HalvingKeepsRoots ==
    ASSUME NEW n \in Nat, NEW P, NEW R, NEW d, Forest(P, R, d, n), NEW a \in 1..n
    PROVE  Forest([P EXCEPT ![a] = P[P[a]]], R, d, n)
<1> DEFINE P2 == [P EXCEPT ![a] = P[P[a]]]
<1>1. P \in [1..n -> 1..n] /\ R \in [1..n -> 1..n] /\ d \in [1..n -> Nat]
  BY DEF Forest
<1>2. P[a] \in 1..n /\ P[P[a]] \in 1..n
  BY <1>1
<1>3. P2 \in [1..n -> 1..n] /\ \A x \in 1..n : P2[x] = IF x = a THEN P[P[a]] ELSE P[x]
  BY <1>1, <1>2
<1> HIDE DEF P2
<1>4. ASSUME NEW x \in 1..n
      PROVE  /\ R[P2[x]] = R[x] /\ R[R[x]] = R[x]
             /\ P2[x] = x <=> R[x] = x
             /\ P2[x] = x => d[x] = 0
             /\ P2[x] # x => d[P2[x]] < d[x]
             /\ d[x] < Cardinality(ClusterOf(R, n, x))
  <2>1. \A y \in 1..n : /\ R[P[y]] = R[y] /\ R[R[y]] = R[y]
                        /\ P[y] = y <=> R[y] = y
                        /\ P[y] = y => d[y] = 0
                        /\ P[y] # y => d[P[y]] < d[y]
                        /\ d[y] < Cardinality(ClusterOf(R, n, y))
    BY DEF Forest
  <2>2. CASE x # a
    BY <1>3, <2>1, <2>2
  <2>3. CASE x = a
    <3>1. d[a] \in Nat /\ d[P[a]] \in Nat /\ d[P[P[a]]] \in Nat
      BY <1>1, <1>2
    <3>2. R[P[P[a]]] = R[a]
      BY <1>2, <2>1
    <3>3. P[a] # a => P[P[a]] # a /\ d[P[P[a]]] < d[a]
      <4>1. P[a] # a => d[P[a]] < d[a]
        BY <2>1
      <4>2. P[P[a]] # P[a] => d[P[P[a]]] < d[P[a]]
        BY <1>2, <2>1
      <4> QED
        BY <3>1, <4>1, <4>2
    <3> QED
      BY <1>3, <2>1, <2>3, <3>2, <3>3
  <2> QED
    BY <2>2, <2>3
<1>5. Forest(P2, R, d, n)
  BY <1>1, <1>3, <1>4 DEF Forest
<1> QED
  BY <1>5 DEF P2

\* The clusters of R are what some pairs join: a pair has one root, and a set of items
\* that the pairs respect holds all of a cluster or nothing of it.
Respects(pairs, C) == \A p \in pairs : p[1] \in C <=> p[2] \in C
Joins(R, n, pairs) ==
    /\ \A p \in pairs : R[p[1]] = R[p[2]]
    /\ \A C \in SUBSET (1..n) : Respects(pairs, C) =>
          \A x, y \in 1..n : R[x] = R[y] => (x \in C <=> y \in C)

Clustered(P, n, pairs) == \E R, d : Forest(P, R, d, n) /\ Joins(R, n, pairs)

\* union hangs the root of one cluster below the root of the other.
LEMMA UnionForest ==
    ASSUME NEW n \in Nat, NEW P, NEW R, NEW d, Forest(P, R, d, n),
           NEW i \in 1..n, NEW j \in 1..n, R[i] # R[j]
    PROVE  Forest(Union(P, i, j),
                  [x \in 1..n |-> IF R[x] = R[i] THEN R[j] ELSE R[x]],
                  [x \in 1..n |-> IF R[x] = R[i] THEN d[x] + 1 ELSE d[x]], n)
<1> DEFINE a == R[i]
           b == R[j]
           R2 == [x \in 1..n |-> IF R[x] = a THEN b ELSE R[x]]
           d2 == [x \in 1..n |-> IF R[x] = a THEN d[x] + 1 ELSE d[x]]
           P2 == [P EXCEPT ![a] = b]
<1>1. P \in [1..n -> 1..n] /\ R \in [1..n -> 1..n] /\ d \in [1..n -> Nat]
  BY DEF Forest
<1>2. a \in 1..n /\ b \in 1..n /\ a # b
  BY <1>1
<1>3. Union(P, i, j) = P2
  <2>1. Root(P, i) = a /\ Root(P, j) = b
    BY RootIs
  <2> QED
    BY <2>1 DEF Union
<1>4. R[a] = a /\ R[b] = b /\ P[a] = a /\ P[b] = b
  <2>1. R[R[i]] = R[i] /\ R[R[j]] = R[j]
    BY DEF Forest
  <2>2. \A x \in 1..n : R[x] = x => P[x] = x
    BY DEF Forest
  <2> QED
    BY <1>2, <2>1, <2>2
<1>5. P2 \in [1..n -> 1..n] /\ R2 \in [1..n -> 1..n] /\ d2 \in [1..n -> Nat]
  <2> HIDE DEF a, b
  <2>1. P2 \in [1..n -> 1..n]
    BY <1>1, <1>2
  <2>2. R2 \in [1..n -> 1..n]
    BY <1>1, <1>2
  <2>3. ASSUME NEW x \in 1..n PROVE (IF R[x] = a THEN d[x] + 1 ELSE d[x]) \in Nat
    <3>1. d[x] \in Nat
      BY <1>1
    <3> QED
      BY <3>1
  <2>4. d2 \in [1..n -> Nat]
    BY <2>3
  <2> QED
    BY <2>1, <2>2, <2>4
<1>6. \A x \in 1..n : /\ P2[x] = IF x = a THEN b ELSE P[x]
                      /\ R2[x] = IF R[x] = a THEN b ELSE R[x]
                      /\ d2[x] = IF R[x] = a THEN d[x] + 1 ELSE d[x]
  <2> HIDE DEF a, b
  <2> QED
    BY <1>1
<1> HIDE DEF a, b, P2, R2, d2
<1>7. ASSUME NEW x \in 1..n
      PROVE  /\ R2[P2[x]] = R2[x] /\ R2[R2[x]] = R2[x]
             /\ P2[x] = x <=> R2[x] = x
             /\ P2[x] = x => d2[x] = 0
             /\ P2[x] # x => d2[P2[x]] < d2[x]
  <2>1. /\ P[x] \in 1..n /\ R[x] \in 1..n
        /\ d[x] \in Nat /\ d[P[x]] \in Nat /\ d[a] \in Nat
    BY <1>1, <1>2
  <2>2. /\ R[P[x]] = R[x] /\ R[R[x]] = R[x]
        /\ P[x] = x <=> R[x] = x
        /\ P[x] = x => d[x] = 0
        /\ P[x] # x => d[P[x]] < d[x]
    BY DEF Forest
  <2>3. d[b] = 0
    BY <1>2, <1>4 DEF Forest
  <2>4. CASE x = a
    BY <1>2, <1>4, <1>6, <2>1, <2>3, <2>4
  <2>5. CASE x # a
    BY <1>2, <1>4, <1>6, <2>1, <2>2, <2>5
  <2> QED
    BY <2>4, <2>5
<1>8. ASSUME NEW x \in 1..n PROVE d2[x] < Cardinality(ClusterOf(R2, n, x))
  <2>1. /\ d[x] \in Nat /\ d2[x] \in Nat
        /\ d[x] < Cardinality(ClusterOf(R, n, x))
    BY <1>1, <1>5 DEF Forest
  <2>2. CASE R[x] # a /\ R[x] # b
    <3>1. ClusterOf(R2, n, x) = ClusterOf(R, n, x)
      BY <1>6, <2>2 DEF ClusterOf
    <3>2. d2[x] = d[x]
      BY <1>6, <2>2
    <3> QED
      BY <2>1, <3>1, <3>2
  <2>3. CASE R[x] = a \/ R[x] = b
    <3> DEFINE A == ClusterOf(R, n, a)
               B == ClusterOf(R, n, b)
    <3>1. ClusterOf(R2, n, x) = A \cup B
      BY <1>4, <1>6, <2>3 DEF ClusterOf
    <3>2. A \cap B = {}
      BY <1>2, <1>4 DEF ClusterOf
    <3>3. /\ IsFiniteSet(A) /\ Cardinality(A) \in Nat
          /\ IsFiniteSet(B) /\ Cardinality(B) \in Nat
      BY ClusterIsFinite
    <3>4. Cardinality(A \cup B) = Cardinality(A) + Cardinality(B)
      <4>1. Cardinality(A \cap B) = 0
        BY <3>2, FS_EmptySet
      <4>2. Cardinality(A \cup B) = Cardinality(A) + Cardinality(B) - Cardinality(A \cap B)
        <5> HIDE DEF A, B
        <5> QED
          BY <3>3, FS_Union
      <4> QED
        BY <3>3, <4>1, <4>2
    <3>5. d[b] < Cardinality(B) /\ d[a] < Cardinality(A) /\ d[a] \in Nat /\ d[b] \in Nat
      BY <1>1, <1>2 DEF Forest
    <3>6. CASE R[x] = a
      <4>1. ClusterOf(R, n, x) = A
        BY <1>4, <3>6 DEF ClusterOf
      <4>2. d2[x] = d[x] + 1
        BY <1>6, <3>6
      <4> HIDE DEF A, B
      <4> QED
        BY <2>1, <3>1, <3>3, <3>4, <3>5, <4>1, <4>2
    <3>7. CASE R[x] = b
      <4>1. ClusterOf(R, n, x) = B
        BY <1>4, <3>7 DEF ClusterOf
      <4>2. d2[x] = d[x]
        BY <1>2, <1>6, <3>7
      <4> HIDE DEF A, B
      <4> QED
        BY <2>1, <3>1, <3>3, <3>4, <3>5, <4>1, <4>2
    <3> QED
      BY <2>3, <3>6, <3>7
  <2> QED
    BY <2>2, <2>3
<1>9. Forest(P2, R2, d2, n)
  BY <1>5, <1>7, <1>8 DEF Forest
<1> QED
  BY <1>3, <1>9 DEF a, b, R2, d2

LEMMA UnionClusters ==
    ASSUME NEW n \in Nat, NEW P, NEW pairs \in SUBSET ((1..n) \X (1..n)),
           Clustered(P, n, pairs), NEW i \in 1..n, NEW j \in 1..n
    PROVE  Clustered(Union(P, i, j), n, pairs \cup {<<i, j>>})
<1> DEFINE more == pairs \cup {<<i, j>>}
<1>1. PICK R, d : Forest(P, R, d, n) /\ Joins(R, n, pairs)
  BY DEF Clustered
<1>2. P \in [1..n -> 1..n] /\ R \in [1..n -> 1..n]
  BY <1>1 DEF Forest
<1>3. ASSUME NEW C, Respects(more, C) PROVE Respects(pairs, C) /\ (i \in C <=> j \in C)
  <2>1. \A p \in more : p[1] \in C <=> p[2] \in C
    BY <1>3 DEF Respects
  <2>2. pairs \subseteq more /\ <<i, j>> \in more
    OBVIOUS
  <2>3. <<i, j>>[1] \in C <=> <<i, j>>[2] \in C
    BY <2>1, <2>2
  <2> HIDE DEF more
  <2>4. Respects(pairs, C)
    BY <2>1, <2>2 DEF Respects
  <2> QED
    BY <2>3, <2>4
<1>4. CASE R[i] = R[j]
  <2>1. Union(P, i, j) = P
    <3>1. Root(P, i) = R[i] /\ Root(P, j) = R[i]
      BY <1>1, <1>4, RootIs
    <3>2. P[R[i]] = R[i] /\ R[i] \in 1..n
      BY <1>1, <1>2 DEF Forest
    <3> QED
      BY <1>2, <3>1, <3>2 DEF Union
  <2>2. Joins(R, n, more)
    <3>1. \A p \in more : R[p[1]] = R[p[2]]
      BY <1>1, <1>4 DEF Joins
    <3> HIDE DEF more
    <3> QED
      BY <1>1, <1>3, <3>1 DEF Joins
  <2> HIDE DEF more
  <2>3. Clustered(P, n, more)
    BY <1>1, <2>2 DEF Clustered
  <2> QED
    BY <2>1, <2>3 DEF more
<1>5. CASE R[i] # R[j]
  <2> DEFINE R2 == [x \in 1..n |-> IF R[x] = R[i] THEN R[j] ELSE R[x]]
             d2 == [x \in 1..n |-> IF R[x] = R[i] THEN d[x] + 1 ELSE d[x]]
  <2>1. Forest(Union(P, i, j), R2, d2, n)
    BY <1>1, <1>5, UnionForest
  <2>2. \A x \in 1..n : R2[x] = IF R[x] = R[i] THEN R[j] ELSE R[x]
    OBVIOUS
  <2> HIDE DEF R2, d2
  <2>3. ASSUME NEW p \in more PROVE R2[p[1]] = R2[p[2]]
    <3>1. CASE p \in pairs
      <4>1. p[1] \in 1..n /\ p[2] \in 1..n
        BY <3>1
      <4>2. R[p[1]] = R[p[2]]
        BY <1>1, <3>1 DEF Joins
      <4> QED
        BY <2>2, <4>1, <4>2
    <3>2. CASE p = <<i, j>>
      <4>1. p[1] = i /\ p[2] = j
        BY <3>2
      <4> QED
        BY <2>2, <4>1
    <3> QED
      BY <3>1, <3>2
  <2>4. ASSUME NEW C \in SUBSET (1..n), Respects(more, C),
               NEW x \in 1..n, NEW y \in 1..n, R2[x] = R2[y]
        PROVE  x \in C <=> y \in C
    <3>1. \A u, v \in 1..n : R[u] = R[v] => (u \in C <=> v \in C)
      BY <1>1, <1>3, <2>4 DEF Joins
    <3>2. i \in C <=> j \in C
      BY <1>3, <2>4
    <3> QED
      BY <2>2, <2>4, <3>1, <3>2
  <2>5. Joins(R2, n, more)
    <3> HIDE DEF more
    <3> QED
      BY <2>3, <2>4 DEF Joins
  <2> HIDE DEF more
  <2>6. Clustered(Union(P, i, j), n, more)
    BY <2>1, <2>5 DEF Clustered
  <2> QED
    BY <2>6 DEF more
<1> QED
  BY <1>4, <1>5

Forests(n) == {P \in [1..n -> 1..n] : \E R, d : Forest(P, R, d, n)}

\* Before any union each item is its own root.
LEMMA StartClusters ==
    ASSUME NEW n \in Nat
    PROVE  Clustered([x \in 1..n |-> x], n, {})
<1> DEFINE R == [x \in 1..n |-> x]
           d == [x \in 1..n |-> 0]
<1>1. ASSUME NEW x \in 1..n PROVE d[x] < Cardinality(ClusterOf(R, n, x))
  <2>1. ClusterOf(R, n, x) = {x}
    BY DEF ClusterOf
  <2>2. Cardinality({x}) = 1
    BY FS_Singleton
  <2>3. d[x] = 0
    OBVIOUS
  <2> HIDE DEF R, d
  <2> QED
    BY <2>1, <2>2, <2>3
<1>2. Forest(R, R, d, n)
  <2>1. \A x \in 1..n : R[x] = x /\ d[x] = 0
    OBVIOUS
  <2>2. R \in [1..n -> 1..n] /\ d \in [1..n -> Nat]
    OBVIOUS
  <2> HIDE DEF R, d
  <2> QED
    BY <1>1, <2>1, <2>2 DEF Forest
<1>3. Joins(R, n, {})
  BY DEF Joins
<1> HIDE DEF R, d
<1>4. Clustered(R, n, {})
  BY <1>2, <1>3 DEF Clustered
<1> QED
  BY <1>4 DEF R

LEMMA UnionIsForest ==
    ASSUME NEW n \in Nat, NEW P \in Forests(n), NEW i \in 1..n, NEW j \in 1..n
    PROVE  Union(P, i, j) \in Forests(n)
<1>1. PICK R, d : Forest(P, R, d, n)
  BY DEF Forests
<1>2. CASE R[i] = R[j]
  <2>1. Root(P, i) = R[i] /\ Root(P, j) = R[i]
    BY <1>1, <1>2, RootIs
  <2>2. P[R[i]] = R[i] /\ R[i] \in 1..n
    BY <1>1 DEF Forest
  <2>3. Union(P, i, j) = P
    BY <2>1, <2>2 DEF Union, Forests
  <2> QED
    BY <2>3
<1>3. CASE R[i] # R[j]
  <2> DEFINE R2 == [x \in 1..n |-> IF R[x] = R[i] THEN R[j] ELSE R[x]]
             d2 == [x \in 1..n |-> IF R[x] = R[i] THEN d[x] + 1 ELSE d[x]]
  <2>1. Forest(Union(P, i, j), R2, d2, n)
    BY <1>1, <1>3, UnionForest
  <2> HIDE DEF R2, d2
  <2> QED
    BY <2>1 DEF Forests, Forest
<1> QED
  BY <1>2, <1>3

\* The pairs that match, up to item i and its partner j.
Seen(same, i, j) == {p \in same : p[1] < i \/ (p[1] = i /\ p[2] <= j)}

\* f gives the parents after each round of the inner loop of item i.
InnerLoop(f, P, n, i, same) ==
    /\ f \in [i..n -> Forests(n)]
    /\ f[i] = P
    /\ \A j \in (i + 1)..n :
          f[j] = IF <<i, j>> \in same THEN Union(f[j - 1], i, j) ELSE f[j - 1]

LEMMA JoinedRounds ==
    ASSUME NEW n \in Nat, NEW same, NEW i \in 1..n, NEW P \in Forests(n)
    PROVE  \E f : InnerLoop(f, P, n, i, same) /\ Joined(P, i, same) = f[n]
<1>2. Len(P) = n
  BY LenOfFunction DEF Forests
<1> DEFINE f == CHOOSE h : h = [j \in i..n |-> IF j = i THEN P
                                ELSE IF <<i, j>> \in same THEN Union(h[j - 1], i, j) ELSE h[j - 1]]
<1>3. Joined(P, i, same) = f[n]
  BY <1>2 DEF Joined
<1>4. f = [j \in i..n |-> IF j = i THEN P
                          ELSE IF <<i, j>> \in same THEN Union(f[j - 1], i, j) ELSE f[j - 1]]
  <2> DEFINE step(Q, j) == IF <<i, j>> \in same THEN Union(Q, i, j) ELSE Q
             Round == [j \in i..n |-> [Q \in Forests(n) |-> step(Q, j)]]
  <2>1. ASSUME NEW j \in i..n, NEW Q \in Forests(n) PROVE step(Q, j) \in Forests(n)
    <3>1. j \in 1..n
      OBVIOUS
    <3> QED
      BY <3>1, UnionIsForest
  <2>2. Round \in [i..n -> [Forests(n) -> Forests(n)]]
    <3> HIDE DEF step
    <3> QED
      BY <2>1
  <2>3. \A j \in i..n : \A Q \in Forests(n) : Round[j][Q] = step(Q, j)
    OBVIOUS
  <2> HIDE DEF Round
  <2>4. PICK h : IsLoop(h, i, n, Forests(n), P, Round)
    <3>1. i \in Nat
      OBVIOUS
    <3> QED
      BY <2>2, <3>1, LoopIsDefined
  <2>5. ASSUME NEW j \in i..n PROVE h[j] = IF j = i THEN P ELSE step(h[j - 1], j)
    <3>1. j # i => j - 1 \in i..n
      OBVIOUS
    <3>2. j # i => h[j - 1] \in Forests(n)
      BY <2>4, <3>1 DEF IsLoop
    <3>3. h[j] = IF j = i THEN P ELSE Round[j][h[j - 1]]
      BY <2>4 DEF IsLoop
    <3> HIDE DEF step
    <3> QED
      BY <2>3, <3>2, <3>3
  <2>6. h = [j \in i..n |-> h[j]]
    BY <2>4 DEF IsLoop
  <2>7. h = [j \in i..n |-> IF j = i THEN P ELSE step(h[j - 1], j)]
    <3> HIDE DEF step
    <3>1. [j \in i..n |-> h[j]] = [j \in i..n |-> IF j = i THEN P ELSE step(h[j - 1], j)]
      BY <2>5
    <3> QED
      BY <2>6, <3>1
  <2> QED
    BY <2>7
<1> HIDE DEF f
<1>5. /\ f[i] = P
      /\ \A j \in (i + 1)..n :
            f[j] = IF <<i, j>> \in same THEN Union(f[j - 1], i, j) ELSE f[j - 1]
  BY <1>4
<1> DEFINE good == {j \in i..n : f[j] \in Forests(n)}
<1>6. i \in good
  BY <1>5
<1>7. ASSUME NEW j \in (i + 1)..n, j - 1 \in good PROVE j \in good
  <2>1. j \in i..n /\ j # i /\ j \in 1..n /\ f[j - 1] \in Forests(n)
    BY <1>7
  <2>2. Union(f[j - 1], i, j) \in Forests(n)
    BY <2>1, UnionIsForest
  <2> QED
    BY <1>5, <2>1, <2>2
<1>8. i..n \subseteq good
  <2> HIDE DEF good
  <2> QED
    BY <1>6, <1>7, Rounds
<1>9. f \in [i..n -> Forests(n)]
  <2>1. f = [j \in i..n |-> f[j]]
    BY <1>4
  <2> QED
    BY <1>8, <2>1
<1>10. InnerLoop(f, P, n, i, same)
  BY <1>5, <1>9 DEF InnerLoop
<1> QED
  BY <1>3, <1>10

\* The inner loop unites what the pairs of item i join.
LEMMA JoinedClusters ==
    ASSUME NEW n \in Nat, NEW same \in SUBSET {p \in (1..n) \X (1..n) : p[1] < p[2]},
           NEW i \in 1..n, NEW P, Clustered(P, n, Seen(same, i, i))
    PROVE  Clustered(Joined(P, i, same), n, Seen(same, i, n))
<1>1. P \in Forests(n)
  BY DEF Clustered, Forest, Forests
<1>2. PICK f : InnerLoop(f, P, n, i, same) /\ Joined(P, i, same) = f[n]
  BY <1>1, JoinedRounds
<1> DEFINE good == {j \in i..n : Clustered(f[j], n, Seen(same, i, j))}
<1>5. i \in good
  <2>1. i \in i..n /\ f[i] = P
    BY <1>2 DEF InnerLoop
  <2> QED
    BY <2>1
<1>6. ASSUME NEW j \in (i + 1)..n, j - 1 \in good PROVE j \in good
  <2>1. j \in i..n /\ j # i /\ j \in 1..n
    OBVIOUS
  <2>2. f[j] = IF <<i, j>> \in same THEN Union(f[j - 1], i, j) ELSE f[j - 1]
    BY <1>2 DEF InnerLoop
  <2>3. Clustered(f[j - 1], n, Seen(same, i, j - 1))
    BY <1>6
  <2>4. Seen(same, i, j - 1) \in SUBSET ((1..n) \X (1..n))
    BY DEF Seen
  <2>5. CASE <<i, j>> \in same
    <3>1. Seen(same, i, j) = Seen(same, i, j - 1) \cup {<<i, j>>}
      <4>1. ASSUME NEW p \in same
            PROVE  p \in Seen(same, i, j) <=> p \in Seen(same, i, j - 1) \/ p = <<i, j>>
        <5>1. p = <<p[1], p[2]>> /\ p[1] \in Int /\ p[2] \in Int
          OBVIOUS
        <5>2. p = <<i, j>> <=> p[1] = i /\ p[2] = j
          BY <5>1
        <5>3. p[2] <= j <=> p[2] <= j - 1 \/ p[2] = j
          BY <5>1
        <5> QED
          BY <5>1, <5>2, <5>3 DEF Seen
      <4>2. Seen(same, i, j) \subseteq same /\ Seen(same, i, j - 1) \subseteq same
        BY DEF Seen
      <4> QED
        BY <2>5, <4>1, <4>2
    <3>2. Clustered(Union(f[j - 1], i, j), n, Seen(same, i, j - 1) \cup {<<i, j>>})
      BY <2>1, <2>3, <2>4, UnionClusters
    <3> QED
      BY <2>1, <2>2, <2>5, <3>1, <3>2
  <2>6. CASE <<i, j>> \notin same
    <3>1. Seen(same, i, j) = Seen(same, i, j - 1)
      <4>1. ASSUME NEW p \in same
            PROVE  p \in Seen(same, i, j) <=> p \in Seen(same, i, j - 1)
        <5>1. p = <<p[1], p[2]>> /\ p[1] \in Int /\ p[2] \in Int
          OBVIOUS
        <5>2. ~(p[1] = i /\ p[2] = j)
          BY <2>6, <5>1
        <5>3. p[2] <= j <=> p[2] <= j - 1 \/ p[2] = j
          BY <5>1
        <5> QED
          BY <5>1, <5>2, <5>3 DEF Seen
      <4>2. Seen(same, i, j) \subseteq same /\ Seen(same, i, j - 1) \subseteq same
        BY DEF Seen
      <4> QED
        BY <4>1, <4>2
    <3> QED
      BY <2>1, <2>2, <2>3, <2>6, <3>1
  <2> QED
    BY <2>5, <2>6
<1>7. n \in good
  <2> HIDE DEF good
  <2>1. i..n \subseteq good
    BY <1>5, <1>6, Rounds
  <2> QED
    BY <2>1
<1> QED
  BY <1>2, <1>7

\* Both loops unite what all the pairs join.
LEMMA ParentsCluster ==
    ASSUME NEW n \in Nat, NEW same \in SUBSET {p \in (1..n) \X (1..n) : p[1] < p[2]}
    PROVE  Clustered(Parents(n, same), n, same)
<1> DEFINE start == [x \in 1..n |-> x]
           f == CHOOSE h : h = [i \in 0..n |-> IF i = 0 THEN start ELSE Joined(h[i - 1], i, same)]
<1>1. Parents(n, same) = f[n]
  BY DEF Parents
<1>2. Seen(same, 0, n) = {}
  BY DEF Seen
<1>3. Clustered(start, n, Seen(same, 0, n))
  BY <1>2, StartClusters
<1>4. ASSUME NEW i \in 1..n PROVE Seen(same, i, i) = Seen(same, i - 1, n)
  <2>1. ASSUME NEW p \in same PROVE p \in Seen(same, i, i) <=> p \in Seen(same, i - 1, n)
    <3>1. p[1] \in Int /\ p[2] \in Int /\ p[1] < p[2] /\ p[2] <= n
      OBVIOUS
    <3> QED
      BY <3>1 DEF Seen
  <2>2. Seen(same, i, i) \subseteq same /\ Seen(same, i - 1, n) \subseteq same
    BY DEF Seen
  <2> QED
    BY <2>1, <2>2
<1> HIDE DEF start
<1>5. ASSUME NEW i \in 1..n, NEW Q, Clustered(Q, n, Seen(same, i - 1, n))
      PROVE  Clustered(Joined(Q, i, same), n, Seen(same, i, n))
  BY <1>4, <1>5, JoinedClusters
<1>6. f = [i \in 0..n |-> IF i = 0 THEN start ELSE Joined(f[i - 1], i, same)]
  <2> DEFINE Round == [i \in 0..n |-> [Q \in Forests(n) |-> IF i = 0 THEN Q ELSE Joined(Q, i, same)]]
  <2>1. ASSUME NEW i \in 1..n, NEW Q \in Forests(n) PROVE Joined(Q, i, same) \in Forests(n)
    <3>1. PICK f2 : InnerLoop(f2, Q, n, i, same) /\ Joined(Q, i, same) = f2[n]
      BY JoinedRounds
    <3>2. n \in i..n
      OBVIOUS
    <3> QED
      BY <3>1, <3>2 DEF InnerLoop
  <2>2. Round \in [0..n -> [Forests(n) -> Forests(n)]]
    <3>1. \A i \in 0..n : i # 0 => i \in 1..n
      OBVIOUS
    <3> QED
      BY <2>1, <3>1
  <2>3. \A i \in 0..n : \A Q \in Forests(n) : i # 0 => Round[i][Q] = Joined(Q, i, same)
    OBVIOUS
  <2> HIDE DEF Round
  <2>4. PICK h : IsLoop(h, 0, n, Forests(n), start, Round)
    <3>1. start \in Forests(n)
      BY <1>3 DEF Clustered, Forest, Forests
    <3> QED
      BY <2>2, <3>1, LoopIsDefined
  <2>5. ASSUME NEW i \in 0..n PROVE h[i] = IF i = 0 THEN start ELSE Joined(h[i - 1], i, same)
    <3>1. i # 0 => i - 1 \in 0..n
      OBVIOUS
    <3>2. i # 0 => h[i - 1] \in Forests(n)
      BY <2>4, <3>1 DEF IsLoop
    <3>3. h[i] = IF i = 0 THEN start ELSE Round[i][h[i - 1]]
      BY <2>4 DEF IsLoop
    <3> QED
      BY <2>3, <3>2, <3>3
  <2>6. h = [i \in 0..n |-> h[i]]
    BY <2>4 DEF IsLoop
  <2>7. h = [i \in 0..n |-> IF i = 0 THEN start ELSE Joined(h[i - 1], i, same)]
    <3>1. [i \in 0..n |-> h[i]] = [i \in 0..n |-> IF i = 0 THEN start ELSE Joined(h[i - 1], i, same)]
      BY <2>5
    <3> QED
      BY <2>6, <3>1
  <2> QED
    BY <2>7
<1> HIDE DEF f
<1> DEFINE good == {i \in 0..n : Clustered(f[i], n, Seen(same, i, n))}
<1>7. 0 \in good
  BY <1>3, <1>6
<1>8. ASSUME NEW i \in (0 + 1)..n, i - 1 \in good PROVE i \in good
  <2>1. i \in 0..n /\ i # 0 /\ i \in 1..n
    OBVIOUS
  <2>2. f[i] = Joined(f[i - 1], i, same)
    BY <1>6, <2>1
  <2>3. Clustered(f[i - 1], n, Seen(same, i - 1, n))
    BY <1>8
  <2> QED
    BY <1>5, <2>1, <2>2, <2>3
<1>9. n \in good
  <2> HIDE DEF good
  <2>1. 0..n \subseteq good
    BY <1>7, <1>8, Rounds
  <2> QED
    BY <2>1
<1>10. Seen(same, n, n) = same
  <2>1. \A p \in same : p \in Seen(same, n, n)
    <3>1. \A p \in same : p[1] \in Int /\ p[2] \in Int /\ p[1] <= n /\ p[2] <= n
      OBVIOUS
    <3>2. \A p \in same : p[1] < n \/ (p[1] = n /\ p[2] <= n)
      BY <3>1
    <3> QED
      BY <3>2 DEF Seen
  <2>2. Seen(same, n, n) \subseteq same
    BY DEF Seen
  <2> QED
    BY <2>1, <2>2
<1> QED
  BY <1>1, <1>9, <1>10

\* What dedup_by_embedding keeps, for any items.
LEMMA KeepsCheapest ==
    ASSUME NEW prices \in Seq(Nat),
           NEW same \in SUBSET {p \in (DOMAIN prices) \X (DOMAIN prices) : p[1] < p[2]}
    PROVE  DedupKeepsCheapest(prices, same)
<1> DEFINE n == Len(prices)
           P == Parents(n, same)
           respected(C) == \A p \in same : p[1] \in C <=> p[2] \in C
           product(i) == {j \in 1..n : \A C \in SUBSET (1..n) : respected(C) => (i \in C <=> j \in C)}
           cluster(i) == {j \in 1..n : Root(P, j) = Root(P, i)}
           before(i, j) == prices[i] < prices[j] \/ (prices[i] = prices[j] /\ i <= j)
           kept == DedupByEmbedding(prices, same)
<1>1. n \in Nat /\ DOMAIN prices = 1..n /\ \A i \in 1..n : prices[i] \in Nat
  OBVIOUS
<1>2. same \in SUBSET {p \in (1..n) \X (1..n) : p[1] < p[2]}
  BY <1>1
<1> HIDE DEF n
<1>3. PICK R, d : Forest(P, R, d, n) /\ Joins(R, n, same)
  BY <1>1, <1>2, ParentsCluster DEF Clustered
<1>4. \A i \in 1..n : cluster(i) = {j \in 1..n : R[j] = R[i]}
  <2>1. \A i \in 1..n : Root(P, i) = R[i]
    BY <1>1, <1>3, RootIs
  <2> QED
    BY <2>1
<1>5. kept = {i \in 1..n : \A j \in cluster(i) : before(i, j)}
  BY DEF DedupByEmbedding, n
<1> HIDE DEF P, kept, cluster
<1>6. ASSUME NEW i \in 1..n PROVE product(i) = cluster(i)
  <2>1. ASSUME NEW j \in product(i) PROVE R[j] = R[i]
    <3> DEFINE C == {x \in 1..n : R[x] = R[i]}
    <3>1. respected(C)
      <4>1. ASSUME NEW p \in same PROVE p[1] \in C <=> p[2] \in C
        <5>1. p[1] \in 1..n /\ p[2] \in 1..n
          BY <1>2
        <5>2. R[p[1]] = R[p[2]]
          BY <1>3 DEF Joins
        <5> QED
          BY <5>1, <5>2
      <4> QED
        BY <4>1
    <3>2. i \in C /\ C \in SUBSET (1..n)
      OBVIOUS
    <3>3. j \in C
      <4> HIDE DEF C, respected
      <4> QED
        BY <2>1, <3>1, <3>2
    <3> QED
      BY <3>3
  <2>2. ASSUME NEW j \in 1..n, R[j] = R[i], NEW C \in SUBSET (1..n), respected(C)
        PROVE  i \in C <=> j \in C
    <3>1. Respects(same, C)
      BY <2>2 DEF Respects
    <3> QED
      BY <1>3, <2>2, <3>1 DEF Joins
  <2>3. product(i) = {j \in 1..n : R[j] = R[i]}
    <3> HIDE DEF respected
    <3> QED
      BY <2>1, <2>2
  <2> QED
    BY <1>4, <2>3
<1> HIDE DEF product
<1>7. ASSUME NEW i \in 1..n
      PROVE  \E k \in kept : kept \cap cluster(i) = {k} /\ \A j \in cluster(i) : prices[k] <= prices[j]
  <2> DEFINE C == cluster(i)
             T == {prices[j] : j \in C}
  <2>1. i \in C /\ C \subseteq 1..n
    BY <1>4
  <2>2. \A k \in C : cluster(k) = C
    BY <1>4
  <2> HIDE DEF C
  <2>3. PICK least \in T : \A x \in T : least <= x
    <3>1. T \in SUBSET Nat /\ T # {}
      BY <1>1, <2>1
    <3> HIDE DEF T
    <3> QED
      BY <3>1, LeastPlace
  <2> DEFINE firsts == {j \in C : prices[j] = least}
  <2>4. PICK k \in firsts : \A j \in firsts : k <= j
    <3>1. firsts \in SUBSET Nat
      <4>1. firsts \subseteq C
        OBVIOUS
      <4>2. 1..n \subseteq Nat
        BY <1>1
      <4> HIDE DEF firsts
      <4> QED
        BY <2>1, <4>1, <4>2
    <3>2. firsts # {}
      BY <2>3
    <3> HIDE DEF firsts
    <3> QED
      BY <3>1, <3>2, LeastPlace
  <2>5. k \in C /\ k \in 1..n /\ \A j \in C : prices[k] <= prices[j]
    BY <2>1, <2>3, <2>4
  <2>6. ASSUME NEW j \in C PROVE before(k, j)
    <3>1. prices[k] \in Nat /\ prices[j] \in Nat /\ prices[k] <= prices[j]
      BY <1>1, <2>1, <2>5
    <3>2. prices[j] = prices[k] => k <= j
      BY <2>4
    <3> QED
      BY <3>1, <3>2
  <2>7. k \in kept
    BY <1>5, <2>2, <2>5, <2>6
  <2>8. ASSUME NEW m \in kept, m \in C PROVE m = k
    <3>1. before(m, k) /\ before(k, m)
      BY <1>5, <2>2, <2>5, <2>6, <2>8
    <3>2. prices[k] \in Nat /\ prices[m] \in Nat /\ k \in Nat /\ m \in Nat
      BY <1>1, <2>1, <2>5, <2>8
    <3> QED
      BY <3>1, <3>2
  <2>9. kept \cap C = {k}
    BY <2>5, <2>7, <2>8
  <2> QED
    BY <2>5, <2>7, <2>9 DEF C
<1>8. \A i \in 1..n : \E k \in kept : /\ kept \cap product(i) = {k}
                                      /\ \A j \in product(i) : prices[k] <= prices[j]
  BY <1>6, <1>7
<1> QED
  BY <1>8 DEF DedupKeepsCheapest, product, kept, n

ItemsOK == input.what = "items" => IsItemList(input)

LEMMA InputsAreItemLists == RatingSpec => []ItemsOK
<1>1. RatingInit => ItemsOK
  BY RatingAssumption DEF RatingInit, ItemsOK, IsItemList
<1>2. ItemsOK /\ [UNCHANGED input]_input => ItemsOK'
  BY DEF ItemsOK, IsItemList
<1> QED
  BY <1>1, <1>2, PTL DEF RatingSpec

\* OneOfferPerProduct: union-find groups the items that chains of matching pairs join, in
\* whatever order the two loops meet the pairs, and each group keeps its cheapest item.
THEOREM OneOfferKept == RatingSpec => []OneOfferPerProduct
<1>1. ItemsOK => OneOfferPerProduct
  BY KeepsCheapest DEF ItemsOK, IsItemList, OneOfferPerProduct
<1> QED
  BY <1>1, InputsAreItemLists, PTL

-----------------------------------------------------------------------------
(* The context window                                                      *)

\* What pack_deals holds after each item.
PackingRounds(f, n, budget) ==
    /\ f[0] = [used |-> 0, included |-> << >>]
    /\ \A i \in 1..n :
          f[i] = IF HasRoom(f[i - 1].used, Tokens[items[i]], budget)
                 THEN [used |-> f[i - 1].used + Tokens[items[i]],
                       included |-> Append(f[i - 1].included, items[i])]
                 ELSE f[i - 1]

LEMMA PackingIs ==
    ASSUME NEW n \in Nat, items \in [1..n -> Listings], NEW budget
    PROVE  PackingRounds(Packing(budget), n, budget)
<1>1. Len(items) = n
  BY LenOfFunction
<1> DEFINE S == [used : Nat, included : Seq(Listings)]
           start == [used |-> 0, included |-> << >>]
           step(last, i) == IF HasRoom(last.used, Tokens[items[i]], budget)
                            THEN [used |-> last.used + Tokens[items[i]],
                                  included |-> Append(last.included, items[i])]
                            ELSE last
           f == CHOOSE h : h = [i \in 0..n |-> IF i = 0 THEN start ELSE step(h[i - 1], i)]
<1>2. Packing(budget) = f
  BY <1>1 DEF Packing
<1>3. f = [i \in 0..n |-> IF i = 0 THEN start ELSE step(f[i - 1], i)]
  <2> DEFINE Round == [i \in 0..n |-> [x \in S |-> IF i = 0 THEN x ELSE step(x, i)]]
  <2>1. ASSUME NEW i \in 1..n, NEW x \in S PROVE step(x, i) \in S
    <3>1. items[i] \in Listings /\ Tokens[items[i]] \in Nat
      BY AgentsAssumption
    <3> QED
      BY <3>1
  <2> HIDE DEF S, step, start
  <2>2. Round \in [0..n -> [S -> S]]
    <3>1. \A i \in 0..n : i # 0 => i \in 1..n
      OBVIOUS
    <3> QED
      BY <2>1, <3>1
  <2>3. \A i \in 0..n : \A x \in S : i # 0 => Round[i][x] = step(x, i)
    OBVIOUS
  <2> HIDE DEF Round
  <2>4. PICK h : IsLoop(h, 0, n, S, start, Round)
    <3>1. start \in S
      BY DEF start, S
    <3> QED
      BY <2>2, <3>1, LoopIsDefined
  <2>5. ASSUME NEW i \in 0..n PROVE h[i] = IF i = 0 THEN start ELSE step(h[i - 1], i)
    <3>1. i # 0 => i - 1 \in 0..n
      OBVIOUS
    <3>2. i # 0 => h[i - 1] \in S
      BY <2>4, <3>1 DEF IsLoop
    <3>3. h[i] = IF i = 0 THEN start ELSE Round[i][h[i - 1]]
      BY <2>4 DEF IsLoop
    <3> QED
      BY <2>3, <3>2, <3>3
  <2>6. h = [i \in 0..n |-> h[i]]
    BY <2>4 DEF IsLoop
  <2>7. h = [i \in 0..n |-> IF i = 0 THEN start ELSE step(h[i - 1], i)]
    <3>1. [i \in 0..n |-> h[i]] = [i \in 0..n |-> IF i = 0 THEN start ELSE step(h[i - 1], i)]
      BY <2>5
    <3> QED
      BY <2>6, <3>1
  <2> QED
    BY <2>7
<1> HIDE DEF f
<1>4. f[0] = start
  BY <1>3
<1>5. ASSUME NEW i \in 1..n PROVE f[i] = step(f[i - 1], i)
  <2> HIDE DEF step, start
  <2> QED
    BY <1>3
<1> QED
  BY <1>2, <1>4, <1>5 DEF PackingRounds

\* The tokens of the items up to i that are in S.
SumRounds(f, n, S) ==
    /\ f[0] = 0
    /\ \A i \in 1..n : f[i] = f[i - 1] + (IF items[i] \in S THEN Tokens[items[i]] ELSE 0)

LEMMA TokensOfIs ==
    ASSUME NEW n \in Nat, items \in [1..n -> Listings], NEW S
    PROVE  \E f \in [0..n -> Nat] : SumRounds(f, n, S) /\ TokensOf(S) = f[n]
<1>1. Len(items) = n
  BY LenOfFunction
<1> DEFINE cost(i) == IF items[i] \in S THEN Tokens[items[i]] ELSE 0
           f == CHOOSE h : h = [i \in 0..n |-> IF i = 0 THEN 0 ELSE h[i - 1] + cost(i)]
<1>2. TokensOf(S) = f[n]
  BY <1>1 DEF TokensOf
<1>3. ASSUME NEW i \in 1..n PROVE cost(i) \in Nat
  <2>1. items[i] \in Listings /\ Tokens[items[i]] \in Nat
    BY AgentsAssumption
  <2> QED
    BY <2>1
<1> HIDE DEF cost
<1>4. f = [i \in 0..n |-> IF i = 0 THEN 0 ELSE f[i - 1] + cost(i)]
  <2> DEFINE Round == [i \in 0..n |-> [x \in Nat |-> IF i = 0 THEN x ELSE x + cost(i)]]
  <2>1. ASSUME NEW i \in 0..n, NEW x \in Nat
        PROVE  (IF i = 0 THEN x ELSE x + cost(i)) \in Nat
    <3>1. i # 0 => i \in 1..n
      OBVIOUS
    <3> QED
      BY <1>3, <3>1
  <2>2. Round \in [0..n -> [Nat -> Nat]]
    BY <2>1
  <2>3. \A i \in 0..n : \A x \in Nat : i # 0 => Round[i][x] = x + cost(i)
    OBVIOUS
  <2> HIDE DEF Round
  <2>4. PICK h : IsLoop(h, 0, n, Nat, 0, Round)
    BY <2>2, LoopIsDefined
  <2>5. ASSUME NEW i \in 0..n PROVE h[i] = IF i = 0 THEN 0 ELSE h[i - 1] + cost(i)
    <3>1. i # 0 => i - 1 \in 0..n
      OBVIOUS
    <3>2. i # 0 => h[i - 1] \in Nat
      BY <2>4, <3>1 DEF IsLoop
    <3>3. h[i] = IF i = 0 THEN 0 ELSE Round[i][h[i - 1]]
      BY <2>4 DEF IsLoop
    <3> QED
      BY <2>3, <3>2, <3>3
  <2>6. h = [i \in 0..n |-> h[i]]
    BY <2>4 DEF IsLoop
  <2>7. h = [i \in 0..n |-> IF i = 0 THEN 0 ELSE h[i - 1] + cost(i)]
    <3>1. [i \in 0..n |-> h[i]] = [i \in 0..n |-> IF i = 0 THEN 0 ELSE h[i - 1] + cost(i)]
      BY <2>5
    <3> QED
      BY <2>6, <3>1
  <2> QED
    BY <2>7
<1> HIDE DEF f
<1>5. f[0] = 0
  BY <1>4
<1>6. ASSUME NEW i \in 1..n PROVE f[i] = f[i - 1] + cost(i)
  BY <1>4
<1> DEFINE good == {i \in 0..n : f[i] \in Nat}
<1>7. 0 \in good
  BY <1>5
<1>8. ASSUME NEW i \in (0 + 1)..n, i - 1 \in good PROVE i \in good
  <2>1. i \in 0..n /\ i \in 1..n /\ f[i - 1] \in Nat /\ cost(i) \in Nat
    BY <1>3, <1>8
  <2>2. f[i] = f[i - 1] + cost(i)
    BY <1>6, <2>1
  <2> QED
    BY <2>1, <2>2
<1>9. 0..n \subseteq good
  <2> HIDE DEF good
  <2> QED
    BY <1>7, <1>8, Rounds
<1>10. f \in [0..n -> Nat]
  <2>1. f = [i \in 0..n |-> f[i]]
    BY <1>4
  <2> QED
    BY <1>9, <2>1
<1>11. SumRounds(f, n, S)
  BY <1>5, <1>6 DEF SumRounds, cost
<1> QED
  BY <1>2, <1>10, <1>11

\* inc lists the items at the taken places up to i, in order: g gives their places.
ListsPlaces(inc, i, taken) ==
    \E g \in [1..Len(inc) -> 1..i] :
       /\ \A a \in 1..Len(inc) : g[a] \in taken /\ inc[a] = items[g[a]]
       /\ \A a, b \in 1..Len(inc) : a < b => g[a] < g[b]
       /\ \A p \in taken : p <= i => \E a \in 1..Len(inc) : g[a] = p

\* The places whose items still fitted.
Taken(n, budget) == {i \in 1..n : HasRoom(Packing(budget)[i - 1].used, Tokens[items[i]], budget)}

LEMMA PackingKeeps ==
    ASSUME NEW n \in Nat, items \in [1..n -> Listings], NEW budget \in Nat, NEW i \in 0..n
    PROVE  /\ Packing(budget)[i].used \in 0..budget
           /\ Packing(budget)[i].included \in Seq(Listings)
           /\ ListsPlaces(Packing(budget)[i].included, i, Taken(n, budget))
<1> DEFINE f == Packing(budget)
           taken == Taken(n, budget)
<1>1. PackingRounds(f, n, budget)
  BY PackingIs
<1>2. \A k \in 1..n : k \in taken <=> HasRoom(f[k - 1].used, Tokens[items[k]], budget)
  BY DEF Taken
<1>3. taken \subseteq 1..n
  BY DEF Taken
<1> HIDE DEF f, taken
<1> DEFINE good == {k \in 0..n : /\ f[k].used \in 0..budget /\ f[k].included \in Seq(Listings)
                                 /\ ListsPlaces(f[k].included, k, taken)}
<1>4. 0 \in good
  <2>1. f[0].used = 0 /\ f[0].included = << >>
    BY <1>1 DEF PackingRounds
  <2> DEFINE none == << >>
  <2>2. none \in Seq(Listings) /\ Len(none) = 0
    OBVIOUS
  <2> HIDE DEF none
  <2>3. ListsPlaces(none, 0, taken)
    <3> DEFINE g == [a \in 1..0 |-> 0]
    <3>1. g \in [1..Len(none) -> 1..0]
      BY <2>2
    <3>2. \A p \in taken : ~(p <= 0)
      BY <1>3
    <3>3. \A a \in 1..Len(none) : FALSE
      BY <2>2
    <3> HIDE DEF g
    <3> QED
      BY <3>1, <3>2, <3>3 DEF ListsPlaces
  <2>4. f[0].included = none /\ 0 \in 0..budget /\ 0 \in 0..n
    BY <2>1 DEF none
  <2> QED
    BY <2>1, <2>2, <2>3, <2>4
<1>5. ASSUME NEW k \in (0 + 1)..n, k - 1 \in good PROVE k \in good
  <2> DEFINE last == f[k - 1]
             inc == last.included
             cost == Tokens[items[k]]
  <2>1. /\ k \in 1..n /\ k \in 0..n
        /\ last.used \in 0..budget /\ inc \in Seq(Listings) /\ ListsPlaces(inc, k - 1, taken)
    BY <1>5
  <2>2. cost \in Nat /\ items[k] \in Listings
    BY <2>1, AgentsAssumption
  <2>3. f[k] = IF HasRoom(last.used, cost, budget)
               THEN [used |-> last.used + cost, included |-> Append(inc, items[k])]
               ELSE last
    BY <1>1, <2>1 DEF PackingRounds
  <2>4. PICK g \in [1..Len(inc) -> 1..(k - 1)] :
           /\ \A a \in 1..Len(inc) : g[a] \in taken /\ inc[a] = items[g[a]]
           /\ \A a, b \in 1..Len(inc) : a < b => g[a] < g[b]
           /\ \A p \in taken : p <= k - 1 => \E a \in 1..Len(inc) : g[a] = p
    BY <2>1 DEF ListsPlaces
  <2>5. k \in taken <=> HasRoom(last.used, cost, budget)
    BY <1>2, <2>1
  <2> HIDE DEF last, inc, cost
  <2>6. Len(inc) \in Nat
    BY <2>1
  <2>7. CASE HasRoom(last.used, cost, budget)
    <3> DEFINE L == Len(inc)
               more == Append(inc, items[k])
               g2 == [a \in 1..(L + 1) |-> IF a = L + 1 THEN k ELSE g[a]]
    <3>1. f[k].used = last.used + cost /\ f[k].included = more
      BY <2>3, <2>7
    <3>2. last.used + cost \in 0..budget
      BY <2>1, <2>2, <2>7 DEF HasRoom
    <3>3. /\ more \in Seq(Listings) /\ Len(more) = L + 1
          /\ more[L + 1] = items[k] /\ \A a \in 1..L : more[a] = inc[a]
      BY <2>1, <2>2
    <3>4. \A a \in 1..(L + 1) : a = L + 1 \/ a \in 1..L
      BY <2>6
    <3>5. \A a \in 1..L : g[a] \in 1..(k - 1) /\ g[a] \in 1..k /\ g[a] < k
      BY <2>1
    <3>6. L + 1 \in 1..(L + 1) /\ \A a \in 1..L : a \in 1..(L + 1) /\ a # L + 1
      BY <2>6
    <3> HIDE DEF more, L
    <3>7. g2[L + 1] = k /\ \A a \in 1..L : g2[a] = g[a]
      BY <3>6
    <3>8. g2 \in [1..(L + 1) -> 1..k]
      BY <2>1, <3>4, <3>5
    <3> HIDE DEF g2
    <3>9. \A a \in 1..(L + 1) : g2[a] \in taken /\ more[a] = items[g2[a]]
      BY <2>4, <2>5, <2>7, <3>3, <3>4, <3>7 DEF L
    <3>10. ASSUME NEW a \in 1..(L + 1), NEW b \in 1..(L + 1), a < b PROVE g2[a] < g2[b]
      <4>1. a \in 1..L
        BY <2>6, <3>10 DEF L
      <4>2. CASE b = L + 1
        BY <3>5, <3>7, <4>1, <4>2
      <4>3. CASE b \in 1..L
        BY <2>4, <3>7, <3>10, <4>1, <4>3 DEF L
      <4> QED
        BY <3>4, <4>2, <4>3
    <3>11. ASSUME NEW p \in taken, p <= k PROVE \E a \in 1..(L + 1) : g2[a] = p
      <4>1. CASE p = k
        BY <3>6, <3>7, <4>1
      <4>2. CASE p # k
        <5>1. p <= k - 1
          BY <1>3, <2>1, <3>11, <4>2
        <5>2. PICK a \in 1..L : g[a] = p
          BY <2>4, <5>1 DEF L
        <5> QED
          BY <3>6, <3>7, <5>2
      <4> QED
        BY <4>1, <4>2
    <3>12. ListsPlaces(more, k, taken)
      <4>1. Len(more) = L + 1
        BY <3>3
      <4>2. /\ g2 \in [1..Len(more) -> 1..k]
            /\ \A a \in 1..Len(more) : g2[a] \in taken /\ more[a] = items[g2[a]]
            /\ \A a, b \in 1..Len(more) : a < b => g2[a] < g2[b]
            /\ \A p \in taken : p <= k => \E a \in 1..Len(more) : g2[a] = p
        BY <3>8, <3>9, <3>10, <3>11, <4>1
      <4> QED
        BY <4>2, Zenon DEF ListsPlaces
    <3> QED
      BY <2>1, <3>1, <3>2, <3>3, <3>12
  <2>8. CASE ~HasRoom(last.used, cost, budget)
    <3>1. f[k] = last
      BY <2>3, <2>8
    <3>2. \A p \in taken : p <= k => p <= k - 1
      BY <1>3, <2>1, <2>5, <2>8
    <3>3. g \in [1..Len(inc) -> 1..k]
      BY <2>1
    <3>4. ListsPlaces(inc, k, taken)
      BY <2>4, <3>2, <3>3 DEF ListsPlaces
    <3> QED
      BY <2>1, <3>1, <3>4 DEF inc
  <2> QED
    BY <2>7, <2>8
<1>6. i \in good
  <2> HIDE DEF good
  <2>1. 0..n \subseteq good
    BY <1>4, <1>5, Rounds
  <2> QED
    BY <2>1
<1> QED
  BY <1>6 DEF f, taken

\* The listings that are packed are those at the taken places, in the order of the items.
LEMMA PackedPlaces ==
    ASSUME NEW n \in Nat, items \in [1..n -> Listings], IsInjective(items), NEW budget \in Nat
    PROVE  LET packed == PackDeals(budget) IN
           /\ packed \in Seq(Listings)
           /\ \A i \in 1..n : items[i] \in ToSet(packed) <=> i \in Taken(n, budget)
           /\ ToSet(packed) \subseteq Found
           /\ \A a, b \in 1..Len(packed) : packed[a] = packed[b] => a = b
           /\ \A i, j \in 1..n : i < j /\ {items[i], items[j]} \subseteq ToSet(packed) =>
                 \E a, b \in 1..Len(packed) : a < b /\ packed[a] = items[i] /\ packed[b] = items[j]
<1> DEFINE packed == PackDeals(budget)
           L == Len(packed)
<1>1. Len(items) = n /\ DOMAIN items = 1..n
  BY LenOfFunction
<1>2. n \in 0..n
  OBVIOUS
<1>3. packed = Packing(budget)[n].included
  BY <1>1 DEF PackDeals
<1>4. packed \in Seq(Listings) /\ ListsPlaces(packed, n, Taken(n, budget))
  BY <1>2, <1>3, PackingKeeps
<1> HIDE DEF packed
<1>5. L \in Nat /\ DOMAIN packed = 1..L
  BY <1>4
<1> HIDE DEF L
<1>6. PICK g \in [1..L -> 1..n] :
         /\ \A a \in 1..L : g[a] \in Taken(n, budget) /\ packed[a] = items[g[a]]
         /\ \A a, b \in 1..L : a < b => g[a] < g[b]
         /\ \A p \in Taken(n, budget) : p <= n => \E a \in 1..L : g[a] = p
  BY <1>4 DEF ListsPlaces, L
<1>7. ToSet(packed) = {packed[a] : a \in 1..L}
  BY <1>5 DEF ToSet
<1>8. \A i, j \in 1..n : items[i] = items[j] => i = j
  BY <1>1 DEF IsInjective
<1>9. ASSUME NEW i \in 1..n PROVE items[i] \in ToSet(packed) <=> i \in Taken(n, budget)
  <2>1. ASSUME items[i] \in ToSet(packed) PROVE i \in Taken(n, budget)
    <3>1. PICK a \in 1..L : packed[a] = items[i]
      BY <1>7, <2>1
    <3>2. items[g[a]] = items[i] /\ g[a] \in 1..n
      BY <1>6, <3>1
    <3> QED
      BY <1>6, <1>8, <3>2
  <2>2. ASSUME i \in Taken(n, budget) PROVE items[i] \in ToSet(packed)
    <3>1. PICK a \in 1..L : g[a] = i
      BY <1>6, <2>2
    <3> QED
      BY <1>6, <1>7, <3>1
  <2> QED
    BY <2>1, <2>2
<1>10. ToSet(packed) \subseteq Found
  <2>1. Found = {items[i] : i \in 1..n}
    BY <1>1 DEF Found, ToSet
  <2> QED
    BY <1>6, <1>7, <2>1
<1>11. ASSUME NEW a \in 1..L, NEW b \in 1..L, packed[a] = packed[b] PROVE a = b
  <2>1. g[a] = g[b]
    BY <1>6, <1>8, <1>11
  <2>2. g[a] \in Int /\ a \in Int /\ b \in Int
    BY <1>6
  <2>3. ~(a < b) /\ ~(b < a)
    BY <1>6, <2>1, <2>2
  <2> QED
    BY <2>2, <2>3
<1>12. ASSUME NEW i \in 1..n, NEW j \in 1..n, i < j, {items[i], items[j]} \subseteq ToSet(packed)
       PROVE  \E a, b \in 1..L : a < b /\ packed[a] = items[i] /\ packed[b] = items[j]
  <2>1. PICK a \in 1..L : g[a] = i
    BY <1>6, <1>9, <1>12
  <2>2. PICK b \in 1..L : g[b] = j
    BY <1>6, <1>9, <1>12
  <2>3. a < b
    <3>1. a \in Int /\ b \in Int /\ g[a] < g[b] /\ g[a] \in Int /\ g[b] \in Int
      BY <1>12, <2>1, <2>2
    <3>2. b < a => g[b] < g[a]
      BY <1>6
    <3>3. b = a => g[b] = g[a]
      OBVIOUS
    <3> QED
      BY <3>1, <3>2, <3>3
  <2> QED
    BY <1>6, <2>1, <2>2, <2>3
<1> QED
  BY <1>4, <1>9, <1>10, <1>11, <1>12 DEF packed, L

\* Of the first k items, those in S are those that were packed.
PackedUpTo(n, budget, S, k) == \A i \in 1..k : items[i] \in S <=> i \in Taken(n, budget)

\* Two sets with the same listings among the first k items count the same up to there.
LEMMA SumsAgree ==
    ASSUME NEW n \in Nat, items \in [1..n -> Listings], NEW S, NEW h \in [0..n -> Nat],
           SumRounds(h, n, S), NEW budget \in Nat, NEW k \in 0..n,
           PackedUpTo(n, budget, S, k)
    PROVE  h[k] = Packing(budget)[k].used
<1> DEFINE f == Packing(budget)
<1>1. PackingRounds(f, n, budget)
  BY PackingIs
<1>2. \A i \in 1..n : i \in Taken(n, budget) <=> HasRoom(f[i - 1].used, Tokens[items[i]], budget)
  BY DEF Taken
<1>3. \A i \in 0..n : f[i].used \in Nat
  <2>1. \A i \in 0..n : f[i].used \in 0..budget
    BY PackingKeeps
  <2> QED
    BY <2>1
<1> HIDE DEF f
<1> DEFINE good == {i \in 0..k : h[i] = f[i].used}
<1>4. 0 \in good
  BY <1>1 DEF SumRounds, PackingRounds
<1>5. ASSUME NEW i \in (0 + 1)..k, i - 1 \in good PROVE i \in good
  <2>1. i \in 1..n /\ i \in 1..k /\ i \in 0..k /\ i - 1 \in 0..n /\ h[i - 1] = f[i - 1].used
    BY <1>5
  <2>2. Tokens[items[i]] \in Nat
    BY <2>1, AgentsAssumption
  <2>3. h[i] = h[i - 1] + (IF items[i] \in S THEN Tokens[items[i]] ELSE 0)
    BY <2>1 DEF SumRounds
  <2>4. f[i].used = IF i \in Taken(n, budget) THEN f[i - 1].used + Tokens[items[i]] ELSE f[i - 1].used
    <3> DEFINE room == HasRoom(f[i - 1].used, Tokens[items[i]], budget)
               more == [used |-> f[i - 1].used + Tokens[items[i]],
                        included |-> Append(f[i - 1].included, items[i])]
    <3>1. f[i] = IF room THEN more ELSE f[i - 1]
      BY <1>1, <2>1 DEF PackingRounds
    <3>2. i \in Taken(n, budget) <=> room
      BY <1>2, <2>1
    <3>3. more.used = f[i - 1].used + Tokens[items[i]]
      OBVIOUS
    <3> HIDE DEF room, more
    <3> QED
      BY <3>1, <3>2, <3>3
  <2>5. items[i] \in S <=> i \in Taken(n, budget)
    BY <2>1 DEF PackedUpTo
  <2>6. f[i - 1].used \in Nat
    BY <1>3, <2>1
  <2>7. h[i] = f[i].used
    BY <2>1, <2>2, <2>3, <2>4, <2>5, <2>6
  <2> QED
    BY <2>1, <2>7
<1>6. k \in good
  <2> HIDE DEF good
  <2>1. 0..k \subseteq good
    <3>1. k \in Nat
      OBVIOUS
    <3> QED
      BY <1>4, <1>5, <3>1, Rounds
  <2> QED
    BY <2>1
<1> QED
  BY <1>6 DEF f

\* More items count no less.
LEMMA SumsGrow ==
    ASSUME NEW n \in Nat, items \in [1..n -> Listings], NEW S, NEW h \in [0..n -> Nat],
           SumRounds(h, n, S), NEW k \in 0..n
    PROVE  h[k] <= h[n]
<1> DEFINE good == {i \in k..n : h[k] <= h[i]}
<1>1. k \in good
  <2>1. k \in k..n /\ h[k] \in Nat
    OBVIOUS
  <2> QED
    BY <2>1
<1>2. ASSUME NEW i \in (k + 1)..n, i - 1 \in good PROVE i \in good
  <2>1. i \in 1..n /\ i \in k..n /\ i - 1 \in 0..n /\ h[k] <= h[i - 1]
    BY <1>2
  <2>2. Tokens[items[i]] \in Nat /\ h[i - 1] \in Nat /\ h[k] \in Nat
    BY <2>1, AgentsAssumption
  <2>3. h[i] = h[i - 1] + (IF items[i] \in S THEN Tokens[items[i]] ELSE 0)
    BY <2>1 DEF SumRounds
  <2>4. h[k] <= h[i]
    BY <2>1, <2>2, <2>3
  <2> QED
    BY <2>1, <2>4
<1>3. k..n \subseteq good
  <2> HIDE DEF good
  <2>1. k \in Nat
    OBVIOUS
  <2> QED
    BY <1>1, <1>2, <2>1, Rounds
<1>4. n \in k..n
  OBVIOUS
<1> QED
  BY <1>3, <1>4

\* How far a place of a window of L is from its nearer edge.
EdgeAt(L, i) == IF i - 1 < L - i THEN i - 1 ELSE L - i

\* lost_in_the_middle puts the listing of rank a at distance (a - 1) \div 2 from an edge.
LEMMA EdgeOfRank ==
    ASSUME NEW L \in Nat, NEW s, DOMAIN s = 1..L, Len(s) = L,
           \A a, b \in 1..L : s[a] = s[b] => a = b, NEW a \in 1..L
    PROVE  LET window == LostInTheMiddle(s) IN
           /\ Len(window) = L
           /\ EdgeAt(L, IndexIn(window, s[a])) = (a - 1) \div 2
<1> DEFINE half == (L + 1) \div 2
           from(i) == IF i <= half THEN 2 * i - 1 ELSE 2 * (L - i + 1)
           window == LostInTheMiddle(s)
           to == IF a % 2 = 1 THEN (a + 1) \div 2 ELSE L - a \div 2 + 1
<1>1. window = [i \in 1..L |-> s[from(i)]]
  BY DEF LostInTheMiddle
<1>2. DOMAIN window = 1..L /\ Len(window) = L /\ \A i \in 1..L : window[i] = s[from(i)]
  <2> HIDE DEF from, window
  <2> QED
    BY <1>1
<1>3. \A i \in 1..L : from(i) \in 1..L
  OBVIOUS
<1>4. to \in 1..L /\ from(to) = a
  OBVIOUS
<1>5. \A i \in 1..L : from(i) = a => i = to
  OBVIOUS
<1>6. EdgeAt(L, to) = (a - 1) \div 2
  BY DEF EdgeAt
<1> HIDE DEF from, to, window
<1>7. \A i \in 1..L : window[i] = s[a] <=> i = to
  BY <1>2, <1>3, <1>4, <1>5
<1>8. IndexIn(window, s[a]) = to
  BY <1>2, <1>4, <1>7 DEF IndexIn
<1> QED
  BY <1>2, <1>6, <1>8 DEF window

\* A packed window, for any items.
LEMMA WindowIsBest ==
    ASSUME NEW n \in Nat, items \in [1..n -> Listings], IsInjective(items)
    PROVE  WindowHoldsBest
<1> SUFFICES ASSUME NEW budget \in Budgets
             PROVE  LET packed == PackDeals(budget)
                        window == LostInTheMiddle(packed)
                        edge(l) == LET i == IndexIn(window, l) IN
                                   IF i - 1 < Len(window) - i THEN i - 1 ELSE Len(window) - i
                    IN /\ ToSet(packed) \subseteq Found /\ Fits(ToSet(packed), budget)
                       /\ \A S \in SUBSET Found : S # ToSet(packed) /\ Fits(S, budget) =>
                            \E i \in DOMAIN items :
                                /\ items[i] \in ToSet(packed) \ S
                                /\ \A j \in 1..(i - 1) : items[j] \in S <=> items[j] \in ToSet(packed)
                       /\ \A i, j \in DOMAIN items :
                            i < j /\ {items[i], items[j]} \subseteq ToSet(packed)
                              => edge(items[i]) <= edge(items[j])
  BY DEF WindowHoldsBest
<1> DEFINE packed == PackDeals(budget)
           window == LostInTheMiddle(packed)
           edge(l) == LET i == IndexIn(window, l) IN
                      IF i - 1 < Len(window) - i THEN i - 1 ELSE Len(window) - i
           P == ToSet(packed)
           f == Packing(budget)
<1>b. budget \in Nat
  BY AgentsAssumption
<1>1. DOMAIN items = 1..n /\ Found = {items[i] : i \in 1..n}
  BY DEF Found, ToSet
<1>2. /\ packed \in Seq(Listings)
      /\ \A i \in 1..n : items[i] \in P <=> i \in Taken(n, budget)
      /\ P \subseteq Found
      /\ \A a, b \in 1..Len(packed) : packed[a] = packed[b] => a = b
      /\ \A i, j \in 1..n : i < j /\ {items[i], items[j]} \subseteq P =>
            \E a, b \in 1..Len(packed) : a < b /\ packed[a] = items[i] /\ packed[b] = items[j]
  BY <1>b, PackedPlaces
<1>3. \A i \in 0..n : f[i].used \in 0..budget
  BY <1>b, PackingKeeps
<1>4. \A i \in 1..n : i \in Taken(n, budget) <=> HasRoom(f[i - 1].used, Tokens[items[i]], budget)
  BY DEF Taken
<1> HIDE DEF f, packed
<1>5. Fits(P, budget)
  <2>1. PICK h \in [0..n -> Nat] : SumRounds(h, n, P) /\ TokensOf(P) = h[n]
    BY TokensOfIs
  <2>2. n \in 0..n /\ PackedUpTo(n, budget, P, n)
    BY <1>2 DEF PackedUpTo
  <2> HIDE DEF P
  <2>3. h[n] = Packing(budget)[n].used
    BY <1>b, <2>1, <2>2, SumsAgree
  <2>4. f[n].used <= budget
    BY <1>b, <1>3, <2>2
  <2>5. TokensOf(P) = f[n].used
    BY <2>1, <2>3, Zenon DEF f
  <2> QED
    BY <2>4, <2>5 DEF Fits
<1>6. ASSUME NEW S \in SUBSET Found, S # P, Fits(S, budget)
      PROVE  \E i \in 1..n : /\ items[i] \in P \ S
                             /\ \A j \in 1..(i - 1) : items[j] \in S <=> items[j] \in P
  <2> DEFINE differ == {i \in 1..n : ~(items[i] \in S <=> items[i] \in P)}
  <2>1. differ \in SUBSET Nat /\ differ # {}
    <3>1. differ \in SUBSET Nat
      OBVIOUS
    <3>2. ASSUME differ = {} PROVE FALSE
      <4>1. \A i \in 1..n : items[i] \in S <=> items[i] \in P
        BY <3>2
      <4>2. \A l \in Found : l \in S <=> l \in P
        BY <1>1, <4>1
      <4> HIDE DEF P
      <4>3. S = P
        BY <1>2, <4>2
      <4> QED
        BY <1>6, <4>3
    <3> QED
      BY <3>1, <3>2
  <2>2. PICK i \in differ : \A j \in differ : i <= j
    <3> HIDE DEF differ
    <3> QED
      BY <2>1, LeastPlace
  <2>3. i \in 1..n /\ ~(items[i] \in S <=> items[i] \in P) /\ i - 1 \in 0..n /\ i \in 0..n
    OBVIOUS
  <2>4. ASSUME NEW j \in 1..(i - 1) PROVE items[j] \in S <=> items[j] \in P
    <3>1. j \in 1..n /\ ~(i <= j)
      BY <2>3
    <3> QED
      BY <2>2, <3>1
  <2>5. CASE items[i] \in P
    BY <2>3, <2>4, <2>5
  <2>6. CASE items[i] \notin P
    <3>1. items[i] \in S /\ i \notin Taken(n, budget)
      BY <1>2, <2>3, <2>6
    <3>2. PICK h \in [0..n -> Nat] : SumRounds(h, n, S) /\ TokensOf(S) = h[n]
      BY TokensOfIs
    <3>3. \A j \in 1..(i - 1) : items[j] \in S <=> j \in Taken(n, budget)
      <4>1. \A j \in 1..(i - 1) : j \in 1..n
        BY <2>3
      <4> QED
        BY <1>2, <2>4, <4>1
    <3>4. h[i - 1] = f[i - 1].used
      <4> DEFINE k == i - 1
      <4>1. k \in 0..n /\ PackedUpTo(n, budget, S, k)
        BY <2>3, <3>3 DEF PackedUpTo
      <4> HIDE DEF k, differ, P
      <4>2. h[k] = Packing(budget)[k].used
        BY <1>b, <3>2, <4>1, SumsAgree
      <4> QED
        BY <4>2, Zenon DEF k, f
    <3>5. h[i] = h[i - 1] + Tokens[items[i]]
      BY <2>3, <3>1, <3>2 DEF SumRounds
    <3>6. ~(f[i - 1].used + Tokens[items[i]] <= budget)
      BY <1>4, <2>3, <3>1 DEF HasRoom
    <3>7. h[i] <= h[n] /\ h[n] <= budget
      <4>1. h[i] <= h[n]
        BY <2>3, <3>2, SumsGrow
      <4> QED
        BY <1>6, <3>2, <4>1 DEF Fits
    <3>8. h[i] \in Nat /\ h[n] \in Nat
      BY <2>3
    <3> QED
      BY <1>b, <3>4, <3>5, <3>6, <3>7, <3>8
  <2> QED
    BY <2>5, <2>6
<1>7. ASSUME NEW i \in 1..n, NEW j \in 1..n, i < j, {items[i], items[j]} \subseteq P
      PROVE  edge(items[i]) <= edge(items[j])
  <2> DEFINE L == Len(packed)
  <2>1. PICK a \in 1..L, b \in 1..L : a < b /\ packed[a] = items[i] /\ packed[b] = items[j]
    BY <1>2, <1>7
  <2>2. L \in Nat /\ DOMAIN packed = 1..L /\ Len(packed) = L
    BY <1>2
  <2>3. \A x, y \in 1..L : packed[x] = packed[y] => x = y
    BY <1>2
  <2> HIDE DEF L
  <2>4. Len(window) = L
    BY <2>1, <2>2, <2>3, EdgeOfRank
  <2>5. EdgeAt(L, IndexIn(window, packed[a])) = (a - 1) \div 2
    BY <2>2, <2>3, EdgeOfRank
  <2>6. EdgeAt(L, IndexIn(window, packed[b])) = (b - 1) \div 2
    BY <2>2, <2>3, EdgeOfRank
  <2>7. \A l : edge(l) = EdgeAt(L, IndexIn(window, l))
    BY <2>4 DEF EdgeAt
  <2> HIDE DEF window, edge
  <2>8. (a - 1) \div 2 <= (b - 1) \div 2
    BY <2>1
  <2> QED
    BY <2>1, <2>5, <2>6, <2>7, <2>8
<1> QED
  BY <1>1, <1>2, <1>5, <1>6, <1>7 DEF packed

\* context.py packs the best window there is: whatever is retrieved and whatever the lines
\* cost, no other set of retrieved listings within the budget is better by rank, and the
\* stronger pick is never the one further from an edge.
THEOREM WindowAlwaysBest == Spec => []WindowHoldsBest
<1>1. SessionInv => WindowHoldsBest
  <2> SUFFICES ASSUME SessionInv PROVE WindowHoldsBest
    OBVIOUS
  <2>1. PICK n \in Nat : items \in [1..n -> Listings] /\ IsInjective(items)
    BY DEF SessionInv, LoopInv, SessionTyped, ItemLists, Enumerates
  <2> QED
    BY <2>1, WindowIsBest
<1> QED
  BY <1>1, SessionInvariance, PTL

=============================================================================
