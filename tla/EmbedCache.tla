----------------------------- MODULE EmbedCache -----------------------------
(***************************************************************************)
(* dealfinder/embed.py: the embedding model, which all threads share and    *)
(* which the first to need it builds, and embed_texts_cached, whose cache   *)
(* is read and written in two critical sections with the embedding between  *)
(* them.                                                                    *)
(*                                                                         *)
(* A vector is a function of its text, so an entry is its text and the time *)
(* it was stored with.  The order of use only decides which entry goes when *)
(* the cache is full: any that the order could choose may go.               *)
(***************************************************************************)
EXTENDS Integers, FiniteSets

CONSTANTS
    Embedders,  \* threads, the warm-up thread of serve.py among them
    Batches,    \* the sets of texts that are embedded together
    EmbedTTL,   \* EMBED_CACHE_TTL_S, in ticks
    EmbedMax,   \* _EMBED_CACHE_MAX
    NoThread,
    Horizon     \* bound: ticks of the clock

ASSUME EmbedAssumption ==
    /\ NoThread \notin Embedders
    /\ EmbedTTL \in Nat /\ EmbedMax \in Nat /\ Horizon \in Nat
    /\ \A texts \in Batches : IsFiniteSet(texts)

VARIABLES
    model,      \* _model is not None
    modelLock,  \* _model_lock
    built,      \* history: how often TextEmbedding was constructed
    vectors,    \* _embed_cache: text -> time
    clock,      \* time.monotonic
    job         \* thread -> [pc, texts, now, found], and the answer it gives

embedVars == <<model, modelLock, built, vectors, clock, job>>

NoJob == [pc |-> "rest", texts |-> {}, now |-> 0, found |-> {}]
Ended == {"rest", "warm", "answered"}

Goes(t, to) == job' = [job EXCEPT ![t].pc = to]

Missing(t) == job[t].texts \ job[t].found

-----------------------------------------------------------------------------
EmbedInit ==
    /\ model = FALSE /\ modelLock = NoThread /\ built = 0
    /\ vectors = << >> /\ clock = 0
    /\ job = [t \in Embedders |-> NoJob]

\* embed_texts_cached: the clock is read before anything else
Embed(t, texts) ==
    /\ job[t].pc \in Ended
    /\ job' = [job EXCEPT ![t] = [NoJob EXCEPT !.pc = "find", !.texts = texts, !.now = clock]]
    /\ UNCHANGED <<model, modelLock, built, vectors, clock>>

\* warm, from the thread that _warm_embed_model starts; and dedup, which asks for the
\* model and embeds without the cache
Warm(t) ==
    /\ job[t].pc \in Ended
    /\ job' = [job EXCEPT ![t] = [NoJob EXCEPT !.pc = "model"]]
    /\ UNCHANGED <<model, modelLock, built, vectors, clock>>

\* The first critical section.
Find(t) ==
    LET hits == {x \in job[t].texts \cap DOMAIN vectors : job[t].now - vectors[x] < EmbedTTL} IN
    /\ job[t].pc = "find"
    /\ job' = [job EXCEPT ![t].found = hits,
                          ![t].pc = IF job[t].texts \subseteq hits THEN "answered" ELSE "model"]
    /\ UNCHANGED <<model, modelLock, built, vectors, clock>>

\* _get_model: the test without the lock
TestModel(t) ==
    /\ job[t].pc = "model"
    /\ Goes(t, IF model THEN "run" ELSE "lock")
    /\ UNCHANGED <<model, modelLock, built, vectors, clock>>

LockModel(t) ==
    /\ job[t].pc = "lock" /\ modelLock = NoThread
    /\ modelLock' = t
    /\ Goes(t, "retest")
    /\ UNCHANGED <<model, built, vectors, clock>>

\* Mutant of Constructs: no second test under the lock.
ConstructsAlways == TRUE

\* "double-checked: only the first thread constructs"
Constructs == ~model

\* The test under the lock, which is left when there is a model
Retest(t) ==
    /\ job[t].pc = "retest"
    /\ \/ Constructs /\ Goes(t, "construct") /\ UNCHANGED modelLock
       \/ ~Constructs /\ Goes(t, "run") /\ modelLock' = NoThread
    /\ UNCHANGED <<model, built, vectors, clock>>

\* _model = TextEmbedding(...), which reads or downloads the weights
Construct(t) ==
    /\ job[t].pc = "construct"
    /\ model' = TRUE /\ built' = built + 1
    /\ modelLock' = NoThread
    /\ Goes(t, "run")
    /\ UNCHANGED <<vectors, clock>>

\* The constructor raises: the lock is left and the next caller tries again.
ConstructFails(t) ==
    /\ job[t].pc = "construct"
    /\ modelLock' = NoThread
    /\ job' = [job EXCEPT ![t] = NoJob]
    /\ UNCHANGED <<model, built, vectors, clock>>

\* What stays when the cache is full: the new entries go in last, so an old one
\* stays only if all of the new ones do.
Stays(old, new, keep) ==
    /\ keep \subseteq old \cup new
    /\ Cardinality(keep) = IF Cardinality(old \cup new) <= EmbedMax
                           THEN Cardinality(old \cup new) ELSE EmbedMax
    /\ new \subseteq keep \/ keep \subseteq new

\* model.embed(texts), and the second critical section with the time of the call.
\* warm has no texts and only wanted the model.
Store(t) ==
    /\ job[t].pc = "run"
    /\ \/ /\ Missing(t) = {}
          /\ Goes(t, "warm")
          /\ UNCHANGED vectors
       \/ /\ Missing(t) # {}
          /\ \E keep \in SUBSET (DOMAIN vectors \cup Missing(t)) :
                /\ Stays(DOMAIN vectors, Missing(t), keep)
                /\ vectors' = [x \in keep |-> IF x \in Missing(t) THEN job[t].now ELSE vectors[x]]
          /\ job' = [job EXCEPT ![t].pc = "answered", ![t].found = job[t].found \cup Missing(t)]
    /\ UNCHANGED <<model, modelLock, built, clock>>

\* model.embed raises: nothing is stored
EmbedFails(t) ==
    /\ job[t].pc = "run"
    /\ job' = [job EXCEPT ![t] = NoJob]
    /\ UNCHANGED <<model, modelLock, built, vectors, clock>>

EmbedTick ==
    /\ clock < Horizon
    /\ clock' = clock + 1
    /\ UNCHANGED <<model, modelLock, built, vectors, job>>

EmbedNext ==
    \/ EmbedTick
    \/ \E t \in Embedders :
        \/ Warm(t) \/ Find(t) \/ TestModel(t) \/ LockModel(t) \/ Retest(t)
        \/ Construct(t) \/ ConstructFails(t) \/ Store(t) \/ EmbedFails(t)
        \/ \E texts \in Batches : Embed(t, texts)

EmbedSpec == EmbedInit /\ [][EmbedNext]_embedVars

-----------------------------------------------------------------------------
(* Properties                                                              *)

\* "concurrent first-callers construct it ONCE", also after constructors that
\* failed, and nobody embeds before it is there; the cache holds no more than its
\* limit, also after a batch larger than that; and a call is answered for all of its
\* texts, whatever others pushed out between its two critical sections.
EmbedSound ==
    /\ built <= 1
    /\ Cardinality(DOMAIN vectors) <= EmbedMax
    /\ \A t \in Embedders : /\ job[t].pc = "run" => model
                            /\ job[t].pc = "answered" => job[t].texts \subseteq job[t].found

=============================================================================
