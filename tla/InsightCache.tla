---------------------------- MODULE InsightCache ----------------------------
(***************************************************************************)
(* GET /insights: the engine (internal/insight/engine/engine.go) asks, for *)
(* one category after the other, the chain cached(gated(provider)) of      *)
(* internal/insight/factory.  The cache is one LRU list per API process,   *)
(* shared by every request; a request holds its mutex only inside Get and  *)
(* inside Set, so the model's answer travels between the two while other   *)
(* requests look up, store and evict.                                      *)
(*                                                                         *)
(* The model is asked about the category and the facts only; an answer     *)
(* carries here also the user it was obtained for, to tell whose it is.    *)
(***************************************************************************)
EXTENDS Integers, Sequences, FiniteSets, SequencesExt

CONSTANTS
    Request,        \* requests for insights, each sent once
    User,           \* authenticated callers
    Senders,        \* who may have sent the requests: functions to User
    AllCategories,  \* the sequence of categories, in the engine's order
    Facts,          \* snapshots of portfolios that hold something
    NoFacts,        \* no snapshot yet, or that of an empty portfolio
    NoAnswer,       \* no answer for the category
    Text,           \* results the gates have nothing against
    Size,           \* INSIGHTER_CACHE_SIZE
    TTL,            \* INSIGHTER_CACHE_TTL
    CallTimeout,    \* INSIGHTER_TIMEOUT
    WriteTimeout,   \* HTTP_WRITE_TIMEOUT
    MaxClock        \* bound on the wall clock, for model checking only

Category == Range(AllCategories)

ASSUME RequestAssumption == Senders \subseteq [Request -> User]
ASSUME CategoryAssumption ==
    /\ AllCategories \in Seq(Category) /\ AllCategories # << >>
    /\ IsInjective(AllCategories)
\* config.Load accepts nothing else for the first three; a write timeout of zero
\* is none to net/http and not modelled.
ASSUME ConfigAssumption ==
    /\ Size \in Nat \ {0} /\ TTL \in Nat \ {0} /\ CallTimeout \in Nat \ {0}
    /\ WriteTimeout \in Nat /\ MaxClock \in Nat

VARIABLES
    clock,      \* clock.Now()
    user,       \* the session user of each request
    ll,         \* the cache's list of keys, most recently used first
    items,      \* the cache's map from key to entry
    pc,         \* where each request has got to
    next,       \* the position of the category it is at
    facts,      \* the facts it asks about
    held,       \* the answer it holds between the gates and Set
    answers,    \* what it has for each category
    cancelled,  \* whether its context is cancelled (the client went away)
    began,      \* when its headers were read
    since,      \* when its present call to the provider was sent
    given,      \* history: every answer stored, and when
    used        \* history: the keys hit or set since the process started

cache == <<ll, items, given, used>>
request == <<user, pc, next, facts, held, answers, cancelled, began, since>>
vars == <<clock, cache, request>>

---------------------------------------------------------------------------
\* What the engine asks of the cache and shows the client, without pc, next,
\* held and the list: the refinement mapping is the identity on what is kept.
Promise == INSTANCE InsightAnswers WITH
    clock <- clock, user <- user, facts <- facts, given <- given,
    answers <- answers

\* Results the gates are there for.
Rejected == {"unexplained", "order"}

Question == Promise!Question
QuestionOf(r) == Promise!QuestionOf(r, AllCategories[next[r]])

Answer == Promise!Answer

ASSUME NothingAssumption ==
    /\ Text \intersect Rejected = {}
    /\ NoFacts \notin Facts /\ NoAnswer \notin Answer

\* Faulty variant of cacheKey: the user is left out.
CacheKeyOfAnyone(q) == <<CHOOSE u \in User : TRUE, q.category, q.facts>>

\* cacheKey: the hash tells apart users, tasks and facts.
cacheKey(q) == <<q.user, q.category, q.facts>>

Key == User \X Category \X Facts
Entry == [result : Answer, expires : Nat]

Calling == {"call", "reask"}
Running == Calling \union {"buildFacts", "get", "set"}

---------------------------------------------------------------------------
(* The cache.                                                              *)

Unlinked(k) == RemoveAt(ll, CHOOSE i \in 1 .. Len(ll) : ll[i] = k)

removeElement(k) ==
    /\ ll' = Unlinked(k)
    /\ items' = [j \in DOMAIN items \ {k} |-> items[j]]

\* What Set makes of the list before it looks at its length.
Pushed(k) == <<k>> \o (IF k \in DOMAIN items THEN Unlinked(k) ELSE ll)

\* An entry expires at the instant its time to live ends.
Live(k) == k \in DOMAIN items /\ clock < items[k].expires

\* Faulty variant of Kept: the list may grow to one more than Size.
KeptOneMore(list) == IF Len(list) > Size + 1 THEN Front(list) ELSE list

\* What Set leaves of the list it has pushed a key to: one eviction at most.
Kept(list) == IF Len(list) > Size THEN Front(list) ELSE list

---------------------------------------------------------------------------
Init ==
    /\ clock = 0
    /\ user \in Senders
    /\ ll = << >>
    /\ items = << >>
    /\ pc = [r \in Request |-> "idle"]
    /\ next = [r \in Request |-> 1]
    /\ facts = [r \in Request |-> NoFacts]
    /\ held = [r \in Request |-> NoAnswer]
    /\ answers = [r \in Request |-> [c \in Category |-> NoAnswer]]
    /\ cancelled = [r \in Request |-> FALSE]
    /\ began = [r \in Request |-> 0]
    /\ since = [r \in Request |-> 0]
    /\ given = {}
    /\ used = << >>

\* A call to the provider never outlives its timeout.
Tick ==
    /\ clock < MaxClock
    /\ \A r \in Request : pc[r] \in Calling => clock < since[r] + CallTimeout
    /\ clock' = clock + 1
    /\ UNCHANGED <<cache, request>>

\* A process restart: the cache is gone, and with it every running request.
Restart ==
    /\ ll' = << >>
    /\ items' = << >>
    /\ used' = << >>
    /\ pc' = [r \in Request |-> IF pc[r] \in Running THEN "failed" ELSE pc[r]]
    /\ UNCHANGED <<clock, user, given, next, facts, held, answers, cancelled,
                   began, since>>

\* The handler is entered once the session is authenticated.
Begin(r) ==
    /\ pc[r] = "idle"
    /\ pc' = [pc EXCEPT ![r] = "buildFacts"]
    /\ began' = [began EXCEPT ![r] = clock]
    /\ UNCHANGED <<clock, user, cache, next, facts, held, answers, cancelled,
                   since>>

\* The client closes the connection.
Cancel(r) ==
    /\ pc[r] \in Running
    /\ ~cancelled[r]
    /\ cancelled' = [cancelled EXCEPT ![r] = TRUE]
    /\ UNCHANGED <<clock, user, cache, pc, next, facts, held, answers, began,
                   since>>

---------------------------------------------------------------------------
(* Insights.                                                               *)

\* The server drops a response written after its write deadline.
Return(r) ==
    pc' = [pc EXCEPT ![r] = IF clock < began[r] + WriteTimeout
                            THEN "replied" ELSE "lost"]

\* Faulty variant of NextCategory: one category too many.
NextCategoryOneMore(r) ==
    \/ /\ next[r] <= Len(AllCategories)
       /\ next' = [next EXCEPT ![r] = @ + 1]
       /\ pc' = [pc EXCEPT ![r] = "get"]
    \/ /\ next[r] > Len(AllCategories)
       /\ Return(r)
       /\ UNCHANGED next

NextCategory(r) ==
    \/ /\ next[r] < Len(AllCategories)
       /\ next' = [next EXCEPT ![r] = @ + 1]
       /\ pc' = [pc EXCEPT ![r] = "get"]
    \/ /\ next[r] = Len(AllCategories)
       /\ Return(r)
       /\ UNCHANGED next

BuildFacts(r) ==
    /\ pc[r] = "buildFacts"
    /\ \/ \E f \in Facts :
            /\ facts' = [facts EXCEPT ![r] = f]
            /\ pc' = [pc EXCEPT ![r] = "get"]
       \/ Return(r) /\ UNCHANGED facts                  \* nothing held
       \/ /\ pc' = [pc EXCEPT ![r] = "failed"]          \* a read failed
          /\ UNCHANGED facts
    /\ UNCHANGED <<clock, user, cache, next, held, answers, cancelled, began,
                   since>>

\* Generate returned a result: the category has an answer.
Succeed(r, a) ==
    /\ answers' = [answers EXCEPT ![r][AllCategories[next[r]]] = a]
    /\ NextCategory(r)

\* Faulty variant of Skip: the context is not looked at.
SkipRegardless(r) == NextCategory(r)

\* Generate returned an error: the category is skipped, unless the client left.
Skip(r) ==
    IF cancelled[r]
    THEN pc' = [pc EXCEPT ![r] = "failed"] /\ UNCHANGED next
    ELSE NextCategory(r)

\* Faulty variant of Hit: no MoveToFront.
HitInPlace(r, k) ==
    /\ Live(k)
    /\ used' = Append(used, k)
    /\ Succeed(r, items[k].result)
    /\ UNCHANGED <<ll, items, since>>

Hit(r, k) ==
    /\ Live(k)
    /\ ll' = <<k>> \o Unlinked(k)
    /\ used' = Append(used, k)
    /\ Succeed(r, items[k].result)
    /\ UNCHANGED <<items, since>>

Miss(r, k) ==
    /\ ~Live(k)
    /\ IF k \in DOMAIN items THEN removeElement(k) ELSE UNCHANGED <<ll, items>>
    /\ pc' = [pc EXCEPT ![r] = "call"]
    /\ since' = [since EXCEPT ![r] = clock]
    /\ UNCHANGED <<used, answers, next>>

\* cached.Generate up to the call of the gated insighter.
Get(r) ==
    /\ pc[r] = "get"
    /\ LET k == cacheKey(QuestionOf(r)) IN Hit(r, k) \/ Miss(r, k)
    /\ UNCHANGED <<clock, user, given, facts, held, cancelled, began>>

Calls(r) ==
    /\ pc[r] \in Calling
    /\ UNCHANGED <<clock, user, cache, facts, answers, cancelled, began>>

\* The gates reject a result one of whose insights has no explanation or is an
\* order; a result without insights gives them nothing to object to.
GatePasses(t) == t \notin Rejected

\* A reply that parses.
ModelAnswers(r) ==
    /\ Calls(r) /\ ~cancelled[r]
    /\ \E t \in Text \union Rejected :
        \/ /\ GatePasses(t)
           /\ held' = [held EXCEPT
                  ![r] = [question |-> QuestionOf(r), text |-> t]]
           /\ pc' = [pc EXCEPT ![r] = "set"]
           /\ UNCHANGED next
        \/ ~GatePasses(t) /\ Skip(r) /\ UNCHANGED held
    /\ UNCHANGED since

\* Faulty variant of ModelMalformed: the category is started over each time.
ModelMalformedOver(r) ==
    /\ Calls(r) /\ ~cancelled[r]
    /\ pc' = [pc EXCEPT ![r] = "get"]
    /\ UNCHANGED <<next, held, since>>

\* The first reply is not the JSON asked for: ask once more.
ModelMalformed(r) ==
    /\ Calls(r) /\ ~cancelled[r]
    /\ pc[r] = "call"
    /\ pc' = [pc EXCEPT ![r] = "reask"]
    /\ since' = [since EXCEPT ![r] = clock]
    /\ UNCHANGED <<next, held>>

\* Generate returns an error: the provider refuses (429), fails or times out,
\* the context is cancelled, or the second reply is malformed too.
ModelFails(r) ==
    /\ Calls(r)
    /\ Skip(r)
    /\ UNCHANGED <<held, since>>

\* memCache.Set, and what is returned to the engine.
Set(r) ==
    LET k == cacheKey(QuestionOf(r))
        oldest == IF Len(Pushed(k)) > Size THEN {Last(Pushed(k))} ELSE {}
        entry == [result |-> held[r], expires |-> clock + TTL]
    IN  /\ pc[r] = "set"
        /\ ll' = Kept(Pushed(k))
        /\ items' = [j \in (DOMAIN items \union {k}) \ oldest |->
                        IF j = k THEN entry ELSE items[j]]
        /\ given' = given \union {[answer |-> held[r], at |-> clock]}
        /\ used' = Append(used, k)
        /\ held' = [held EXCEPT ![r] = NoAnswer]
        /\ Succeed(r, held[r])
        /\ UNCHANGED <<clock, user, facts, cancelled, began, since>>

Step(r) ==
    \/ BuildFacts(r) \/ Get(r) \/ Set(r)
    \/ ModelAnswers(r) \/ ModelMalformed(r) \/ ModelFails(r)

Next ==
    \/ Tick
    \/ Restart
    \/ \E r \in Request : Begin(r) \/ Cancel(r) \/ Step(r)

Spec == Init /\ [][Next]_vars

\* Every call is bounded by the client's timeout and a goroutine is scheduled
\* again and again; nothing obliges clients to ask or the process to restart.
FairSpec == Spec /\ \A r \in Request : WF_vars(Step(r))

\* Next to a call to the provider everything else takes no time.
PromptSpec ==
    /\ Init
    /\ [][/\ Next
          /\ clock' # clock =>
               \A r \in Request : pc[r] \in Running => pc[r] \in Calling]_vars

---------------------------------------------------------------------------
Returned == {"replied", "lost", "failed"}

TypeOK ==
    /\ clock \in Nat
    /\ user \in [Request -> User]
    /\ ll \in Seq(Key)
    /\ items \in [DOMAIN items -> Entry]
    /\ pc \in [Request -> {"idle"} \union Running \union Returned]
    /\ next \in [Request -> 1 .. Len(AllCategories)]
    /\ facts \in [Request -> Facts \union {NoFacts}]
    /\ held \in [Request -> Answer \union {NoAnswer}]
    /\ answers \in [Request -> [Category -> Answer \union {NoAnswer}]]
    /\ cancelled \in [Request -> BOOLEAN]
    /\ began \in [Request -> Nat]
    /\ since \in [Request -> Nat]
    /\ given \in SUBSET [answer : Answer, at : Nat]
    /\ used \in Seq(Key)

\* The list and the map hold the same keys, each once, and no more than Size.
CacheBounded ==
    /\ Len(ll) <= Size
    /\ Range(ll) = DOMAIN items
    /\ IsInjective(ll)

\* The promise of the cache to a repeated question: an answer stored less than
\* TTL ago is still there unless Size other questions were used since.
LastUse(k) ==
    CHOOSE i \in DOMAIN used :
        used[i] = k /\ \A j \in DOMAIN used : used[j] = k => j <= i

UsedSince(k) == {used[j] : j \in LastUse(k) + 1 .. Len(used)}

KeptWhileRecent ==
    \A g \in given :
        LET k == cacheKey(g.answer.question)
        IN  k \in Range(used) /\ clock < g.at + TTL
              /\ Cardinality(UsedSince(k)) < Size
            => Live(k)

\* What requests are told is what InsightAnswers allows: nobody gets another
\* user's, category's or portfolio's answer, an expired one, or one the gates
\* did not pass.
KeepsPromise == Promise!Spec

Available(r) ==
    facts[r] = NoFacts \/ \E c \in Category : answers[r][c] # NoAnswer

\* A request whose client left while the model was failing ends with an error:
\* it is not reported as "insights unavailable".
CancelledNotUnavailable ==
    \A r \in Request :
        pc[r] \in {"replied", "lost"} /\ ~Available(r) => ~cancelled[r]

\* Every request ends, whatever the provider does.
RequestsReturn ==
    \A r \in Request : pc[r] = "buildFacts" ~> pc[r] \in Returned

\* README.md: "on any provider failure the Insighter degrades gracefully".  The
\* degraded reply, available = false, gets to the client.
DegradedReplyDelivered ==
    \A r \in Request : pc[r] = "lost" => Available(r)

---------------------------------------------------------------------------
(* The inductive invariant behind CacheBounded and KeepsPromise.           *)

\* A request asks about its facts from get on, and has none before.
FactsAreBuilt ==
    \A r \in Request :
        /\ pc[r] \in {"idle", "buildFacts"} => facts[r] = NoFacts
        /\ pc[r] \in Calling \union {"get", "set"} => facts[r] \in Facts

\* What a request carries to Set answers the question it is at.
HoldsOwnAnswer ==
    \A r \in Request :
        pc[r] = "set" => held[r] \in Answer /\ held[r].question = QuestionOf(r)

\* The category a request is at, and those to come, are unanswered.
YetUnanswered ==
    \A r \in Request : pc[r] \in Running \union {"idle"} =>
        \A i \in next[r] .. Len(AllCategories) :
            answers[r][AllCategories[i]] = NoAnswer

\* What the cache would serve for a key was given to a question of that key,
\* and expires TTL later.
EntriesWereGiven ==
    \A k \in DOMAIN items : \E g \in given :
        /\ items[k].result = g.answer
        /\ cacheKey(g.answer.question) = k
        /\ items[k].expires = g.at + TTL

IndInv ==
    /\ TypeOK /\ CacheBounded /\ FactsAreBuilt /\ HoldsOwnAnswer
    /\ YetUnanswered /\ EntriesWereGiven /\ CancelledNotUnavailable

---------------------------------------------------------------------------
(* What the inductive invariant behind KeptWhileRecent has besides.        *)

\* A key that was used was used a last time.
UsesHaveLast ==
    \A k \in Range(used) : \E i \in DOMAIN used :
        used[i] = k /\ \A j \in DOMAIN used : used[j] = k => j <= i

\* The list is in the order of the last uses: those ahead of a key in it were
\* used after it.
AheadIsUsedSince ==
    /\ Range(ll) \subseteq Range(used)
    /\ \A i, j \in 1 .. Len(ll) : j < i => ll[j] \in UsedSince(ll[i])

\* An entry outlasts every answer ever stored under its key.
EntryOutlasts ==
    \A g \in given :
        LET k == cacheKey(g.answer.question)
        IN  /\ g.at <= clock
            /\ k \in DOMAIN items => g.at + TTL <= items[k].expires

\* A key that was used and is gone was pushed out by Size others, or expired.
GoneForAReason ==
    \A k \in Range(used) \ DOMAIN items :
        \/ Size <= Cardinality(UsedSince(k))
        \/ \A g \in given :
              cacheKey(g.answer.question) = k => g.at + TTL <= clock

RecencyInv ==
    UsesHaveLast /\ AheadIsUsedSince /\ EntryOutlasts /\ GoneForAReason

=============================================================================
