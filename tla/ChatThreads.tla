---------------------------- MODULE ChatThreads ----------------------------
(***************************************************************************)
(* The conversational copilot's threads: internal/chat/engine.go over      *)
(* internal/chat/postgres/postgres.go and migrations/0006_chat.up.sql.     *)
(*                                                                         *)
(* A turn is one POST /chat/messages request, run by its own goroutine of  *)
(* one of any number of API replicas.  Send makes every statement on its   *)
(* own, without a transaction, so each statement is one action and the     *)
(* statements of concurrent turns interleave freely.                       *)
(*                                                                         *)
(* A thread's id is a fresh UUID, so a thread is named here by the turn    *)
(* whose CreateThread inserted it.                                         *)
(***************************************************************************)
EXTENDS Naturals, FiniteSets

CONSTANTS
    User,           \* authenticated callers
    Turn,           \* POST /chat/messages requests, each sent once
    UserOf,         \* UserOf[r]: the session user that sent turn r
    maxThreads,     \* per-user cap on threads (50 in the code)
    priorWindow,    \* messages of the thread sent to the model (10 in the code)
    NoThreadId,     \* the request's thread_id is empty: start a new thread
    UnknownThread,  \* a thread_id no row has (deleted, mistyped, not a UUID)
    MaxClock        \* bound on the wall clock, for model checking only

ASSUME TurnAssumption == IsFiniteSet(Turn) /\ UserOf \in [Turn -> User]
ASSUME BoundAssumption ==
    maxThreads \in Nat /\ priorWindow \in Nat /\ MaxClock \in Nat
ASSUME IdAssumption ==
    /\ NoThreadId \notin Turn
    /\ UnknownThread \notin Turn
    /\ NoThreadId # UnknownThread

VARIABLES
    clock,      \* clock.Now(), shared by every replica
    threads,    \* the rows of chat_threads
    updatedAt,  \* their updated_at column
    messages,   \* the rows of chat_messages
    pc,         \* where each turn's Send has got to
    target,     \* the thread each turn addresses: requested, then resolved
    at,         \* the created_at each turn stamps on its next message
    prior,      \* the prior context each turn holds while the model answers
    past        \* history: its thread as it stood when its question was inserted

vars == <<clock, threads, updatedAt, messages, pc, target, at, prior, past>>

---------------------------------------------------------------------------
(* Where a Send may be.  The first group still runs, the second returned.  *)
Running ==
    {"resolve", "enforceCap", "insertQuestion", "touchQuestion", "readPrior",
     "generate", "insertAnswer", "touchAnswer"}

Returned ==
    {"replied",      \* 200, available, the stored answer
     "declined",     \* 200, available, the fixed "considerations" text
     "unavailable",  \* 200, available = false
     "notFound",     \* 404
     "uncapped",     \* 500, or no response: it stopped before EnforceCap ran
     "failed"}       \* 500, or no response, at any other statement

Message ==
    [turn : Turn, role : {"user", "assistant"}, thread : Turn,
     createdAt : Nat]

Question(r) ==
    [turn |-> r, role |-> "user", thread |-> target[r],
     createdAt |-> at[r]]

Answer(r) ==
    [turn |-> r, role |-> "assistant", thread |-> target[r],
     createdAt |-> at[r]]

\* The rows ORDER BY stamp DESC LIMIT n may return: ties come in any order.
Latest(S, n, stamp) ==
    {K \in SUBSET S :
        /\ Cardinality(K) <= n
        /\ Cardinality(K) < n => K = S
        /\ \A k \in K, s \in S \ K : stamp[s] <= stamp[k]}

ThreadsOf(u) == {t \in threads : UserOf[t] = u}

\* DELETE FROM chat_threads, with the cascade to chat_messages.
DeleteRows(gone) ==
    /\ threads' = threads \ gone
    /\ messages' = {m \in messages : m.thread \notin gone}

---------------------------------------------------------------------------
Init ==
    /\ clock = 0
    /\ threads = {}
    /\ updatedAt = [t \in Turn |-> 0]
    /\ messages = {}
    /\ pc = [r \in Turn |-> "idle"]
    /\ target = [r \in Turn |-> NoThreadId]
    /\ at = [r \in Turn |-> 0]
    /\ prior = [r \in Turn |-> {}]
    /\ past = [r \in Turn |-> {}]

Tick ==
    /\ clock < MaxClock
    /\ clock' = clock + 1
    /\ UNCHANGED <<threads, updatedAt, messages, pc, target, at, prior, past>>

\* The request arrives: its thread_id is empty, the id of some thread of any
\* user, or an id no row has.  Send reads the clock once, before anything else.
Begin(r) ==
    /\ pc[r] = "idle"
    /\ \E id \in threads \union {NoThreadId, UnknownThread} :
        target' = [target EXCEPT ![r] = id]
    /\ at' = [at EXCEPT ![r] = clock]
    /\ pc' = [pc EXCEPT ![r] = "resolve"]
    /\ UNCHANGED <<clock, threads, updatedAt, messages, prior, past>>

\* Faulty variant of GetThread: WHERE id = $1 only.
GetThreadUnscoped(r) ==
    /\ pc[r] = "resolve"
    /\ target[r] # NoThreadId
    /\ pc' = [pc EXCEPT ![r] =
                IF target[r] \in threads THEN "insertQuestion" ELSE "notFound"]
    /\ UNCHANGED <<clock, threads, updatedAt, messages, target, at, prior, past>>

\* resolveThread with an id: SELECT ... WHERE id = $1 AND user_id = $2.
GetThread(r) ==
    /\ pc[r] = "resolve"
    /\ target[r] # NoThreadId
    /\ pc' = [pc EXCEPT ![r] =
                IF target[r] \in ThreadsOf(UserOf[r])
                THEN "insertQuestion" ELSE "notFound"]
    /\ UNCHANGED <<clock, threads, updatedAt, messages, target, at, prior, past>>

\* resolveThread without one: the new row's updated_at is the turn's start.
CreateThread(r) ==
    /\ pc[r] = "resolve"
    /\ target[r] = NoThreadId
    /\ threads' = threads \union {r}
    /\ updatedAt' = [updatedAt EXCEPT ![r] = at[r]]
    /\ target' = [target EXCEPT ![r] = r]
    /\ pc' = [pc EXCEPT ![r] = "enforceCap"]
    /\ UNCHANGED <<clock, messages, at, prior, past>>

\* Faulty variant of EnforceCap: the new row is not counted, LIMIT $2 + 1.
EnforceCapOffByOne(r) ==
    /\ pc[r] = "enforceCap"
    /\ \E kept \in Latest(ThreadsOf(UserOf[r]), maxThreads + 1, updatedAt) :
        DeleteRows(ThreadsOf(UserOf[r]) \ kept)
    /\ pc' = [pc EXCEPT ![r] = "insertQuestion"]
    /\ UNCHANGED <<clock, updatedAt, target, at, prior, past>>

\* Keep the maxThreads most recently updated threads of the user, delete the
\* others: the one just created may itself be among those deleted.
EnforceCap(r) ==
    /\ pc[r] = "enforceCap"
    /\ \E kept \in Latest(ThreadsOf(UserOf[r]), maxThreads, updatedAt) :
        DeleteRows(ThreadsOf(UserOf[r]) \ kept)
    /\ pc' = [pc EXCEPT ![r] = "insertQuestion"]
    /\ UNCHANGED <<clock, updatedAt, target, at, prior, past>>

\* AppendMessage, first statement.  The foreign key holds the insert back when
\* the thread was deleted or evicted after it was resolved.
InsertQuestion(r) ==
    /\ pc[r] = "insertQuestion"
    /\ target[r] \in threads
    /\ messages' = messages \union {Question(r)}
    /\ past' = [past EXCEPT ![r] = {m \in messages' : m.thread = target[r]}]
    /\ pc' = [pc EXCEPT ![r] = "touchQuestion"]
    /\ UNCHANGED <<clock, threads, updatedAt, target, at, prior>>

\* Faulty variant of InsertAnswer: chat_messages has no foreign key.
InsertAnswerUnchecked(r) ==
    /\ pc[r] = "insertAnswer"
    /\ messages' = messages \union {Answer(r)}
    /\ pc' = [pc EXCEPT ![r] = "touchAnswer"]
    /\ UNCHANGED <<clock, threads, updatedAt, target, at, prior, past>>

InsertAnswer(r) ==
    /\ pc[r] = "insertAnswer"
    /\ target[r] \in threads
    /\ messages' = messages \union {Answer(r)}
    /\ pc' = [pc EXCEPT ![r] = "touchAnswer"]
    /\ UNCHANGED <<clock, threads, updatedAt, target, at, prior, past>>

\* The insert's foreign-key violation: Send returns an error, the edge a 500.
ThreadGone(r) ==
    /\ pc[r] \in {"insertQuestion", "insertAnswer"}
    /\ target[r] \notin threads
    /\ pc' = [pc EXCEPT ![r] = "failed"]
    /\ UNCHANGED <<clock, threads, updatedAt, messages, target, at, prior, past>>

\* AppendMessage, second statement: updated_at is set, not advanced, and the
\* statement matches no row (without an error) once the thread is gone.
Touch(r) ==
    /\ pc[r] \in {"touchQuestion", "touchAnswer"}
    /\ updatedAt' = IF target[r] \in threads
                    THEN [updatedAt EXCEPT ![target[r]] = at[r]]
                    ELSE updatedAt
    /\ pc' = [pc EXCEPT ![r] =
                IF pc[r] = "touchQuestion" THEN "readPrior" ELSE "replied"]
    /\ UNCHANGED <<clock, threads, messages, target, at, prior, past>>

\* Faulty variant of ReadPrior: the first messages instead of the last.
ReadPriorOldest(r) ==
    /\ pc[r] = "readPrior"
    /\ LET stored == {m \in messages : m.thread = target[r]}
       IN  \E rest \in IF Cardinality(stored) <= priorWindow THEN {{}}
                       ELSE Latest(stored, Cardinality(stored) - priorWindow,
                                   [m \in stored |-> m.createdAt]) :
              prior' = [prior EXCEPT ![r] = stored \ rest]
    /\ pc' = [pc EXCEPT ![r] = "generate"]
    /\ UNCHANGED <<clock, threads, updatedAt, messages, target, at, past>>

\* ground, whose failures end in Fail, then priorContext: the last priorWindow
\* messages of the thread by created_at, none if the thread is gone.
ReadPrior(r) ==
    /\ pc[r] = "readPrior"
    /\ LET stored == {m \in messages :
                        /\ m.thread = target[r]
                        /\ UserOf[m.thread] = UserOf[r]}
       IN  \E window \in Latest(stored, priorWindow,
                                [m \in stored |-> m.createdAt]) :
              prior' = [prior EXCEPT ![r] = window]
    /\ pc' = [pc EXCEPT ![r] = "generate"]
    /\ UNCHANGED <<clock, threads, updatedAt, messages, target, at, past>>

\* Faulty variant of Generate: the answer is returned but never inserted.
GenerateUnstored(r) ==
    /\ pc[r] = "generate"
    /\ at' = [at EXCEPT ![r] = clock]
    /\ pc' = [pc EXCEPT ![r] = "touchAnswer"]
    /\ prior' = [prior EXCEPT ![r] = {}]
    /\ past' = [past EXCEPT ![r] = {}]
    /\ UNCHANGED <<clock, threads, updatedAt, messages, target>>

\* Faulty variant of Generate: the stamp is rounded up past the clock.
GenerateRoundedUp(r) ==
    /\ pc[r] = "generate"
    /\ at' = [at EXCEPT ![r] = clock + 1]
    /\ pc' = [pc EXCEPT ![r] = "insertAnswer"]
    /\ prior' = [prior EXCEPT ![r] = {}]
    /\ past' = [past EXCEPT ![r] = {}]
    /\ UNCHANGED <<clock, threads, updatedAt, messages, target>>

\* The gated Insighter answers, and the first insight carries an explanation.
\* The answer is stamped with the clock read now, not at the turn's start.
Generate(r) ==
    /\ pc[r] = "generate"
    /\ at' = [at EXCEPT ![r] = clock]
    /\ pc' = [pc EXCEPT ![r] = "insertAnswer"]
    /\ prior' = [prior EXCEPT ![r] = {}]
    /\ past' = [past EXCEPT ![r] = {}]
    /\ UNCHANGED <<clock, threads, updatedAt, messages, target>>

\* The Insighter is out of reach, or answers without a usable explanation, or
\* its gate rejects the text: a fixed reply, and nothing of it is stored.
Degrade(r) ==
    /\ pc[r] = "generate"
    /\ \E reply \in {"unavailable", "declined"} :
        pc' = [pc EXCEPT ![r] = reply]
    /\ prior' = [prior EXCEPT ![r] = {}]
    /\ past' = [past EXCEPT ![r] = {}]
    /\ UNCHANGED <<clock, threads, updatedAt, messages, target, at>>

\* A database error, the caller's disconnection or a crash of the process, at
\* any point of a running turn: what it already wrote stays written, among it
\* the new thread of a turn that stops before its EnforceCap.
Fail(r) ==
    /\ pc[r] \in Running
    /\ pc' = [pc EXCEPT ![r] =
                IF pc[r] = "enforceCap" THEN "uncapped" ELSE "failed"]
    /\ prior' = [prior EXCEPT ![r] = {}]
    /\ past' = [past EXCEPT ![r] = {}]
    /\ UNCHANGED <<clock, threads, updatedAt, messages, target, at>>

\* DELETE /chat/threads/{id}: a no-op on a thread the caller does not own.
DeleteThread(u, t) ==
    /\ t \in ThreadsOf(u)
    /\ DeleteRows({t})
    /\ UNCHANGED <<clock, updatedAt, pc, target, at, prior, past>>

\* DELETE /chat/threads.
ClearThreads(u) ==
    /\ ThreadsOf(u) # {}
    /\ DeleteRows(ThreadsOf(u))
    /\ UNCHANGED <<clock, updatedAt, pc, target, at, prior, past>>

\* What Send itself does next, once it runs: every step but a failure.
Step(r) ==
    \/ GetThread(r)
    \/ CreateThread(r)
    \/ EnforceCap(r)
    \/ InsertQuestion(r)
    \/ InsertAnswer(r)
    \/ ThreadGone(r)
    \/ Touch(r)
    \/ ReadPrior(r)
    \/ Generate(r)
    \/ Degrade(r)

Next ==
    \/ Tick
    \/ \E r \in Turn : Begin(r) \/ Step(r) \/ Fail(r)
    \/ \E u \in User : ClearThreads(u) \/ \E t \in Turn : DeleteThread(u, t)

Spec == Init /\ [][Next]_vars

---------------------------------------------------------------------------
(* Correctness.                                                            *)

\* Every column, local variable and program point stays in its range.
TypeOK ==
    /\ clock \in 0..MaxClock
    /\ threads \subseteq Turn
    /\ updatedAt \in [Turn -> 0..MaxClock]
    /\ messages \subseteq Message
    /\ pc \in [Turn -> {"idle"} \union Running \union Returned]
    /\ target \in [Turn -> Turn \union {NoThreadId, UnknownThread}]
    /\ at \in [Turn -> 0..MaxClock]
    /\ prior \in [Turn -> SUBSET Message]
    /\ past \in [Turn -> SUBSET Message]

\* The threads of u still there whose own creation has not enforced the cap:
\* it is between the two statements, or was stopped there by a failure.
Unenforced(u) == {t \in ThreadsOf(u) : pc[t] \in {"enforceCap", "uncapped"}}

\* FR-1086, engine.go:115: apart from the threads whose own EnforceCap has not
\* run, a user has at most maxThreads, whatever turns, replicas and failures
\* interleave: a turn that fails or is degraded after its EnforceCap leaves the
\* user no thread over the cap.
ThreadsBounded ==
    \A u \in User : Cardinality(ThreadsOf(u) \ Unenforced(u)) <= maxThreads

\* BR-1083: every stored message was sent by the owner of its thread, although
\* AppendMessage itself trusts an ownership check made earlier in the turn.
OnlyOwnerWrites ==
    \A m \in messages : m.thread \in threads /\ UserOf[m.turn] = UserOf[m.thread]

\* A stored answer stands after its own question in the same thread: whenever a
\* deletion or an eviction falls between a turn's statements, no half is left.
AnswersStandWithQuestions ==
    \A a \in messages : a.role = "assistant" =>
        \E q \in messages :
            /\ q.turn = a.turn /\ q.role = "user"
            /\ q.thread = a.thread /\ q.createdAt <= a.createdAt

Stored(r, role) == \E m \in messages : m.turn = r /\ m.role = role

\* What the caller was told against what is stored: an answered turn is stored
\* whole, a degraded one stores its question only, unless the thread was
\* removed since; a 404 stored nothing.
RepliesMatchHistory ==
    \A r \in Turn :
        /\ pc[r] = "replied" =>
              target[r] \notin threads \/ (Stored(r, "user") /\ Stored(r, "assistant"))
        /\ pc[r] \in {"declined", "unavailable"} =>
              /\ ~Stored(r, "assistant")
              /\ target[r] \notin threads \/ Stored(r, "user")
        /\ pc[r] = "notFound" => ~Stored(r, "user") /\ ~Stored(r, "assistant")

\* At most priorWindow messages of the caller's thread, and the most recent ones:
\* a message that stood there when the turn's question was inserted, or that
\* question itself, is left out only for a full window of messages none of which
\* is older.  Only a thread that is gone has no messages to give.
RecentDialogue(r) ==
    /\ Cardinality(prior[r]) <= priorWindow
    /\ \A m \in prior[r] : m.thread = target[r] /\ UserOf[m.turn] = UserOf[r]
    /\ \/ prior[r] = {} /\ target[r] \notin threads
       \/ \A m \in (past[r] \union {Question(r)}) \ prior[r] :
            /\ Cardinality(prior[r]) = priorWindow
            /\ \A k \in prior[r] : m.createdAt <= k.createdAt

\* What priorContext read for a turn is the recent dialogue of its thread and of no
\* other, also while other turns insert, evict and delete.
PriorIsRecentDialogue ==
    \A r \in Turn : pc[r] = "generate" => RecentDialogue(r)

\* migrations/0006_chat.up.sql:15, postgres.go:112: a thread's updated_at, the
\* eviction order, advances with every turn.
UpdatedAtAdvances ==
    [][\A t \in threads \intersect threads' : updatedAt'[t] >= updatedAt[t]]_vars

\* api/openapi.yaml:888: a turn answered available = false is not persisted.
UnavailableTurnNotPersisted ==
    \A r \in Turn : pc[r] = "unavailable" => ~Stored(r, "user") /\ r \notin threads

---------------------------------------------------------------------------
(* The inductive invariant ChatThreads_proofs establishes.                 *)

\* A turn past resolveThread addresses a thread of its own user.
Addressed ==
    {"enforceCap", "insertQuestion", "touchQuestion", "readPrior", "generate",
     "insertAnswer", "touchAnswer", "replied", "declined", "unavailable"}

Asked == Addressed \ {"enforceCap", "insertQuestion"}

\* A thread id, once addressed, is that of a thread some turn did insert: no
\* insertion ever brings back a deleted thread.
TargetsResolved ==
    /\ \A t \in threads : target[t] = t /\ pc[t] \notin {"idle", "resolve"}
    /\ \A r \in Turn :
        /\ at[r] <= clock
        /\ pc[r] = "enforceCap" => target[r] = r
        /\ target[r] \in Turn =>
              /\ pc[target[r]] \notin {"idle", "resolve"}
              /\ target[target[r]] = target[r]
        /\ pc[r] \in Addressed =>
              target[r] \in Turn /\ UserOf[target[r]] = UserOf[r]

\* Where a stored message stands, and how far the turn that wrote it has got.
MessagesPlaced ==
    \A m \in messages :
        /\ m.thread = target[m.turn]
        /\ pc[m.turn] \in Asked \union {"failed"}
        /\ m.role = "assistant" => pc[m.turn] \in {"touchAnswer", "replied", "failed"}

\* What a turn has stored by the time it is past the insert.
TurnsStored ==
    \A r \in Turn : target[r] \in threads =>
        /\ pc[r] \in Asked =>
              \E q \in messages : /\ q.turn = r /\ q.role = "user"
                                  /\ q.thread = target[r]
                                  /\ q.createdAt <= at[r]
        /\ pc[r] \in {"touchAnswer", "replied"} => Stored(r, "assistant")

\* Until the prior context is read, the question is stored as it was sent, and so
\* is all that stood in the thread when it was inserted.
QuestionsHeld ==
    \A r \in Turn :
        pc[r] \in {"touchQuestion", "readPrior"} /\ target[r] \in threads =>
            /\ Question(r) \in messages
            /\ \A m \in past[r] : m \in messages /\ m.thread = target[r]

IndInv ==
    /\ TypeOK
    /\ TargetsResolved
    /\ MessagesPlaced
    /\ OnlyOwnerWrites
    /\ TurnsStored
    /\ QuestionsHeld
    /\ AnswersStandWithQuestions
=============================================================================
