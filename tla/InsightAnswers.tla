--------------------------- MODULE InsightAnswers ---------------------------
(***************************************************************************)
(* What the insight engine promises the caller of GET /insights, without   *)
(* the cache, the provider's failures or the order of the work: an answer  *)
(* is one the model gave to this very user, category and facts, it passed  *)
(* the gates, and it was handed over less than one time to live ago.       *)
(* InsightCache implements this specification.                             *)
(***************************************************************************)
EXTENDS Naturals

CONSTANTS
    Request,    \* requests for insights
    User,       \* authenticated callers
    Senders,    \* who may have sent the requests: functions to User
    Category,   \* the categories of insights
    Facts,      \* fact snapshots with something to analyse
    NoFacts,    \* no snapshot was built
    Text,       \* results in which every insight is explained, none an order
    NoAnswer,   \* the category has no answer
    TTL         \* how long an answer may be given again

VARIABLES
    clock,      \* the wall clock
    user,       \* the session user of each request
    facts,      \* the snapshot each request asks about
    given,      \* every answer that was obtained, with the time it was
    answers     \* what each request answers for each category

vars == <<clock, user, facts, given, answers>>

---------------------------------------------------------------------------
Question == [user : User, category : Category, facts : Facts]

Answer == [question : Question, text : Text]

QuestionOf(r, c) == [user |-> user[r], category |-> c, facts |-> facts[r]]

Init ==
    /\ clock = 0
    /\ user \in Senders
    /\ facts = [r \in Request |-> NoFacts]
    /\ given = {}
    /\ answers = [r \in Request |-> [c \in Category |-> NoAnswer]]

Tick ==
    /\ clock' = clock + 1
    /\ UNCHANGED <<user, facts, given, answers>>

BuildFacts(r) ==
    /\ facts[r] = NoFacts
    /\ \E f \in Facts : facts' = [facts EXCEPT ![r] = f]
    /\ UNCHANGED <<clock, user, given, answers>>

AnswerWith(r, c, a) ==
    /\ facts[r] # NoFacts
    /\ answers[r][c] = NoAnswer
    /\ a.question = QuestionOf(r, c)
    /\ answers' = [answers EXCEPT ![r][c] = a]
    /\ UNCHANGED <<clock, user, facts>>

\* The model was asked: the answer may be given again from now on.
Fresh(r, c) ==
    \E t \in Text :
        LET a == [question |-> QuestionOf(r, c), text |-> t]
        IN  /\ AnswerWith(r, c, a)
            /\ given' = given \union {[answer |-> a, at |-> clock]}

\* An answer obtained less than TTL ago is given again.
Again(r, c) ==
    \E g \in given :
        /\ clock < g.at + TTL
        /\ AnswerWith(r, c, g.answer)
        /\ UNCHANGED given

Next ==
    \/ Tick
    \/ \E r \in Request : BuildFacts(r)
    \/ \E r \in Request, c \in Category : Fresh(r, c) \/ Again(r, c)

Spec == Init /\ [][Next]_vars

=============================================================================
