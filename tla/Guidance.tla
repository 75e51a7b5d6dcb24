------------------------------ MODULE Guidance ------------------------------
(***************************************************************************)
(* POST /rebalancing: the guidance for a contribution                      *)
(* (internal/rebalancing/engine.go, transport/http/rebalancing.go).        *)
(*                                                                         *)
(* A request reads the base facts and then the universe of FIIs, computes  *)
(* the split, and asks the Insighter, with all of it, once per area of the *)
(* split for an explanation and once for candidates.  The numbers come     *)
(* from the split, the texts from the model.  The Insighter is what        *)
(* InsightAnswers promises, which InsightCache implements: a new answer,   *)
(* or one given before to the very same question.                          *)
(*                                                                         *)
(* Of an answer only the titles of its insights are kept, and of those     *)
(* only which ticker they name: the gates let no insight pass without an   *)
(* explanation.  What the base facts are made of is the subject of         *)
(* Reports; the split is a function of them (Split in Figures).            *)
(***************************************************************************)
EXTENDS Naturals, Sequences, FiniteSets, Functions

CONSTANTS
    Request,        \* requests for guidance, each sent once
    User,           \* authenticated callers
    Senders,        \* who may have sent the requests: functions to User
    Ticker,         \* the FIIs whose quotes may be ingested
    Other,          \* the title of an insight that names none of them
    Base,           \* what BuildFacts may return
    Contribution,   \* the contributions ParseContribution accepts
    Bodies,         \* what the requests may carry: functions to Body
    Shares,         \* Split: the basis points of each area
    Result,         \* answers: of each insight, the ticker that it names
    NoFacts,        \* the facts are not assembled
    NoAnswer        \* no answer about an area, or the candidates

Area == {"fii", "fixed_income"}

\* The contribution in centavos, and include_asset_shares.
Body == [contribution : Contribution, withShares : BOOLEAN]

ASSUME SendersAssumption == Senders \subseteq [Request -> User]
ASSUME BodiesAssumption == Bodies \subseteq [Request -> Body]
ASSUME ResultAssumption == Result \subseteq Seq(Ticker \cup {Other})
ASSUME SharesAssumption ==
    Shares \in [Base -> [Contribution -> [Area -> Nat]]]

VARIABLES
    universe,   \* the tickers of fii_quotes
    user,       \* the session user of each request
    pc,         \* where each request has got to
    sent,       \* its body: the contribution, and include_asset_shares
    base,       \* the base facts it has read
    facts,      \* the facts it tells the model
    todo,       \* the areas of its split it has still to ask about
    answers,    \* what it was answered about each focus
    named,      \* the candidates it has: their tickers and shares
    cancelled,  \* whether its client has gone away
    given       \* history: every answer obtained

locals == <<sent, base, todo, named>>
vars == <<universe, user, pc, locals, facts, answers, cancelled, given>>

---------------------------------------------------------------------------
Focus == Area \cup {"candidates"}

\* Faulty variant of assembleFacts: the model is not told the contribution.
AssembledBlind(b, c, known) ==
    [base |-> b, contribution |-> CHOOSE x \in Contribution : TRUE,
     universe |-> known, split |-> Shares[b][c]]

assembleFacts(b, c, known) ==
    [base |-> b, contribution |-> c, universe |-> known,
     split |-> Shares[b][c]]

Facts == [base : Base, contribution : Contribution,
          universe : SUBSET Ticker, split : [Area -> Nat]]

\* Time stands still, so that an answer never grows too old to be given
\* again; one that has is given anew, which Fresh allows at any time.
Insighter == INSTANCE InsightAnswers WITH
    Category <- Focus, Text <- Result, clock <- 0, TTL <- 1

ASSUME NothingAssumption ==
    /\ NoFacts \notin Facts /\ NoAnswer \notin Insighter!Answer
    /\ Other \notin Ticker

\* The areas of a split: one without a share is left out.
AreasOf(f) == {a \in Area : f.split[a] > 0}

\* The order of splitClasses.
First(areas) == IF "fii" \in areas THEN "fii" ELSE "fixed_income"

\* Faulty variant of Illustrative: what the division leaves is not given out.
IllustrativeTruncated(bps, n) == [i \in 1 .. n |-> bps \div n]

\* assignIllustrativeShares: evenly, the rest to the first ones.
Illustrative(bps, n) ==
    [i \in 1 .. n |-> bps \div n + IF i <= bps % n THEN 1 ELSE 0]

\* Faulty variant of Grounded: without the guard.
Ungrounded(result, f, withShares) ==
    [tickers |-> result,
     shares  |-> IF withShares
                 THEN Illustrative(f.split["fii"], Len(result))
                 ELSE [i \in 1 .. Len(result) |-> 0]]

\* The grounding guard: of the first n insights it keeps those that name a
\* ticker of the universe, in the order of the answer.
Kept(result, known) ==
    LET kept[n \in 0 .. Len(result)] ==
            IF n = 0 THEN << >>
            ELSE IF result[n] \in known THEN Append(kept[n - 1], result[n])
            ELSE kept[n - 1]
    IN  kept[Len(result)]

\* The candidates, and the shares if the client has asked for them.
Grounded(result, f, withShares) ==
    LET tickers == Kept(result, f.universe)
    IN  [tickers |-> tickers,
         shares  |-> IF withShares
                     THEN Illustrative(f.split["fii"], Len(tickers))
                     ELSE [i \in 1 .. Len(tickers) |-> 0]]

Nobody == [tickers |-> << >>, shares |-> << >>]

---------------------------------------------------------------------------
Init ==
    /\ universe = {}
    /\ user \in Senders
    /\ pc = [r \in Request |-> "idle"]
    /\ sent \in Bodies
    /\ base = [r \in Request |-> NoFacts]
    /\ facts = [r \in Request |-> NoFacts]
    /\ todo = [r \in Request |-> {}]
    /\ answers = [r \in Request |-> [a \in Focus |-> NoAnswer]]
    /\ named = [r \in Request |-> Nobody]
    /\ cancelled = [r \in Request |-> FALSE]
    /\ given = {}

\* A pass of ingestion stores the first quote of a ticker.
StoreQuote ==
    /\ \E t \in Ticker \ universe : universe' = universe \cup {t}
    /\ UNCHANGED <<user, pc, locals, facts, answers, cancelled, given>>

Goto(r, place) == pc' = [pc EXCEPT ![r] = place]

\* Before that it makes no difference: the read fails like any other.
Cancel(r) ==
    /\ pc[r] = "asking"
    /\ ~cancelled[r]
    /\ cancelled' = [cancelled EXCEPT ![r] = TRUE]
    /\ UNCHANGED <<universe, user, pc, locals, facts, answers, given>>

\* postRebalancing has decoded the body.
Begin(r) ==
    /\ pc[r] = "idle"
    /\ Goto(r, "base")
    /\ UNCHANGED <<universe, user, locals, facts, answers, cancelled,
                   given>>

ReadBase(r) ==
    /\ pc[r] = "base"
    /\ \E b \in Base : base' = [base EXCEPT ![r] = b]
    /\ Goto(r, "universe")
    /\ UNCHANGED <<universe, user, sent, facts, todo, answers, named,
                   cancelled, given>>

ReadUniverse(r) ==
    /\ pc[r] = "universe"
    /\ LET f == assembleFacts(base[r], sent[r].contribution, universe)
       IN  /\ facts' = [facts EXCEPT ![r] = f]
           /\ todo' = [todo EXCEPT ![r] = AreasOf(f)]
    /\ Goto(r, "asking")
    /\ UNCHANGED <<universe, user, sent, base, answers, named,
                   cancelled, given>>

\* A statement fails, for whatever reason: the client is answered 500.
ReadFails(r) ==
    /\ pc[r] \in {"base", "universe"}
    /\ Goto(r, "failed")
    /\ UNCHANGED <<universe, user, locals, facts, answers, cancelled,
                   given>>

Asks(r, a) ==
    /\ pc[r] = "asking"
    /\ a = IF todo[r] # {} THEN First(todo[r]) ELSE "candidates"

\* What the Insighter answers about a: of an area only the first insight is
\* looked at, and its title is not.
Answered(r, a) ==
    /\ Insighter!Fresh(r, a) \/ Insighter!Again(r, a)
    /\ a \in Area => answers'[r][a].text \in {<< >>, <<Other>>}

\* buildAreas: an answer without insights leaves the area out of the response.
ExplainArea(r, a) ==
    /\ a \in Area
    /\ Asks(r, a)
    /\ Answered(r, a)
    /\ todo' = [todo EXCEPT ![r] = @ \ {a}]
    /\ UNCHANGED <<universe, pc, sent, base, named, cancelled>>

\* buildCandidates.
NameCandidates(r) ==
    /\ Asks(r, "candidates")
    /\ Answered(r, "candidates")
    /\ named' = [named EXCEPT ![r] =
          Grounded(answers'[r]["candidates"].text, facts[r],
                   sent[r].withShares)]
    /\ Goto(r, "done")
    /\ UNCHANGED <<universe, sent, base, todo, cancelled>>

\* Faulty variant of Degrade: the guidance is tried again from the universe.
DegradeRetried(r, a) ==
    /\ Asks(r, a)
    /\ ~cancelled[r]
    /\ Goto(r, "universe")
    /\ UNCHANGED <<universe, user, locals, facts, answers, cancelled, given>>

\* The Insighter fails, or the gates reject: the area, or the candidates, are
\* left out.
Degrade(r, a) ==
    /\ Asks(r, a)
    /\ ~cancelled[r]
    /\ todo' = [todo EXCEPT ![r] = @ \ {a}]
    /\ IF a \in Area THEN UNCHANGED pc ELSE Goto(r, "done")
    /\ UNCHANGED <<universe, user, sent, base, named, facts, answers,
                   cancelled, given>>

\* It fails because, or after, the client has gone away.
Abort(r) ==
    /\ pc[r] = "asking"
    /\ cancelled[r]
    /\ Goto(r, "aborted")
    /\ UNCHANGED <<universe, user, locals, facts, answers, cancelled,
                   given>>

---------------------------------------------------------------------------
Ask(r) == NameCandidates(r) \/ Abort(r)
          \/ \E a \in Focus : ExplainArea(r, a) \/ Degrade(r, a)

Step(r) == ReadBase(r) \/ ReadUniverse(r) \/ ReadFails(r) \/ Ask(r)

Next ==
    \/ StoreQuote
    \/ \E r \in Request : Begin(r) \/ Cancel(r) \/ Step(r)

Spec == Init /\ [][Next]_vars

\* Statements and calls of the Insighter end, each within its timeout.
FairSpec == Spec /\ \A r \in Request : WF_vars(Step(r))

---------------------------------------------------------------------------
TypeOK ==
    /\ universe \in SUBSET Ticker
    /\ user \in [Request -> User]
    /\ pc \in [Request -> {"idle", "base", "universe", "asking", "done",
                           "failed", "aborted"}]
    /\ sent \in [Request -> Body]
    /\ base \in [Request -> Base \cup {NoFacts}]
    /\ facts \in [Request -> Facts \cup {NoFacts}]
    /\ todo \in [Request -> SUBSET Area]
    /\ answers \in [Request -> [Focus -> Insighter!Answer \cup {NoAnswer}]]
    /\ \A r \in Request :
          /\ named[r].tickers \in Seq(Ticker)
          /\ named[r].shares \in [DOMAIN named[r].tickers -> Nat]
    /\ cancelled \in [Request -> BOOLEAN]
    /\ given \in SUBSET [answer : Insighter!Answer, at : Nat]

\* toRebalancingResponse: the areas with an explanation, and the candidates
\* inside the area of FIIs.
ShownAreas(r) ==
    {a \in Area : answers[r][a] # NoAnswer /\ answers[r][a].text # << >>}

ShownCandidates(r) == IF "fii" \in ShownAreas(r) THEN named[r] ELSE Nobody

(***************************************************************************)
(* Every text a client is shown was given by the model to a question of    *)
(* this user that told it the very contribution the client sent and the    *)
(* very split its numbers are shown from, although the cache hands out     *)
(* answers to earlier questions (assembleFacts, withFocus, cacheKey).      *)
(***************************************************************************)
ToldTheNumbers ==
    \A r \in Request, a \in Focus :
        answers[r][a] # NoAnswer =>
            LET q == answers[r][a].question
            IN  /\ q.user = user[r] /\ q.category = a
                /\ q.facts.contribution = sent[r].contribution
                /\ q.facts.split = Shares[base[r]][sent[r].contribution]
                /\ a \in Area => q.facts.split[a] > 0

(***************************************************************************)
(* A candidate the client is shown has a quote, which the model was told   *)
(* of, and if the client asked for shares they are those of the area of    *)
(* FIIs, given out to the last basis point and as evenly as that allows    *)
(* (buildCandidates, assignIllustrativeShares).                            *)
(***************************************************************************)
CandidatesGrounded ==
    \A r \in Request :
        LET shown == ShownCandidates(r)
            bps   == facts[r].split["fii"]
            n     == Len(shown.tickers)
        IN  n > 0 =>
              /\ \A i \in 1 .. n :
                    shown.tickers[i] \in universe \cap facts[r].universe
              /\ sent[r].withShares =>
                    /\ SumFunction(shown.shares) = bps
                    /\ \A i, j \in 1 .. n :
                          shown.shares[i] <= shown.shares[j] + 1

(***************************************************************************)
(* Every request for guidance ends, however often the model fails, and one *)
(* whose client has stayed ends with a response (buildAreas goes on to the *)
(* next area; engine.go:119).                                              *)
(***************************************************************************)
GuidanceReturns ==
    \A r \in Request :
        pc[r] = "base" ~> \/ pc[r] \in {"done", "failed"}
                          \/ pc[r] = "aborted" /\ cancelled[r]
=============================================================================
