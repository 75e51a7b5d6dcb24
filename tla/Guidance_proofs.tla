-------------------------- MODULE Guidance_proofs --------------------------
(***************************************************************************)
(* Proof that nobody is told about other numbers than the own, and nobody  *)
(* shown a candidate that is not in the universe or a share that is not    *)
(* the area's, for any requests, users, facts, contributions, splits and   *)
(* answers.                                                                *)
(***************************************************************************)
EXTENDS Guidance, Money_proofs

---------------------------------------------------------------------------
(***************************************************************************)
(* What the grounding guard leaves, and the shares given out.              *)
(***************************************************************************)
\* The recursion of Kept, and its solution.
KeptBy(result, known, kept) ==
    [n \in 0 .. Len(result) |->
        IF n = 0 THEN << >>
        ELSE IF result[n] \in known THEN Append(kept[n - 1], result[n])
        ELSE kept[n - 1]]
KeptSoFar(result, known) == CHOOSE kept : kept = KeptBy(result, known, kept)

LEMMA KeptIsLast ==
    ASSUME NEW result, NEW known
    PROVE  Kept(result, known) = KeptSoFar(result, known)[Len(result)]
  BY Zenon DEF Kept, KeptSoFar, KeptBy

\* It has one: of the first insights, however many, it has.
LEMMA KeptSolved ==
    ASSUME NEW S, NEW result \in Seq(S), NEW known
    PROVE  KeptSoFar(result, known) = KeptBy(result, known, KeptSoFar(result, known))
<1> DEFINE Then(x, n) == IF result[n] \in known THEN Append(x, result[n]) ELSE x
           Upto(m, kept) == [n \in 0 .. m |-> IF n = 0 THEN << >>
                                              ELSE Then(kept[n - 1], n)]
           Good(m) == \E kept : kept = Upto(m, kept)
<1> HIDE DEF Then
<1>1. Good(0)
  <2> DEFINE none == [n \in 0 .. 0 |-> << >>]
  <2>1. none = Upto(0, none)
    OBVIOUS
  <2> QED
    BY <2>1
<1>2. ASSUME NEW m \in Nat, Good(m) PROVE Good(m + 1)
  <2>1. PICK kept : kept = Upto(m, kept)
    BY <1>2
  <2>2. /\ \A n \in 0 .. m : kept[n] = IF n = 0 THEN << >> ELSE Then(kept[n - 1], n)
        /\ \A n \in 1 .. m + 1 : n - 1 \in 0 .. m
    BY <2>1
  <2> DEFINE more == [n \in 0 .. m + 1 |->
                         IF n \in 0 .. m THEN kept[n] ELSE Then(kept[m], n)]
  <2>3. \A n \in 0 .. m : more[n] = kept[n]
    OBVIOUS
  <2>4. more[m + 1] = Then(kept[m], m + 1)
    OBVIOUS
  <2> HIDE DEF more
  <2>5. ASSUME NEW n \in 0 .. m + 1
        PROVE  more[n] = IF n = 0 THEN << >> ELSE Then(more[n - 1], n)
    <3>1. CASE n \in 0 .. m
      <4>1. n # 0 => n - 1 \in 0 .. m
        BY <3>1
      <4> QED
        BY <2>2, <2>3, <3>1, <4>1
    <3>2. CASE n = m + 1
      <4>1. m \in 0 .. m /\ n - 1 = m /\ n # 0
        BY <3>2
      <4> QED
        BY <2>3, <2>4, <3>2, <4>1
    <3> QED
      BY <3>1, <3>2
  <2>6. more = Upto(m + 1, more)
    <3>1. more = [n \in 0 .. m + 1 |-> more[n]]
      BY DEF more
    <3> QED
      BY <2>5, <3>1
  <2> QED
    BY <2>6
<1> HIDE DEF Good
<1>3. ASSUME NEW m \in Nat, ~Good(m) PROVE FALSE
  <2> DEFINE Bad == {n \in Nat : ~Good(n)}
  <2>1. PICK n \in Bad : \A k \in Bad : n <= k
    <3>1. Bad \in SUBSET Nat /\ Bad # {}
      BY <1>3
    <3> QED
      BY <3>1, LeastNumber
  <2>2. n \in Nat /\ n # 0
    BY <1>1, <2>1
  <2>3. n - 1 \in Nat /\ n - 1 \notin Bad /\ (n - 1) + 1 = n
    BY <2>1, <2>2
  <2>4. Good((n - 1) + 1)
    BY <1>2, <2>3
  <2> QED
    BY <2>1, <2>3, <2>4
<1>4. Good(Len(result))
  BY <1>3
<1>5. PICK kept : kept = Upto(Len(result), kept)
  BY <1>4 DEF Good
<1>6. kept = KeptBy(result, known, kept)
  BY <1>5 DEF KeptBy, Then
<1> QED
  BY <1>6 DEF KeptSoFar

\* Only known tickers get past the guard.
LEMMA KeptKnown ==
    ASSUME NEW S, NEW result \in Seq(S), NEW known
    PROVE  Kept(result, known) \in Seq(known)
<1> DEFINE kept == KeptSoFar(result, known)
           Bad == {n \in 0 .. Len(result) : kept[n] \notin Seq(known)}
<1>1. kept = KeptBy(result, known, kept)
  BY KeptSolved
<1> HIDE DEF kept
<1>2. ASSUME NEW n \in 0 .. Len(result)
      PROVE  kept[n] = IF n = 0 THEN << >>
                       ELSE IF result[n] \in known
                            THEN Append(kept[n - 1], result[n])
                       ELSE kept[n - 1]
  BY <1>1 DEF KeptBy
<1>3. ASSUME Bad # {} PROVE FALSE
  <2>1. PICK n \in Bad : \A k \in Bad : n <= k
    <3>1. Bad \in SUBSET Nat
      OBVIOUS
    <3> QED
      BY <1>3, <3>1, LeastNumber
  <2>2. n \in 0 .. Len(result) /\ kept[n] \notin Seq(known)
    BY <2>1
  <2>3. n # 0
    <3>1. << >> \in Seq(known)
      OBVIOUS
    <3> QED
      BY <1>2, <2>2, <3>1
  <2>4. n - 1 \in 0 .. Len(result) /\ ~(n <= n - 1)
    BY <2>2, <2>3
  <2>5. kept[n - 1] \in Seq(known)
    BY <2>1, <2>4
  <2>6. result[n] \in known => Append(kept[n - 1], result[n]) \in Seq(known)
    BY <2>5
  <2> QED
    BY <1>2, <2>2, <2>3, <2>5, <2>6
<1>4. Len(result) \in 0 .. Len(result)
  OBVIOUS
<1> QED
  BY <1>3, <1>4, KeptIsLast DEF kept

\* The shares of n candidates are those of the area, to the last basis point.
LEMMA IllustrativeSum ==
    ASSUME NEW bps \in Nat, NEW n \in Nat, n > 0
    PROVE  SumFunction(Illustrative(bps, n)) = bps
<1> DEFINE D == 1 .. n
           q == bps \div n
           rest == bps % n
           f == Illustrative(bps, n)
           Given(k) == k * q + (IF k <= rest THEN k ELSE rest)
           Bad == {k \in 0 .. n : SumOn(f, 1 .. k) # Given(k)}
<1>1. q \in Nat /\ rest \in Nat /\ rest < n /\ bps = n * q + rest
  OBVIOUS
<1>2. \A i \in D : f[i] = q + IF i <= rest THEN 1 ELSE 0
  BY DEF Illustrative
<1>3. f \in [D -> Int]
  BY <1>1 DEF Illustrative
<1> HIDE DEF q, rest, f
<1>4. /\ SumFunction(f) = SumOn(f, 1 .. n) /\ SumOn(f, 1 .. 0) = 0
      /\ ByOne(f, D)
  BY <1>3, SumUpTo
<1>5. \A k \in D : SumOn(f, 1 .. k) = f[k] + SumOn(f, 1 .. (k - 1))
  BY <1>4 DEF ByOne
<1>6. ASSUME Bad # {} PROVE FALSE
  <2>1. PICK k \in Bad : \A j \in Bad : k <= j
    <3>1. Bad \in SUBSET Nat
      OBVIOUS
    <3> QED
      BY <1>6, <3>1, LeastNumber
  <2>2. k \in 0 .. n /\ SumOn(f, 1 .. k) # Given(k)
    BY <2>1
  <2>3. k # 0
    <3>1. Given(0) = 0
      BY <1>1
    <3> QED
      BY <1>4, <2>2, <3>1
  <2>4. k \in D /\ k - 1 \in 0 .. n /\ ~(k <= k - 1)
    BY <2>2, <2>3
  <2>5. SumOn(f, 1 .. (k - 1)) = Given(k - 1)
    BY <2>1, <2>4
  <2>6. Given(k) = f[k] + Given(k - 1)
    <3>1. k * q = q + (k - 1) * q /\ k * q \in Nat /\ (k - 1) * q \in Nat
      BY <1>1, <2>4
    <3>2. f[k] = q + IF k <= rest THEN 1 ELSE 0
      BY <1>2, <2>4
    <3>3. CASE k <= rest
      BY <1>1, <2>4, <3>1, <3>2, <3>3
    <3>4. CASE ~(k <= rest)
      BY <1>1, <2>4, <3>1, <3>2, <3>4
    <3> QED
      BY <3>3, <3>4
  <2> QED
    BY <1>5, <2>2, <2>4, <2>5, <2>6
<1>7. SumOn(f, 1 .. n) = Given(n)
  BY <1>6
<1>8. Given(n) = bps
  BY <1>1
<1> QED
  BY <1>4, <1>7, <1>8 DEF f

\* No share is more than one basis point above another.
LEMMA IllustrativeEven ==
    ASSUME NEW bps \in Nat, NEW n \in Nat, n > 0
    PROVE  \A i, j \in 1 .. n :
              Illustrative(bps, n)[i] <= Illustrative(bps, n)[j] + 1
<1> DEFINE q == bps \div n
<1>1. q \in Nat
  OBVIOUS
<1>2. \A i \in 1 .. n :
         Illustrative(bps, n)[i] = q + IF i <= bps % n THEN 1 ELSE 0
  BY DEF Illustrative
<1> HIDE DEF q
<1>3. \A i \in 1 .. n : Illustrative(bps, n)[i] \in {q, q + 1}
  BY <1>1, <1>2
<1> QED
  BY <1>1, <1>3

---------------------------------------------------------------------------
(***************************************************************************)
(* The inductive invariant.                                                *)
(***************************************************************************)
\* TypeOK but for the candidates, whose type follows from NamedGrounded.
Typed ==
    /\ user \in [Request -> User]
    /\ pc \in [Request -> {"idle", "base", "universe", "asking", "done",
                           "failed", "aborted"}]
    /\ sent \in [Request -> Body]
    /\ universe \in SUBSET Ticker
    /\ base \in [Request -> Base \cup {NoFacts}]
    /\ facts \in [Request -> Facts \cup {NoFacts}]
    /\ todo \in [Request -> SUBSET Area]
    /\ answers \in [Request -> [Focus -> Insighter!Answer \cup {NoAnswer}]]
    /\ DOMAIN named = Request
    /\ cancelled \in [Request -> BOOLEAN]
    /\ given \in SUBSET [answer : Insighter!Answer, at : Nat]

\* Until the facts are assembled there is nothing to be asked, or answered.
NothingYet ==
    \A r \in Request :
        pc[r] \in {"idle", "base", "universe"} =>
            /\ facts[r] = NoFacts
            /\ \A a \in Focus : answers[r][a] = NoAnswer

BaseRead == \A r \in Request : pc[r] = "universe" => base[r] \in Base

\* The facts of a request stay what they were assembled from.
FactsAssembled ==
    \A r \in Request :
        facts[r] # NoFacts =>
            facts[r] = assembleFacts(base[r], sent[r].contribution,
                                     facts[r].universe)

\* The areas still to be asked about have a share.
TodoHasShare ==
    \A r \in Request : \A a \in todo[r] :
        facts[r] # NoFacts => facts[r].split[a] > 0

\* What the model was told of the universe is still there: it only grows.
ToldUniverse ==
    \A r \in Request :
        facts[r] # NoFacts => facts[r].universe \subseteq universe

\* The candidates of a request that is done, if any, are what the guard left of
\* an answer to it.
NamedGrounded ==
    \A r \in Request :
        \/ named[r] = Nobody
        \/ /\ pc[r] = "done" /\ facts[r] \in Facts
           /\ \E result \in Result :
                 named[r] = Grounded(result, facts[r], sent[r].withShares)

IndInv ==
    Typed /\ NothingYet /\ BaseRead /\ FactsAssembled /\ TodoHasShare
    /\ ToldTheNumbers /\ ToldUniverse /\ NamedGrounded

\* Before any request has begun the invariant holds.
LEMMA Initially == Init => IndInv
  BY SendersAssumption, BodiesAssumption
  DEF Init, IndInv, Typed, NothingYet, BaseRead, FactsAssembled,
      TodoHasShare, ToldTheNumbers, Focus, Area, ToldUniverse, NamedGrounded

\* What ReadUniverse assembles are facts.
LEMMA Assembles ==
    ASSUME NEW b \in Base, NEW c \in Contribution, NEW known \in SUBSET Ticker
    PROVE  /\ assembleFacts(b, c, known) \in Facts
           /\ assembleFacts(b, c, known).universe = known
           /\ assembleFacts(b, c, known).contribution = c
           /\ assembleFacts(b, c, known).split = Shares[b][c]
  BY SharesAssumption DEF assembleFacts, Facts

\* An answer, new or given again, is one to the question that was asked.
LEMMA AnswerIsOwn ==
    ASSUME IndInv, NEW r \in Request, NEW c \in Focus,
           Insighter!Fresh(r, c) \/ Insighter!Again(r, c)
    PROVE  /\ facts[r] \in Facts
           /\ \E a \in Insighter!Answer :
                 /\ a.question = [user |-> user[r], category |-> c,
                                  facts |-> facts[r]]
                 /\ answers' = [answers EXCEPT ![r][c] = a]
           /\ UNCHANGED <<user, facts>>
           /\ given' \in SUBSET [answer : Insighter!Answer, at : Nat]
<1> USE DEF IndInv, Typed
<1>1. /\ facts[r] \in Facts
      /\ user[r] \in User
      /\ UNCHANGED <<user, facts>>
  BY DEF Insighter!Fresh, Insighter!Again, Insighter!AnswerWith
<1>2. CASE Insighter!Fresh(r, c)
  <2> DEFINE Q == Insighter!QuestionOf(r, c)
  <2>1. Q \in Insighter!Question /\ Q = [user |-> user[r], category |-> c,
                                         facts |-> facts[r]]
    BY <1>1 DEF Insighter!QuestionOf, Insighter!Question
  <2>2. PICK t \in Result :
          /\ Insighter!AnswerWith(r, c, [question |-> Q, text |-> t])
          /\ given' = given \cup
                {[answer |-> [question |-> Q, text |-> t], at |-> 0]}
    BY <1>2 DEF Insighter!Fresh
  <2> DEFINE a == [question |-> Q, text |-> t]
  <2> HIDE DEF Q
  <2>3. a \in Insighter!Answer /\ a.question = Q
    BY <2>1, <2>2 DEF Insighter!Answer
  <2> HIDE DEF a
  <2>4. answers' = [answers EXCEPT ![r][c] = a]
    BY <2>2 DEF Insighter!AnswerWith, a
  <2>5. given' = given \cup {[answer |-> a, at |-> 0]}
    BY <2>2 DEF a
  <2>6. given' \in SUBSET [answer : Insighter!Answer, at : Nat]
    BY <2>3, <2>5
  <2>7. a.question = [user |-> user[r], category |-> c, facts |-> facts[r]]
    BY <2>1, <2>3
  <2> QED
    BY <1>1, <2>3, <2>4, <2>6, <2>7
<1>3. CASE Insighter!Again(r, c)
  <2>1. PICK g \in given :
          /\ Insighter!AnswerWith(r, c, g.answer)
          /\ given' = given
    BY <1>3 DEF Insighter!Again
  <2>2. g.answer \in Insighter!Answer
    BY <2>1
  <2> QED
    BY <1>1, <2>1, <2>2 DEF Insighter!AnswerWith, Insighter!QuestionOf
<1> QED
  BY <1>2, <1>3

\* Telling a request an answer of its own keeps the invariant.
LEMMA AnswerKeeps ==
    ASSUME IndInv, NEW r \in Request, NEW c \in Focus,
           Asks(r, c), Answered(r, c),
           UNCHANGED <<sent, base, universe, cancelled>>, NamedGrounded',
           DOMAIN named' = Request,
           c \in Area => c \in todo[r],
           pc' \in [Request -> {"idle", "base", "universe", "asking", "done",
                                "failed", "aborted"}],
           \A q \in Request : q # r => pc'[q] = pc[q] /\ todo'[q] = todo[q],
           pc'[r] \in {"asking", "done"},
           todo' \in [Request -> SUBSET Area], todo'[r] \subseteq todo[r]
    PROVE  IndInv'
<1>1. PICK a \in Insighter!Answer :
        /\ facts[r] \in Facts
        /\ a.question = [user |-> user[r], category |-> c, facts |-> facts[r]]
        /\ answers' = [answers EXCEPT ![r][c] = a]
        /\ UNCHANGED <<user, facts>>
        /\ given' \in SUBSET [answer : Insighter!Answer, at : Nat]
  BY AnswerIsOwn DEF Answered
<1> USE DEF IndInv, Typed
<1>2. facts[r] # NoFacts /\ a # NoAnswer
  BY <1>1, NothingAssumption
<1>3. Typed'
  BY <1>1
<1>4. NothingYet' /\ BaseRead' /\ FactsAssembled' /\ TodoHasShare'
  BY <1>1, <1>2 DEF NothingYet, BaseRead, FactsAssembled, TodoHasShare, Asks
<1>5. ASSUME NEW q \in Request, NEW f \in Focus, answers'[q][f] # NoAnswer,
             <<q, f>> # <<r, c>>
      PROVE  answers'[q][f] = answers[q][f]
  BY <1>1, <1>5
<1>6. answers'[r][c] = a
  BY <1>1
<1>7. /\ facts[r].contribution = sent[r].contribution
      /\ facts[r].split = Shares[base[r]][sent[r].contribution]
      /\ c \in Area => facts[r].split[c] > 0
  BY <1>2 DEF FactsAssembled, assembleFacts, TodoHasShare
<1>8. ToldTheNumbers'
  <2> SUFFICES ASSUME NEW q \in Request, NEW f \in Focus,
                      answers'[q][f] # NoAnswer
               PROVE  LET asked == answers'[q][f].question
                      IN  /\ asked.user = user'[q] /\ asked.category = f
                          /\ asked.facts.contribution = sent'[q].contribution
                          /\ asked.facts.split =
                                Shares[base'[q]][sent'[q].contribution]
                          /\ f \in Area => asked.facts.split[f] > 0
    BY DEF ToldTheNumbers
  <2>1. CASE <<q, f>> = <<r, c>>
    BY <1>1, <1>6, <1>7, <2>1
  <2>2. CASE <<q, f>> # <<r, c>>
    BY <1>1, <1>5, <2>2 DEF ToldTheNumbers
  <2> QED
    BY <2>1, <2>2
<1>9. ToldUniverse'
  BY <1>1 DEF ToldUniverse
<1> QED
  BY <1>3, <1>4, <1>8, <1>9

\* What an answer to a request tells it, as its candidates.
LEMMA NamesGrounded ==
    ASSUME IndInv, NEW r \in Request, NameCandidates(r) PROVE NamedGrounded'
<1> DEFINE c == "candidates"
<1>1. /\ c \in Focus
      /\ Insighter!Fresh(r, c) \/ Insighter!Again(r, c)
      /\ named' = [named EXCEPT ![r] =
              Grounded(answers'[r][c].text, facts[r], sent[r].withShares)]
      /\ pc' = [pc EXCEPT ![r] = "done"]
      /\ UNCHANGED sent
  BY DEF NameCandidates, Answered, Goto, Focus
<1> HIDE DEF c
<1>2. PICK a \in Insighter!Answer :
        /\ facts[r] \in Facts
        /\ answers' = [answers EXCEPT ![r][c] = a]
        /\ UNCHANGED facts
  BY <1>1, AnswerIsOwn
<1>3. answers'[r][c] = a
  BY <1>1, <1>2 DEF IndInv, Typed
<1>4. a.text \in Result
  BY DEF Insighter!Answer
<1>5. pc' \in [Request -> {"idle", "base", "universe", "asking", "done",
                           "failed", "aborted"}]
  BY <1>1 DEF IndInv, Typed
<1>6. ASSUME NEW q \in Request, named'[q] # Nobody
      PROVE  /\ pc'[q] = "done" /\ facts'[q] \in Facts
             /\ \E result \in Result :
                   named'[q] = Grounded(result, facts'[q], sent'[q].withShares)
  <2>1. CASE q = r
    <3>1. pc'[r] = "done"
      BY <1>1 DEF IndInv, Typed
    <3>2. named'[r] = Grounded(a.text, facts[r], sent[r].withShares)
      BY <1>1, <1>3 DEF IndInv, Typed
    <3> QED
      BY <1>1, <1>2, <1>4, <2>1, <3>1, <3>2
  <2>2. CASE q # r
    <3>1. named'[q] = named[q] /\ pc'[q] = pc[q]
      BY <1>1, <2>2 DEF IndInv, Typed
    <3> QED
      BY <1>1, <1>2, <1>6, <3>1 DEF IndInv, NamedGrounded
  <2> QED
    BY <2>1, <2>2
<1> QED
  BY <1>6 DEF NamedGrounded

\* The invariant is inductive.
LEMMA StepKeeps == IndInv /\ [Next]_vars => IndInv'
<1> SUFFICES ASSUME IndInv, [Next]_vars PROVE IndInv'
  OBVIOUS
<1>1. ASSUME NEW r \in Request, NEW a \in Focus, ExplainArea(r, a)
      PROVE  IndInv'
  <2>1. a \in todo[r] /\ pc[r] = "asking"
    <3>1. /\ a \in Area /\ pc[r] = "asking" /\ todo[r] \subseteq Area
          /\ a = IF todo[r] # {} THEN First(todo[r]) ELSE "candidates"
      BY <1>1 DEF ExplainArea, Asks, IndInv, Typed
    <3> QED
      BY <3>1 DEF First, Area
  <2>2. /\ Asks(r, a) /\ Answered(r, a)
        /\ todo' = [todo EXCEPT ![r] = @ \ {a}]
        /\ UNCHANGED <<universe, pc, sent, base, named, cancelled>>
    BY <1>1 DEF ExplainArea
  <2>3. /\ pc \in [Request -> {"idle", "base", "universe", "asking", "done",
                                "failed", "aborted"}]
        /\ todo \in [Request -> SUBSET Area]
    BY DEF IndInv, Typed
  <2>4. UNCHANGED facts
    BY <2>2, AnswerIsOwn DEF Answered
  <2>5. NamedGrounded' /\ DOMAIN named' = Request
    BY <2>2, <2>4 DEF IndInv, NamedGrounded, Typed
  <2> QED
    BY <2>1, <2>2, <2>3, <2>5, AnswerKeeps
<1>2. ASSUME NEW r \in Request, NameCandidates(r) PROVE IndInv'
  <2>1. "candidates" \in Focus \ Area
    BY DEF Focus, Area
  <2>2. /\ Asks(r, "candidates") /\ Answered(r, "candidates")
        /\ pc' = [pc EXCEPT ![r] = "done"] /\ DOMAIN named' = Request
        /\ UNCHANGED <<universe, todo, sent, base, cancelled>>
    BY <1>2 DEF NameCandidates, Goto, IndInv, Typed
  <2>3. /\ pc \in [Request -> {"idle", "base", "universe", "asking", "done",
                                "failed", "aborted"}]
        /\ todo \in [Request -> SUBSET Area]
    BY DEF IndInv, Typed
  <2>4. NamedGrounded'
    BY <1>2, NamesGrounded
  <2> QED
    BY <2>1, <2>2, <2>3, <2>4, AnswerKeeps
<1>4. ASSUME NEW r \in Request, Begin(r) \/ ReadFails(r) \/ Abort(r)
                                \/ Cancel(r)
      PROVE  IndInv'
  <2>1. /\ UNCHANGED <<universe, user, sent, base, todo, named, facts, answers,
                       given>>
        /\ \/ UNCHANGED cancelled
           \/ cancelled' = [cancelled EXCEPT ![r] = TRUE]
    BY <1>4 DEF Begin, ReadFails, Abort, Cancel, locals
  <2>2. \/ UNCHANGED pc
        \/ pc[r] = "idle" /\ pc' = [pc EXCEPT ![r] = "base"]
        \/ /\ pc[r] \in {"base", "universe"}
           /\ pc' = [pc EXCEPT ![r] = "failed"]
        \/ pc[r] = "asking" /\ pc' = [pc EXCEPT ![r] = "aborted"]
    BY <1>4 DEF Begin, ReadFails, Abort, Cancel, Goto
  <2>3. pc \in [Request -> {"idle", "base", "universe", "asking", "done",
                            "failed", "aborted"}]
    BY DEF IndInv, Typed
  <2>4. ASSUME NEW q \in Request
        PROVE  /\ pc'[q] \in {"idle", "base", "universe"} =>
                      pc[q] \in {"idle", "base", "universe"}
               /\ pc'[q] = "universe" => pc[q] = "universe"
               /\ pc[q] = "done" => pc'[q] = "done"
    BY <2>2, <2>3
  <2>5. pc' \in [Request -> {"idle", "base", "universe", "asking", "done",
                             "failed", "aborted"}]
    BY <2>2, <2>3
  <2>6. cancelled' \in [Request -> BOOLEAN]
    BY <2>1 DEF IndInv, Typed
  <2>7. Typed'
    BY <2>1, <2>5, <2>6 DEF IndInv, Typed
  <2>8. NothingYet'
    BY <2>1, <2>4 DEF IndInv, NothingYet
  <2>9. BaseRead'
    BY <2>1, <2>4 DEF IndInv, BaseRead
  <2>10. FactsAssembled' /\ TodoHasShare'
    BY <2>1 DEF IndInv, FactsAssembled, TodoHasShare
  <2>11. ToldTheNumbers' /\ ToldUniverse'
    BY <2>1 DEF IndInv, ToldTheNumbers, ToldUniverse
  <2>12. NamedGrounded'
    BY <2>1, <2>4 DEF IndInv, NamedGrounded
  <2> QED
    BY <2>7, <2>8, <2>9, <2>10, <2>11, <2>12 DEF IndInv
<1> USE DEF IndInv, Typed, NothingYet, BaseRead, FactsAssembled,
            TodoHasShare, ToldTheNumbers, ToldUniverse, NamedGrounded, locals,
            Goto
<1>3. CASE StoreQuote
  BY <1>3 DEF StoreQuote
<1>5. ASSUME NEW r \in Request, ReadBase(r) PROVE IndInv'
  BY <1>5 DEF ReadBase
<1>6. ASSUME NEW r \in Request, ReadUniverse(r) PROVE IndInv'
  <2> DEFINE f == assembleFacts(base[r], sent[r].contribution, universe)
  <2>1. sent[r].contribution \in Contribution /\ base[r] \in Base
    BY <1>6 DEF ReadUniverse, Body
  <2>2. f \in Facts /\ f.universe = universe
    BY <2>1, Assembles
  <2>5. f = assembleFacts(base[r], sent[r].contribution, f.universe)
    BY <2>2
  <2> HIDE DEF f
  <2>3. /\ facts' = [facts EXCEPT ![r] = f]
        /\ todo' = [todo EXCEPT ![r] = AreasOf(f)]
        /\ pc[r] = "universe" /\ pc' = [pc EXCEPT ![r] = "asking"]
        /\ UNCHANGED <<universe, user, sent, base, answers, named, cancelled,
                       given>>
    BY <1>6 DEF ReadUniverse, f
  <2>4. AreasOf(f) \subseteq Area /\ \A a \in AreasOf(f) : f.split[a] > 0
    BY DEF AreasOf
  <2>6. Typed' /\ NothingYet'
    BY <2>2, <2>3, <2>4
  <2>7. f # NoFacts /\ BaseRead'
    BY <2>2, <2>3, NothingAssumption
  <2>8. FactsAssembled'
    BY <2>2, <2>3, <2>5
  <2>9. TodoHasShare'
    BY <2>3, <2>4
  <2>10. ToldTheNumbers'
    BY <2>3
  <2>11. ToldUniverse'
    BY <2>2, <2>3
  <2>12. NamedGrounded'
    BY <2>3
  <2> QED
    BY <2>6, <2>7, <2>8, <2>9, <2>10, <2>11, <2>12
<1>7. ASSUME NEW r \in Request, NEW a \in Focus, Degrade(r, a) PROVE IndInv'
  <2>1. /\ pc' = pc \/ pc' = [pc EXCEPT ![r] = "done"]
        /\ pc[r] = "asking"
        /\ todo' = [todo EXCEPT ![r] = @ \ {a}]
        /\ UNCHANGED <<universe, user, sent, base, facts, answers, named,
                       cancelled, given>>
    BY <1>7 DEF Degrade, Asks
  <2>2. Typed' /\ NothingYet' /\ BaseRead'
    BY <2>1
  <2>3. FactsAssembled' /\ TodoHasShare' /\ ToldTheNumbers' /\ ToldUniverse'
    BY <2>1
  <2>4. NamedGrounded'
    BY <2>1
  <2> QED
    BY <2>2, <2>3, <2>4
<1>8. CASE UNCHANGED vars
  BY <1>8 DEF vars
<1> QED
  BY <1>1, <1>2, <1>3, <1>4, <1>5, <1>6, <1>7, <1>8 DEF Next, Step, Ask

\* Every reachable state of the guidance satisfies the invariant.
LEMMA Inductive == Spec => []IndInv
  BY Initially, StepKeeps, PTL DEF Spec

\* Every text shown was given to a question of this user that told the model
\* this contribution and the split the numbers are shown from, whatever is
\* cached, and for any function Split.
THEOREM ToldCorrect == Spec => []ToldTheNumbers
<1>1. IndInv => ToldTheNumbers
  BY DEF IndInv
<1> QED
  BY <1>1, Inductive, PTL

\* What Grounded makes of an answer.
LEMMA GroundedIs ==
    ASSUME NEW result \in Result, NEW f \in Facts, NEW withShares \in BOOLEAN,
           NEW c, c = Grounded(result, f, withShares)
    PROVE  /\ c.tickers \in Seq(f.universe)
           /\ c.shares \in [1 .. Len(c.tickers) -> Nat]
           /\ withShares =>
                 c.shares = Illustrative(f.split["fii"], Len(c.tickers))
<1> DEFINE tickers == Kept(result, f.universe)
           n == Len(tickers)
           bps == f.split["fii"]
<1>1. tickers \in Seq(f.universe) /\ n \in Nat
  <2>1. result \in Seq(Ticker \cup {Other})
    BY ResultAssumption
  <2>2. tickers \in Seq(f.universe)
    BY <2>1, KeptKnown
  <2> QED
    BY <2>2
<1>2. bps \in Nat
  BY DEF Facts, Area
<1>3. /\ c.tickers = tickers
      /\ c.shares = IF withShares THEN Illustrative(bps, n)
                    ELSE [i \in 1 .. n |-> 0]
  BY DEF Grounded
<1> HIDE DEF tickers, bps
<1>4. Illustrative(bps, n) \in [1 .. n -> Nat]
  <2>1. ASSUME NEW i \in 1 .. n
        PROVE  bps \div n + (IF i <= bps % n THEN 1 ELSE 0) \in Nat
    BY <1>1, <1>2
  <2> QED
    BY <2>1 DEF Illustrative
<1>5. [i \in 1 .. n |-> 0] \in [1 .. n -> Nat]
  OBVIOUS
<1> QED
  BY <1>1, <1>3, <1>4, <1>5 DEF bps

\* Every variable keeps its type: no candidate is outside the FIIs, and none is
\* without its share.
THEOREM TypeCorrect == Spec => []TypeOK
<1>1. IndInv => TypeOK
  <2> SUFFICES ASSUME IndInv PROVE TypeOK
    OBVIOUS
  <2>1. ASSUME NEW r \in Request
        PROVE  /\ named[r].tickers \in Seq(Ticker)
               /\ named[r].shares \in [DOMAIN named[r].tickers -> Nat]
    <3>1. CASE named[r] = Nobody
      BY <3>1 DEF Nobody
    <3>2. CASE named[r] # Nobody
      <4>1. PICK result \in Result :
              named[r] = Grounded(result, facts[r], sent[r].withShares)
        BY <3>2 DEF IndInv, NamedGrounded
      <4>2. facts[r] \in Facts /\ sent[r].withShares \in BOOLEAN
        BY <3>2 DEF IndInv, NamedGrounded, Typed, Body
      <4> DEFINE c == named[r]
      <4>3. /\ c.tickers \in Seq(facts[r].universe)
            /\ c.shares \in [1 .. Len(c.tickers) -> Nat]
        BY <4>1, <4>2, GroundedIs
      <4>4. facts[r].universe \subseteq Ticker
        BY <4>2 DEF Facts
      <4> HIDE DEF c
      <4>5. c.tickers \in Seq(Ticker) /\ DOMAIN c.tickers = 1 .. Len(c.tickers)
        BY <4>3, <4>4
      <4> QED
        BY <4>3, <4>5 DEF c
    <3> QED
      BY <3>1, <3>2
  <2> QED
    BY <2>1 DEF IndInv, Typed, TypeOK
<1> QED
  BY <1>1, Inductive, PTL

\* Whatever the model names, a candidate shown has a quote the model was told
\* of, and the shares of any number of candidates are the area's basis points,
\* no two of them more than one apart.
THEOREM CandidatesCorrect == Spec => []CandidatesGrounded
<1>1. IndInv => CandidatesGrounded
  <2> SUFFICES ASSUME IndInv, NEW r \in Request,
                      Len(ShownCandidates(r).tickers) > 0
               PROVE  LET shown == ShownCandidates(r)
                          bps == facts[r].split["fii"]
                          n == Len(shown.tickers)
                      IN  /\ \A i \in 1 .. n :
                                shown.tickers[i] \in universe \cap facts[r].universe
                          /\ sent[r].withShares =>
                                /\ SumFunction(shown.shares) = bps
                                /\ \A i, j \in 1 .. n :
                                      shown.shares[i] <= shown.shares[j] + 1
    BY DEF CandidatesGrounded
  <2> DEFINE shown == ShownCandidates(r)
             bps == facts[r].split["fii"]
             n == Len(shown.tickers)
  <2>1. shown = named[r] /\ named[r] # Nobody
    <3>1. shown # Nobody
      BY DEF Nobody
    <3> QED
      BY <3>1 DEF ShownCandidates
  <2>2. PICK result \in Result :
          shown = Grounded(result, facts[r], sent[r].withShares)
    BY <2>1 DEF IndInv, NamedGrounded
  <2>3. facts[r] \in Facts /\ sent[r].withShares \in BOOLEAN
    BY <2>1 DEF IndInv, NamedGrounded, Typed, Body
  <2>4. facts[r].universe \subseteq universe
    BY <2>3, NothingAssumption DEF IndInv, ToldUniverse
  <2>5. bps \in Nat
    BY <2>3 DEF Facts, Area
  <2>6. /\ shown.tickers \in Seq(facts[r].universe)
        /\ sent[r].withShares => shown.shares = Illustrative(bps, n)
    BY <2>2, <2>3, GroundedIs
  <2> HIDE DEF shown, bps
  <2>7. n \in Nat /\ n > 0
    BY <2>6 DEF shown
  <2>8. \A i \in 1 .. n : shown.tickers[i] \in universe \cap facts[r].universe
    BY <2>4, <2>6
  <2>9. ASSUME sent[r].withShares PROVE SumFunction(shown.shares) = bps
    BY <2>5, <2>6, <2>7, <2>9, IllustrativeSum
  <2>10. ASSUME sent[r].withShares, NEW i \in 1 .. n, NEW j \in 1 .. n
         PROVE  shown.shares[i] <= shown.shares[j] + 1
    <3>1. shown.shares = Illustrative(bps, n)
      BY <2>6, <2>10
    <3> HIDE DEF n
    <3>2. Illustrative(bps, n)[i] <= Illustrative(bps, n)[j] + 1
      BY <2>5, <2>7, IllustrativeEven
    <3> QED
      BY <3>1, <3>2
  <2> QED
    BY <2>8, <2>9, <2>10 DEF shown, bps
<1> QED
  BY <1>1, Inductive, PTL
=============================================================================
