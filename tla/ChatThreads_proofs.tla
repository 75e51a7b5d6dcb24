------------------------- MODULE ChatThreads_proofs -------------------------
(***************************************************************************)
(* Theorems about ChatThreads, for any number of users, turns and threads, *)
(* any cap and any prior window.                                           *)
(***************************************************************************)
EXTENDS ChatThreads, FiniteSetTheorems, TLAPS

\* Every column, local variable and program point of Send stays in its range,
\* whatever the interleaving of the turns' statements.
THEOREM TypeCorrect == Spec => []TypeOK
<1>1. Init => TypeOK
  BY BoundAssumption DEF Init, TypeOK
<1>2. TypeOK /\ [Next]_vars => TypeOK'
  <2> SUFFICES ASSUME TypeOK, [Next]_vars PROVE TypeOK'
    OBVIOUS
  <2> USE TurnAssumption, BoundAssumption DEF TypeOK, Message, Running, Returned
  <2>1. CASE Tick
    BY <2>1 DEF Tick
  <2>2. ASSUME NEW r \in Turn, Begin(r) PROVE TypeOK'
    BY <2>2 DEF Begin
  <2>3. ASSUME NEW r \in Turn, GetThread(r) PROVE TypeOK'
    BY <2>3 DEF GetThread
  <2>4. ASSUME NEW r \in Turn, CreateThread(r) PROVE TypeOK'
    BY <2>4 DEF CreateThread
  <2>5. ASSUME NEW r \in Turn, EnforceCap(r) PROVE TypeOK'
    BY <2>5 DEF EnforceCap, DeleteRows, ThreadsOf
  <2>6. ASSUME NEW r \in Turn, InsertQuestion(r) PROVE TypeOK'
    BY <2>6 DEF InsertQuestion, Question
  <2>7. ASSUME NEW r \in Turn, InsertAnswer(r) PROVE TypeOK'
    BY <2>7 DEF InsertAnswer, Answer
  <2>8. ASSUME NEW r \in Turn, ThreadGone(r) PROVE TypeOK'
    BY <2>8 DEF ThreadGone
  <2>9. ASSUME NEW r \in Turn, Touch(r) PROVE TypeOK'
    BY <2>9 DEF Touch
  <2>10. ASSUME NEW r \in Turn, ReadPrior(r) PROVE TypeOK'
    BY <2>10 DEF ReadPrior, Latest
  <2>11. ASSUME NEW r \in Turn, Generate(r) PROVE TypeOK'
    BY <2>11 DEF Generate
  <2>12. ASSUME NEW r \in Turn, Degrade(r) PROVE TypeOK'
    BY <2>12 DEF Degrade
  <2>13. ASSUME NEW r \in Turn, Fail(r) PROVE TypeOK'
    BY <2>13 DEF Fail
  <2>14. ASSUME NEW u \in User, ClearThreads(u) PROVE TypeOK'
    BY <2>14 DEF ClearThreads, DeleteRows
  <2>15. ASSUME NEW u \in User, NEW t \in Turn, DeleteThread(u, t) PROVE TypeOK'
    BY <2>15 DEF DeleteThread, DeleteRows
  <2>16. CASE UNCHANGED vars
    BY <2>16 DEF vars
  <2> QED
    BY <2>1, <2>2, <2>3, <2>4, <2>5, <2>6, <2>7, <2>8, <2>9, <2>10, <2>11,
       <2>12, <2>13, <2>14, <2>15, <2>16 DEF Next, Step
<1> QED
  BY <1>1, <1>2, PTL DEF Spec


LEMMA TargetsResolvedStep ==
  ASSUME TypeOK, TargetsResolved, [Next]_vars
  PROVE  TargetsResolved'
<1> USE TurnAssumption, IdAssumption DEF TypeOK, TargetsResolved, Addressed
<1>1. CASE Tick
    BY <1>1 DEF Tick
<1>2. ASSUME NEW r \in Turn, Begin(r) PROVE TargetsResolved'
    BY <1>2 DEF Begin
<1>3. ASSUME NEW r \in Turn, GetThread(r) PROVE TargetsResolved'
    BY <1>3 DEF GetThread, ThreadsOf
<1>4. ASSUME NEW r \in Turn, CreateThread(r) PROVE TargetsResolved'
    BY <1>4 DEF CreateThread
<1>5. ASSUME NEW r \in Turn, EnforceCap(r) PROVE TargetsResolved'
    BY <1>5 DEF EnforceCap, DeleteRows, ThreadsOf
<1>6. ASSUME NEW r \in Turn, InsertQuestion(r) PROVE TargetsResolved'
    BY <1>6 DEF InsertQuestion, Question
<1>7. ASSUME NEW r \in Turn, InsertAnswer(r) PROVE TargetsResolved'
    BY <1>7 DEF InsertAnswer, Answer
<1>8. ASSUME NEW r \in Turn, ThreadGone(r) PROVE TargetsResolved'
    BY <1>8 DEF ThreadGone
<1>9. ASSUME NEW r \in Turn, Touch(r) PROVE TargetsResolved'
    BY <1>9 DEF Touch
<1>10. ASSUME NEW r \in Turn, ReadPrior(r) PROVE TargetsResolved'
    BY <1>10 DEF ReadPrior
<1>11. ASSUME NEW r \in Turn, Generate(r) PROVE TargetsResolved'
    BY <1>11 DEF Generate
<1>12. ASSUME NEW r \in Turn, Degrade(r) PROVE TargetsResolved'
    BY <1>12 DEF Degrade
<1>13. ASSUME NEW r \in Turn, Fail(r) PROVE TargetsResolved'
    BY <1>13 DEF Fail
<1>14. ASSUME NEW u \in User, ClearThreads(u) PROVE TargetsResolved'
    BY <1>14 DEF ClearThreads, DeleteRows, ThreadsOf
<1>15. ASSUME NEW u \in User, NEW t \in Turn, DeleteThread(u, t) PROVE TargetsResolved'
    BY <1>15 DEF DeleteThread, DeleteRows, ThreadsOf
<1>16. CASE UNCHANGED vars
    BY <1>16 DEF vars
<1> QED
    BY <1>1, <1>2, <1>3, <1>4, <1>5, <1>6, <1>7, <1>8, <1>9, <1>10, <1>11, <1>12,
      <1>13, <1>14, <1>15, <1>16 DEF Next, Step

LEMMA MessagesPlacedStep ==
  ASSUME TypeOK, TargetsResolved, MessagesPlaced, OnlyOwnerWrites, [Next]_vars
  PROVE  MessagesPlaced'
<1> USE TurnAssumption, IdAssumption DEF TypeOK, Message, TargetsResolved,
      MessagesPlaced, OnlyOwnerWrites, Addressed, Asked
<1>1. CASE Tick
    BY <1>1 DEF Tick
<1>2. ASSUME NEW r \in Turn, Begin(r) PROVE MessagesPlaced'
    BY <1>2 DEF Begin
<1>3. ASSUME NEW r \in Turn, GetThread(r) PROVE MessagesPlaced'
    BY <1>3 DEF GetThread, ThreadsOf
<1>4. ASSUME NEW r \in Turn, CreateThread(r) PROVE MessagesPlaced'
    BY <1>4 DEF CreateThread
<1>5. ASSUME NEW r \in Turn, EnforceCap(r) PROVE MessagesPlaced'
    BY <1>5 DEF EnforceCap, DeleteRows, ThreadsOf
<1>6. ASSUME NEW r \in Turn, InsertQuestion(r) PROVE MessagesPlaced'
    BY <1>6 DEF InsertQuestion, Question
<1>7. ASSUME NEW r \in Turn, InsertAnswer(r) PROVE MessagesPlaced'
    BY <1>7 DEF InsertAnswer, Answer
<1>8. ASSUME NEW r \in Turn, ThreadGone(r) PROVE MessagesPlaced'
    BY <1>8 DEF ThreadGone
<1>9. ASSUME NEW r \in Turn, Touch(r) PROVE MessagesPlaced'
    BY <1>9 DEF Touch
<1>10. ASSUME NEW r \in Turn, ReadPrior(r) PROVE MessagesPlaced'
    BY <1>10 DEF ReadPrior
<1>11. ASSUME NEW r \in Turn, Generate(r) PROVE MessagesPlaced'
    BY <1>11 DEF Generate
<1>12. ASSUME NEW r \in Turn, Degrade(r) PROVE MessagesPlaced'
    BY <1>12 DEF Degrade
<1>13. ASSUME NEW r \in Turn, Fail(r) PROVE MessagesPlaced'
    BY <1>13 DEF Fail
<1>14. ASSUME NEW u \in User, ClearThreads(u) PROVE MessagesPlaced'
    BY <1>14 DEF ClearThreads, DeleteRows, ThreadsOf
<1>15. ASSUME NEW u \in User, NEW t \in Turn, DeleteThread(u, t) PROVE MessagesPlaced'
    BY <1>15 DEF DeleteThread, DeleteRows, ThreadsOf
<1>16. CASE UNCHANGED vars
    BY <1>16 DEF vars
<1> QED
    BY <1>1, <1>2, <1>3, <1>4, <1>5, <1>6, <1>7, <1>8, <1>9, <1>10, <1>11, <1>12,
      <1>13, <1>14, <1>15, <1>16 DEF Next, Step

LEMMA OnlyOwnerWritesStep ==
  ASSUME TypeOK, TargetsResolved, MessagesPlaced, OnlyOwnerWrites, [Next]_vars
  PROVE  OnlyOwnerWrites'
<1> USE TurnAssumption, IdAssumption DEF TypeOK, Message, TargetsResolved,
      MessagesPlaced, OnlyOwnerWrites, Addressed, Asked
<1>1. CASE Tick
    BY <1>1 DEF Tick
<1>2. ASSUME NEW r \in Turn, Begin(r) PROVE OnlyOwnerWrites'
    BY <1>2 DEF Begin
<1>3. ASSUME NEW r \in Turn, GetThread(r) PROVE OnlyOwnerWrites'
    BY <1>3 DEF GetThread, ThreadsOf
<1>4. ASSUME NEW r \in Turn, CreateThread(r) PROVE OnlyOwnerWrites'
    BY <1>4 DEF CreateThread
<1>5. ASSUME NEW r \in Turn, EnforceCap(r) PROVE OnlyOwnerWrites'
    BY <1>5 DEF EnforceCap, DeleteRows, ThreadsOf
<1>6. ASSUME NEW r \in Turn, InsertQuestion(r) PROVE OnlyOwnerWrites'
    BY <1>6 DEF InsertQuestion, Question
<1>7. ASSUME NEW r \in Turn, InsertAnswer(r) PROVE OnlyOwnerWrites'
    BY <1>7 DEF InsertAnswer, Answer
<1>8. ASSUME NEW r \in Turn, ThreadGone(r) PROVE OnlyOwnerWrites'
    BY <1>8 DEF ThreadGone
<1>9. ASSUME NEW r \in Turn, Touch(r) PROVE OnlyOwnerWrites'
    BY <1>9 DEF Touch
<1>10. ASSUME NEW r \in Turn, ReadPrior(r) PROVE OnlyOwnerWrites'
    BY <1>10 DEF ReadPrior
<1>11. ASSUME NEW r \in Turn, Generate(r) PROVE OnlyOwnerWrites'
    BY <1>11 DEF Generate
<1>12. ASSUME NEW r \in Turn, Degrade(r) PROVE OnlyOwnerWrites'
    BY <1>12 DEF Degrade
<1>13. ASSUME NEW r \in Turn, Fail(r) PROVE OnlyOwnerWrites'
    BY <1>13 DEF Fail
<1>14. ASSUME NEW u \in User, ClearThreads(u) PROVE OnlyOwnerWrites'
    BY <1>14 DEF ClearThreads, DeleteRows, ThreadsOf
<1>15. ASSUME NEW u \in User, NEW t \in Turn, DeleteThread(u, t) PROVE OnlyOwnerWrites'
    BY <1>15 DEF DeleteThread, DeleteRows, ThreadsOf
<1>16. CASE UNCHANGED vars
    BY <1>16 DEF vars
<1> QED
    BY <1>1, <1>2, <1>3, <1>4, <1>5, <1>6, <1>7, <1>8, <1>9, <1>10, <1>11, <1>12,
      <1>13, <1>14, <1>15, <1>16 DEF Next, Step


LEMMA TurnsStoredStep ==
  ASSUME TypeOK, TargetsResolved, MessagesPlaced, OnlyOwnerWrites, TurnsStored,
    [Next]_vars
  PROVE  TurnsStored'
<1> USE TurnAssumption, IdAssumption DEF TypeOK, Message, TargetsResolved,
      MessagesPlaced, OnlyOwnerWrites, TurnsStored, Stored, Addressed, Asked
<1>1. CASE Tick
  BY <1>1 DEF Tick
<1>2. ASSUME NEW r \in Turn, Begin(r) PROVE TurnsStored'
  BY <1>2 DEF Begin
<1>3. ASSUME NEW r \in Turn, GetThread(r) PROVE TurnsStored'
  BY <1>3 DEF GetThread, ThreadsOf
<1>4. ASSUME NEW r \in Turn, CreateThread(r) PROVE TurnsStored'
  BY <1>4 DEF CreateThread
<1>5. ASSUME NEW r \in Turn, EnforceCap(r) PROVE TurnsStored'
  BY <1>5 DEF EnforceCap, DeleteRows, ThreadsOf
<1>6. ASSUME NEW r \in Turn, InsertQuestion(r) PROVE TurnsStored'
  <2>1. Question(r) \in messages' /\ messages \subseteq messages'
    BY <1>6 DEF InsertQuestion
  <2>2. /\ Question(r).turn = r /\ Question(r).role = "user"
        /\ Question(r).thread = target[r] /\ Question(r).createdAt = at[r]
    BY DEF Question
  <2>3. /\ UNCHANGED <<threads, target, at>>
        /\ pc' = [pc EXCEPT ![r] = "touchQuestion"]
    BY <1>6 DEF InsertQuestion
  <2> QED
    BY <2>1, <2>2, <2>3
<1>7. ASSUME NEW r \in Turn, InsertAnswer(r) PROVE TurnsStored'
  <2>1. Answer(r) \in messages' /\ messages \subseteq messages'
    BY <1>7 DEF InsertAnswer
  <2>2. Answer(r).turn = r /\ Answer(r).role = "assistant"
    BY DEF Answer
  <2>3. /\ UNCHANGED <<threads, target, at>>
        /\ pc[r] = "insertAnswer"
        /\ pc' = [pc EXCEPT ![r] = "touchAnswer"]
    BY <1>7 DEF InsertAnswer
  <2> QED
    BY <2>1, <2>2, <2>3
<1>8. ASSUME NEW r \in Turn, ThreadGone(r) PROVE TurnsStored'
  BY <1>8 DEF ThreadGone
<1>9. ASSUME NEW r \in Turn, Touch(r) PROVE TurnsStored'
  BY <1>9 DEF Touch
<1>10. ASSUME NEW r \in Turn, ReadPrior(r) PROVE TurnsStored'
  BY <1>10 DEF ReadPrior
<1>11. ASSUME NEW r \in Turn, Generate(r) PROVE TurnsStored'
  BY <1>11 DEF Generate
<1>12. ASSUME NEW r \in Turn, Degrade(r) PROVE TurnsStored'
  BY <1>12 DEF Degrade
<1>13. ASSUME NEW r \in Turn, Fail(r) PROVE TurnsStored'
  BY <1>13 DEF Fail
<1>14. ASSUME NEW u \in User, ClearThreads(u) PROVE TurnsStored'
  BY <1>14 DEF ClearThreads, DeleteRows, ThreadsOf
<1>15. ASSUME NEW u \in User, NEW t \in Turn, DeleteThread(u, t) PROVE TurnsStored'
  BY <1>15 DEF DeleteThread, DeleteRows, ThreadsOf
<1>16. CASE UNCHANGED vars
  BY <1>16 DEF vars
<1> QED
  BY <1>1, <1>2, <1>3, <1>4, <1>5, <1>6, <1>7, <1>8, <1>9, <1>10, <1>11, <1>12, <1>13,
    <1>14, <1>15, <1>16 DEF Next, Step

LEMMA AnswersStandWithQuestionsStep ==
  ASSUME TypeOK, TargetsResolved, MessagesPlaced, OnlyOwnerWrites, TurnsStored,
    AnswersStandWithQuestions, [Next]_vars
  PROVE  AnswersStandWithQuestions'
<1> USE TurnAssumption, IdAssumption DEF TypeOK, Message, TargetsResolved,
      MessagesPlaced, OnlyOwnerWrites, TurnsStored, AnswersStandWithQuestions,
      Addressed, Asked
<1>1. CASE Tick
  BY <1>1 DEF Tick
<1>2. ASSUME NEW r \in Turn, Begin(r) PROVE AnswersStandWithQuestions'
  BY <1>2 DEF Begin
<1>3. ASSUME NEW r \in Turn, GetThread(r) PROVE AnswersStandWithQuestions'
  BY <1>3 DEF GetThread, ThreadsOf
<1>4. ASSUME NEW r \in Turn, CreateThread(r) PROVE AnswersStandWithQuestions'
  BY <1>4 DEF CreateThread
<1>5. ASSUME NEW r \in Turn, EnforceCap(r) PROVE AnswersStandWithQuestions'
  BY <1>5 DEF EnforceCap, DeleteRows, ThreadsOf
<1>6. ASSUME NEW r \in Turn, InsertQuestion(r) PROVE AnswersStandWithQuestions'
  BY <1>6 DEF InsertQuestion, Question
<1>7. ASSUME NEW r \in Turn, InsertAnswer(r) PROVE AnswersStandWithQuestions'
  BY <1>7 DEF InsertAnswer, Answer
<1>8. ASSUME NEW r \in Turn, ThreadGone(r) PROVE AnswersStandWithQuestions'
  BY <1>8 DEF ThreadGone
<1>9. ASSUME NEW r \in Turn, Touch(r) PROVE AnswersStandWithQuestions'
  BY <1>9 DEF Touch
<1>10. ASSUME NEW r \in Turn, ReadPrior(r) PROVE AnswersStandWithQuestions'
  BY <1>10 DEF ReadPrior
<1>11. ASSUME NEW r \in Turn, Generate(r) PROVE AnswersStandWithQuestions'
  BY <1>11 DEF Generate
<1>12. ASSUME NEW r \in Turn, Degrade(r) PROVE AnswersStandWithQuestions'
  BY <1>12 DEF Degrade
<1>13. ASSUME NEW r \in Turn, Fail(r) PROVE AnswersStandWithQuestions'
  BY <1>13 DEF Fail
<1>14. ASSUME NEW u \in User, ClearThreads(u) PROVE AnswersStandWithQuestions'
  BY <1>14 DEF ClearThreads, DeleteRows, ThreadsOf
<1>15. ASSUME NEW u \in User, NEW t \in Turn, DeleteThread(u,
         t) PROVE AnswersStandWithQuestions'
  BY <1>15 DEF DeleteThread, DeleteRows, ThreadsOf
<1>16. CASE UNCHANGED vars
  BY <1>16 DEF vars
<1> QED
  BY <1>1, <1>2, <1>3, <1>4, <1>5, <1>6, <1>7, <1>8, <1>9, <1>10, <1>11, <1>12, <1>13,
    <1>14, <1>15, <1>16 DEF Next, Step

LEMMA QuestionsHeldStep ==
  ASSUME TypeOK, TargetsResolved, QuestionsHeld, [Next]_vars
  PROVE  QuestionsHeld'
<1> USE TurnAssumption, IdAssumption
    DEF TypeOK, Message, TargetsResolved, QuestionsHeld, Question, Addressed
<1>1. CASE Tick
  BY <1>1 DEF Tick
<1>2. ASSUME NEW r \in Turn, Begin(r) PROVE QuestionsHeld'
  BY <1>2 DEF Begin
<1>3. ASSUME NEW r \in Turn, GetThread(r) PROVE QuestionsHeld'
  BY <1>3 DEF GetThread, ThreadsOf
<1>4. ASSUME NEW r \in Turn, CreateThread(r) PROVE QuestionsHeld'
  BY <1>4 DEF CreateThread
<1>5. ASSUME NEW r \in Turn, EnforceCap(r) PROVE QuestionsHeld'
  BY <1>5 DEF EnforceCap, DeleteRows, ThreadsOf
<1>6. ASSUME NEW r \in Turn, InsertQuestion(r) PROVE QuestionsHeld'
  BY <1>6 DEF InsertQuestion, Question
<1>7. ASSUME NEW r \in Turn, InsertAnswer(r) PROVE QuestionsHeld'
  BY <1>7 DEF InsertAnswer, Answer
<1>8. ASSUME NEW r \in Turn, ThreadGone(r) PROVE QuestionsHeld'
  BY <1>8 DEF ThreadGone
<1>9. ASSUME NEW r \in Turn, Touch(r) PROVE QuestionsHeld'
  BY <1>9 DEF Touch
<1>10. ASSUME NEW r \in Turn, ReadPrior(r) PROVE QuestionsHeld'
  BY <1>10 DEF ReadPrior
<1>11. ASSUME NEW r \in Turn, Generate(r) PROVE QuestionsHeld'
  BY <1>11 DEF Generate
<1>12. ASSUME NEW r \in Turn, Degrade(r) PROVE QuestionsHeld'
  BY <1>12 DEF Degrade
<1>13. ASSUME NEW r \in Turn, Fail(r) PROVE QuestionsHeld'
  BY <1>13 DEF Fail
<1>14. ASSUME NEW u \in User, ClearThreads(u) PROVE QuestionsHeld'
  BY <1>14 DEF ClearThreads, DeleteRows, ThreadsOf
<1>15. ASSUME NEW u \in User, NEW t \in Turn, DeleteThread(u, t) PROVE QuestionsHeld'
  BY <1>15 DEF DeleteThread, DeleteRows, ThreadsOf
<1>16. CASE UNCHANGED vars
  BY <1>16 DEF vars
<1> QED
  BY <1>1, <1>2, <1>3, <1>4, <1>5, <1>6, <1>7, <1>8, <1>9, <1>10, <1>11, <1>12, <1>13,
    <1>14, <1>15, <1>16 DEF Next, Step

---------------------------------------------------------------------------
\* The inductive invariant, which ties the turns' local state to the rows.
THEOREM IndInvCorrect == Spec => []IndInv
<1>1. Init => IndInv
  BY BoundAssumption, IdAssumption
     DEF Init, IndInv, TypeOK, TargetsResolved, MessagesPlaced, OnlyOwnerWrites,
         TurnsStored, QuestionsHeld, AnswersStandWithQuestions, Addressed, Asked
<1>2. TypeOK /\ TypeOK' /\ IndInv /\ [Next]_vars => IndInv'
  BY TargetsResolvedStep, MessagesPlacedStep, OnlyOwnerWritesStep,
     TurnsStoredStep, QuestionsHeldStep, AnswersStandWithQuestionsStep DEF IndInv
<1> QED
  BY <1>1, <1>2, TypeCorrect, PTL DEF Spec

\* BR-1083: only a thread's owner ever writes to it.
THEOREM OnlyOwnerWritesCorrect == Spec => []OnlyOwnerWrites
<1>1. IndInv => OnlyOwnerWrites
  BY DEF IndInv
<1> QED
  BY <1>1, IndInvCorrect, PTL

\* Deletions and evictions never leave an answer without its question.
THEOREM AnswersCorrect == Spec => []AnswersStandWithQuestions
<1>1. IndInv => AnswersStandWithQuestions
  BY DEF IndInv
<1> QED
  BY <1>1, IndInvCorrect, PTL

\* What the caller was told about a turn is what the tables hold of it.
THEOREM RepliesCorrect == Spec => []RepliesMatchHistory
<1>1. IndInv => RepliesMatchHistory
  BY DEF IndInv, TypeOK, Message, TargetsResolved, MessagesPlaced, TurnsStored,
         RepliesMatchHistory, Stored, Addressed, Asked
<1> QED
  BY <1>1, IndInvCorrect, PTL

---------------------------------------------------------------------------
\* The threads of u that count against the cap.
Capped(u) == ThreadsOf(u) \ Unenforced(u)

\* A set of the user's rows is finite, so a part of it has no more members.
LEMMA CappedIsBounded ==
  ASSUME TypeOK, NEW u \in User, NEW S, S \subseteq ThreadsOf(u), NEW T, T \subseteq S,
         Cardinality(S) <= maxThreads
  PROVE  Cardinality(T) <= maxThreads
<1>1. S \in SUBSET Turn
  BY DEF TypeOK, ThreadsOf
<1>2. IsFiniteSet(S) /\ Cardinality(S) \in Nat
  BY <1>1, FS_Subset, FS_CardinalityType, TurnAssumption
<1>3. Cardinality(T) \in Nat /\ Cardinality(T) <= Cardinality(S)
  BY <1>2, FS_Subset, FS_CardinalityType
<1> QED
  BY <1>2, <1>3, BoundAssumption

\* The user's own EnforceCap keeps maxThreads rows at most.
LEMMA EnforceCapBounds ==
  ASSUME TypeOK, NEW u \in User, NEW r \in Turn, UserOf[r] = u, EnforceCap(r)
  PROVE  Cardinality(Capped(u)') <= maxThreads
<1>1. PICK kept \in Latest(ThreadsOf(u), maxThreads, updatedAt) :
        threads' = threads \ (ThreadsOf(u) \ kept)
  BY DEF EnforceCap, DeleteRows
<1>2. kept \subseteq ThreadsOf(u) /\ Cardinality(kept) <= maxThreads
  BY DEF Latest
<1>3. Capped(u)' \subseteq kept
  BY <1>1, <1>2 DEF Capped, ThreadsOf
<1> QED
  BY <1>2, <1>3, CappedIsBounded

\* Every other step leaves what counts against the cap or takes from it: the row
\* CreateThread adds counts only once its EnforceCap has run, and a turn that
\* fails before that leaves a row that does not count.
LEMMA NothingCapped ==
  ASSUME TypeOK, TargetsResolved, NEW u \in User, [Next]_vars,
         \A r \in Turn : UserOf[r] = u => ~EnforceCap(r)
  PROVE  Capped(u)' \subseteq Capped(u)
<1> USE DEF Capped, ThreadsOf, Unenforced, TypeOK, Running, TargetsResolved
<1>1. CASE Tick
  BY <1>1 DEF Tick
<1>2. ASSUME NEW r \in Turn, Begin(r) PROVE Capped(u)' \subseteq Capped(u)
  BY <1>2 DEF Begin
<1>3. ASSUME NEW r \in Turn, GetThread(r) PROVE Capped(u)' \subseteq Capped(u)
  BY <1>3 DEF GetThread
<1>4. ASSUME NEW r \in Turn, CreateThread(r) PROVE Capped(u)' \subseteq Capped(u)
  BY <1>4 DEF CreateThread
<1>5. ASSUME NEW r \in Turn, InsertQuestion(r) PROVE Capped(u)' \subseteq Capped(u)
  BY <1>5 DEF InsertQuestion
<1>6. ASSUME NEW r \in Turn, InsertAnswer(r) PROVE Capped(u)' \subseteq Capped(u)
  BY <1>6 DEF InsertAnswer
<1>7. ASSUME NEW r \in Turn, ThreadGone(r) PROVE Capped(u)' \subseteq Capped(u)
  BY <1>7 DEF ThreadGone
<1>8. ASSUME NEW r \in Turn, Touch(r) PROVE Capped(u)' \subseteq Capped(u)
  BY <1>8 DEF Touch
<1>9. ASSUME NEW r \in Turn, ReadPrior(r) PROVE Capped(u)' \subseteq Capped(u)
  BY <1>9 DEF ReadPrior
<1>10. ASSUME NEW r \in Turn, Generate(r) PROVE Capped(u)' \subseteq Capped(u)
  BY <1>10 DEF Generate
<1>11. ASSUME NEW r \in Turn, Degrade(r) PROVE Capped(u)' \subseteq Capped(u)
  BY <1>11 DEF Degrade
<1>12. ASSUME NEW r \in Turn, Fail(r) PROVE Capped(u)' \subseteq Capped(u)
  BY <1>12 DEF Fail
<1>13. ASSUME NEW r \in Turn, EnforceCap(r), UserOf[r] # u PROVE Capped(u)' \subseteq Capped(u)
  BY <1>13 DEF EnforceCap, DeleteRows
<1>14. ASSUME NEW v \in User, ClearThreads(v) \/ \E t \in Turn : DeleteThread(v, t)
       PROVE  Capped(u)' \subseteq Capped(u)
  BY <1>14 DEF ClearThreads, DeleteThread, DeleteRows
<1>15. CASE UNCHANGED vars
  BY <1>15 DEF vars
<1> QED
  BY <1>1, <1>2, <1>3, <1>4, <1>5, <1>6, <1>7, <1>8, <1>9,
     <1>10, <1>11, <1>12, <1>13, <1>14, <1>15 DEF Next, Step

LEMMA ThreadsBoundedStep ==
  ASSUME TypeOK, TargetsResolved, ThreadsBounded, [Next]_vars
  PROVE  ThreadsBounded'
<1> SUFFICES ASSUME NEW u \in User PROVE Cardinality(Capped(u)') <= maxThreads
  BY DEF ThreadsBounded, Capped
<1>1. CASE \E r \in Turn : UserOf[r] = u /\ EnforceCap(r)
  BY <1>1, EnforceCapBounds
<1>2. CASE \A r \in Turn : UserOf[r] = u => ~EnforceCap(r)
  <2>1. Capped(u)' \subseteq Capped(u)
    BY <1>2, NothingCapped
  <2>2. Capped(u) \subseteq ThreadsOf(u) /\ Cardinality(Capped(u)) <= maxThreads
    BY DEF ThreadsBounded, Capped
  <2> QED
    BY <2>1, <2>2, CappedIsBounded
<1> QED
  BY <1>1, <1>2

\* FR-1086: the rolling cap holds for every cap, user, number of concurrent turns
\* and failure, but for the threads whose own EnforceCap has not run.
THEOREM CapHolds == Spec => []ThreadsBounded
<1>1. Init => ThreadsBounded
  <2> SUFFICES ASSUME Init, NEW u \in User
               PROVE  Cardinality(ThreadsOf(u) \ Unenforced(u)) <= maxThreads
    BY DEF ThreadsBounded
  <2>1. ThreadsOf(u) \ Unenforced(u) = {}
    BY DEF Init, ThreadsOf
  <2> QED
    BY <2>1, FS_EmptySet, BoundAssumption
<1>2. IndInv => TypeOK /\ TargetsResolved
  BY DEF IndInv
<1>3. TypeOK /\ TargetsResolved /\ ThreadsBounded /\ [Next]_vars => ThreadsBounded'
  BY ThreadsBoundedStep
<1> QED
  BY <1>1, <1>2, <1>3, IndInvCorrect, PTL DEF Spec

\* Every insert adds one message, so a window is a finite set.
FiniteMessages == IsFiniteSet(messages)

LEMMA MessagesFinite == Spec => []FiniteMessages
<1>1. Init => FiniteMessages
  BY FS_EmptySet DEF Init, FiniteMessages
<1>2. FiniteMessages /\ [Next]_vars => FiniteMessages'
  <2> USE DEF FiniteMessages
  <2> SUFFICES ASSUME IsFiniteSet(messages), [Next]_vars PROVE IsFiniteSet(messages')
    OBVIOUS
  <2>1. ASSUME NEW r \in Turn, InsertQuestion(r) \/ InsertAnswer(r)
        PROVE  IsFiniteSet(messages')
    BY <2>1, FS_AddElement DEF InsertQuestion, InsertAnswer
  <2>2. ASSUME messages' \in SUBSET messages PROVE IsFiniteSet(messages')
    BY <2>2, FS_Subset
  <2>3. ASSUME NEW r \in Turn, Begin(r) \/ Fail(r) \/ Step(r),
               ~InsertQuestion(r), ~InsertAnswer(r)
        PROVE  messages' \in SUBSET messages
    BY <2>3 DEF Step, Begin, GetThread, CreateThread, EnforceCap, ThreadGone, Touch,
                ReadPrior, Generate, Degrade, Fail, DeleteRows
  <2>4. ASSUME NEW u \in User, ClearThreads(u) \/ \E t \in Turn : DeleteThread(u, t)
        PROVE  messages' \in SUBSET messages
    BY <2>4 DEF ClearThreads, DeleteThread, DeleteRows
  <2>5. Tick \/ UNCHANGED vars => messages' \in SUBSET messages
    BY DEF Tick, vars
  <2>6. ASSUME NEW r \in Turn, Begin(r) \/ Fail(r) \/ Step(r)
        PROVE  IsFiniteSet(messages')
    BY <2>1, <2>2, <2>3, <2>6
  <2>7. Tick \/ UNCHANGED vars => IsFiniteSet(messages')
    BY <2>2, <2>5
  <2>8. ASSUME NEW u \in User, ClearThreads(u) \/ \E t \in Turn : DeleteThread(u, t)
        PROVE  IsFiniteSet(messages')
    BY <2>2, <2>4, <2>8
  <2> QED
    BY <2>6, <2>7, <2>8 DEF Next
<1> QED
  BY <1>1, <1>2, PTL DEF Spec

\* A prior window stays what it was while its turn waits for the model and no
\* deleted thread comes back.
LEMMA PriorKept ==
  ASSUME PriorIsRecentDialogue, NEW r \in Turn,
         pc[r] = "generate", prior'[r] = prior[r], past'[r] = past[r],
         target'[r] = target[r], at'[r] = at[r], target[r] \in threads' => target[r] \in threads
  PROVE  RecentDialogue(r)'
BY DEF PriorIsRecentDialogue, RecentDialogue, Question

LEMMA PriorStep ==
  ASSUME IndInv, FiniteMessages, PriorIsRecentDialogue, [Next]_vars
  PROVE  PriorIsRecentDialogue'
<1> SUFFICES ASSUME NEW x \in Turn, pc'[x] = "generate"
             PROVE  RecentDialogue(x)'
  BY DEF PriorIsRecentDialogue
<1> DEFINE Kept == /\ pc[x] = "generate" /\ prior'[x] = prior[x] /\ past'[x] = past[x]
                   /\ target'[x] = target[x] /\ at'[x] = at[x]
                   /\ target[x] \in threads' => target[x] \in threads
<1> USE DEF IndInv, TypeOK, FiniteMessages
<1>1. CASE Tick
  BY <1>1, PriorKept DEF Tick
<1>2. ASSUME NEW r \in Turn, Begin(r) PROVE RecentDialogue(x)'
  <2>1. Kept
    BY <1>2 DEF Begin
  <2> QED
    BY <2>1, PriorKept
<1>3. ASSUME NEW r \in Turn, GetThread(r) PROVE RecentDialogue(x)'
  <2>1. Kept
    BY <1>3 DEF GetThread
  <2> QED
    BY <2>1, PriorKept
<1>4. ASSUME NEW r \in Turn, CreateThread(r) PROVE RecentDialogue(x)'
  <2>1. Kept
    BY <1>4 DEF CreateThread, TargetsResolved, Addressed
  <2> QED
    BY <2>1, PriorKept
<1>5. ASSUME NEW r \in Turn, EnforceCap(r) PROVE RecentDialogue(x)'
  <2>1. Kept
    BY <1>5 DEF EnforceCap, DeleteRows, ThreadsOf
  <2> QED
    BY <2>1, PriorKept
<1>6. ASSUME NEW r \in Turn, InsertQuestion(r) PROVE RecentDialogue(x)'
  <2>1. Kept
    BY <1>6 DEF InsertQuestion
  <2> QED
    BY <2>1, PriorKept
<1>7. ASSUME NEW r \in Turn, InsertAnswer(r) PROVE RecentDialogue(x)'
  <2>1. Kept
    BY <1>7 DEF InsertAnswer
  <2> QED
    BY <2>1, PriorKept
<1>8. ASSUME NEW r \in Turn, ThreadGone(r) PROVE RecentDialogue(x)'
  <2>1. Kept
    BY <1>8 DEF ThreadGone
  <2> QED
    BY <2>1, PriorKept
<1>9. ASSUME NEW r \in Turn, Touch(r) PROVE RecentDialogue(x)'
  <2>1. Kept
    BY <1>9 DEF Touch
  <2> QED
    BY <2>1, PriorKept
<1>10. ASSUME NEW r \in Turn, Generate(r) PROVE RecentDialogue(x)'
  <2>1. Kept
    BY <1>10 DEF Generate
  <2> QED
    BY <2>1, PriorKept
<1>11. ASSUME NEW r \in Turn, Degrade(r) PROVE RecentDialogue(x)'
  <2>1. Kept
    BY <1>11 DEF Degrade
  <2> QED
    BY <2>1, PriorKept
<1>12. ASSUME NEW r \in Turn, Fail(r) PROVE RecentDialogue(x)'
  <2>1. Kept
    BY <1>12 DEF Fail
  <2> QED
    BY <2>1, PriorKept
<1>13. ASSUME NEW u \in User, ClearThreads(u) \/ \E t \in Turn : DeleteThread(u, t)
      PROVE  RecentDialogue(x)'
  <2>1. Kept
    BY <1>13 DEF ClearThreads, DeleteThread, DeleteRows
  <2> QED
    BY <2>1, PriorKept
<1>14. CASE UNCHANGED vars
  BY <1>14, PriorKept DEF vars
<1>15. ASSUME NEW r \in Turn, ReadPrior(r) PROVE RecentDialogue(x)'
  <2>1. CASE x # r
    <3>1. Kept
      BY <1>15, <2>1 DEF ReadPrior
    <3> QED
      BY <3>1, PriorKept
  <2>2. CASE x = r
    <3> DEFINE stored == {m \in messages : m.thread = target[r] /\ UserOf[m.thread] = UserOf[r]}
    <3>1. PICK window \in Latest(stored, priorWindow, [m \in stored |-> m.createdAt]) :
            prior' = [prior EXCEPT ![r] = window]
      BY <1>15 DEF ReadPrior
    <3>2. UNCHANGED <<threads, messages, target, at>> /\ pc[r] = "readPrior"
      BY <1>15 DEF ReadPrior
    <3>3. /\ window \subseteq stored
          /\ Cardinality(window) <= priorWindow
          /\ Cardinality(window) < priorWindow => window = stored
          /\ \A k \in window, m \in stored \ window : m.createdAt <= k.createdAt
      BY DEF Latest
    <3>4. Cardinality(window) \in Nat
      BY <3>3, FS_Subset, FS_CardinalityType
    <3>5. \A m \in window : m.thread = target[r] /\ UserOf[m.turn] = UserOf[r]
      BY <3>3 DEF OnlyOwnerWrites
    <3>6. CASE target[r] \in threads
      <4>1. past[r] \union {Question(r)} \subseteq stored
        <5>1. /\ Question(r) \in messages
              /\ \A m \in past[r] : m \in messages /\ m.thread = target[r]
          BY <3>2, <3>6 DEF QuestionsHeld
        <5>2. UserOf[target[r]] = UserOf[r]
          BY <3>2 DEF TargetsResolved, Addressed
        <5> QED
          BY <5>1, <5>2 DEF Question
      <4>2. \A m \in (past[r] \union {Question(r)}) \ window :
              \A k \in window : m.createdAt <= k.createdAt
        BY <3>3, <4>1
      <4>3. \A m \in (past[r] \union {Question(r)}) \ window :
              Cardinality(window) = priorWindow
        BY <3>3, <3>4, <4>1, BoundAssumption
      <4>4. Question(r)' = Question(r) /\ past' = past /\ prior'[r] = window
        BY <1>15, <3>1, <3>2 DEF Question, ReadPrior
      <4> HIDE DEF stored
      <4> QED
        BY <2>2, <3>2, <3>3, <3>5, <4>2, <4>3, <4>4 DEF RecentDialogue
    <3>7. CASE target[r] \notin threads
      <4>1. window = {}
        BY <3>3, <3>7 DEF OnlyOwnerWrites
      <4> QED
        BY <2>2, <3>1, <3>2, <3>3, <3>7, <4>1 DEF RecentDialogue
    <3> QED
      BY <3>6, <3>7
  <2> QED
    BY <2>1, <2>2
<1> QED
  BY <1>1, <1>2, <1>3, <1>4, <1>5, <1>6, <1>7, <1>8, <1>9, <1>10, <1>11, <1>12, <1>13,
    <1>14, <1>15 DEF Next, Step

\* The dialogue handed to the model is bounded, the caller's own, and the most
\* recent part of its thread: nothing left out is newer than anything kept.
THEOREM PriorCorrect == Spec => []PriorIsRecentDialogue
<1>1. Init => PriorIsRecentDialogue
  BY DEF Init, PriorIsRecentDialogue
<1>2. IndInv /\ FiniteMessages /\ PriorIsRecentDialogue /\ [Next]_vars
        => PriorIsRecentDialogue'
  BY PriorStep
<1> QED
  BY <1>1, <1>2, IndInvCorrect, MessagesFinite, PTL DEF Spec
=============================================================================
