------------------------- MODULE InsightCache_proofs -------------------------
(***************************************************************************)
(* Theorems about InsightCache, for any number of requests, users,         *)
(* categories and facts, and any configuration the process starts with.    *)
(***************************************************************************)
EXTENDS InsightCache, SequenceTheorems, FiniteSetTheorems, TLAPS

\* Taking the element at position i out of a list: those after it move up.
LEMMA RemoveAtIs ==
  ASSUME NEW S, NEW s \in Seq(S), NEW i \in 1 .. Len(s)
  PROVE  /\ RemoveAt(s, i) \in Seq(S)
         /\ Len(RemoveAt(s, i)) = Len(s) - 1
         /\ \A j \in 1 .. Len(s) - 1 :
               RemoveAt(s, i)[j] = IF j < i THEN s[j] ELSE s[j + 1]
<1> DEFINE t == RemoveAt(s, i)
<1> HIDE DEF t
<1> DEFINE before == SubSeq(s, 1, i - 1)  after == SubSeq(s, i + 1, Len(s))
<1>1. /\ before \in Seq(S) /\ Len(before) = i - 1
      /\ \A j \in 1 .. i - 1 : before[j] = s[j]
  BY SubSeqProperties
<1>2. /\ after \in Seq(S) /\ Len(after) = Len(s) - i
      /\ \A j \in 1 .. Len(s) - i : after[j] = s[i + j]
  <2>1. /\ i + 1 \in Int /\ Len(s) \in Int
        /\ \A j \in i + 1 .. Len(s) : s[j] \in S
    OBVIOUS
  <2>2. /\ after \in Seq(S)
        /\ Len(after) = IF i + 1 <= Len(s) THEN Len(s) - (i + 1) + 1 ELSE 0
        /\ \A j \in 1 .. Len(s) - (i + 1) + 1 : after[j] = s[(i + 1) + j - 1]
    BY <2>1, SubSeqProperties
  <2> QED
    BY <2>2
<1> HIDE DEF before, after
<1>3. /\ before \o after \in Seq(S)
      /\ Len(before \o after) = Len(before) + Len(after)
      /\ \A j \in 1 .. Len(before) + Len(after) : (before \o after)[j] =
            IF j <= Len(before) THEN before[j] ELSE after[j - Len(before)]
  BY <1>1, <1>2, ConcatProperties
<1>4. t = before \o after
  BY DEF RemoveAt, before, after, t
<1>5. Len(s) \in Nat /\ i \in Nat
  OBVIOUS
<1>6. Len(t) = Len(s) - 1
  BY <1>1, <1>2, <1>3, <1>4, <1>5
<1>7. ASSUME NEW j \in 1 .. Len(s) - 1
      PROVE  t[j] = IF j < i THEN s[j] ELSE s[j + 1]
  <2>1. t[j] = IF j <= i - 1 THEN before[j] ELSE after[j - (i - 1)]
    BY <1>1, <1>2, <1>3, <1>4, <1>5
  <2>2. CASE j < i
    BY <1>1, <1>5, <2>1, <2>2
  <2>3. CASE ~(j < i)
    <3> DEFINE m == j - (i - 1)
    <3>1. m \in 1 .. Len(s) - i /\ i + m = j + 1
      BY <1>5, <2>3
    <3>2. t[j] = after[m]
      <4>1. ~(j <= i - 1)
        BY <1>5, <2>3
      <4> QED
        BY <2>1, <4>1
    <3> HIDE DEF m
    <3>3. after[m] = s[j + 1]
      BY <1>2, <3>1
    <3> QED
      BY <2>3, <3>2, <3>3
  <2> QED
    BY <2>2, <2>3
<1> QED
  BY <1>3, <1>4, <1>6, <1>7 DEF t

\* From a list without duplicates exactly one is gone.
LEMMA RemoveAtProperties ==
  ASSUME NEW S, NEW s \in Seq(S), IsInjective(s), NEW i \in 1 .. Len(s)
  PROVE  /\ RemoveAt(s, i) \in Seq(S)
         /\ Len(RemoveAt(s, i)) = Len(s) - 1
         /\ IsInjective(RemoveAt(s, i))
         /\ Range(RemoveAt(s, i)) = Range(s) \ {s[i]}
<1> DEFINE t == RemoveAt(s, i)
<1> HIDE DEF t
<1>1. /\ t \in Seq(S)
      /\ Len(t) = Len(s) - 1
      /\ \A j \in 1 .. Len(s) - 1 : t[j] = IF j < i THEN s[j] ELSE s[j + 1]
  BY RemoveAtIs DEF t
<1>2. DOMAIN s = 1 .. Len(s) /\ DOMAIN t = 1 .. Len(s) - 1 /\ Len(s) \in Nat
  BY <1>1
<1> DEFINE Old(j) == IF j < i THEN j ELSE j + 1
<1>7. ASSUME NEW j \in 1 .. Len(s) - 1
      PROVE  Old(j) \in 1 .. Len(s) /\ Old(j) # i /\ t[j] = s[Old(j)]
  BY <1>1, <1>2
<1>8. ASSUME NEW j \in 1 .. Len(s) - 1, NEW k \in 1 .. Len(s) - 1, Old(j) = Old(k)
      PROVE  j = k
  BY <1>2, <1>8
<1> HIDE DEF Old, t
<1>3. IsInjective(t)
  <2> SUFFICES ASSUME NEW j \in 1 .. Len(s) - 1, NEW k \in 1 .. Len(s) - 1,
                      t[j] = t[k]
               PROVE  j = k
    BY <1>2 DEF IsInjective
  <2>1. Old(j) = Old(k)
    BY <1>2, <1>7 DEF IsInjective
  <2> QED
    BY <1>8, <2>1
<1>4. ASSUME NEW x \in Range(t) PROVE x \in Range(s) \ {s[i]}
  <2>1. PICK j \in 1 .. Len(s) - 1 : x = t[j]
    BY <1>2 DEF Range
  <2>2. Old(j) \in 1 .. Len(s) /\ Old(j) # i /\ x = s[Old(j)]
    BY <1>7, <2>1
  <2> QED
    BY <1>2, <2>2 DEF Range, IsInjective
<1>5. ASSUME NEW x \in Range(s), x # s[i] PROVE x \in Range(t)
  <2>1. PICK j \in 1 .. Len(s) : x = s[j] /\ j # i
    BY <1>2, <1>5 DEF Range
  <2>2. CASE j < i
    <3>1. j \in 1 .. Len(s) - 1 /\ t[j] = x
      BY <1>1, <1>2, <2>1, <2>2
    <3> QED
      BY <1>2, <3>1 DEF Range
  <2>3. CASE j > i
    <3>1. j - 1 \in 1 .. Len(s) - 1 /\ t[j - 1] = x
      BY <1>1, <1>2, <2>1, <2>3
    <3> QED
      BY <1>2, <3>1 DEF Range
  <2> QED
    BY <2>1, <2>2, <2>3
<1>6. Range(t) = Range(s) \ {s[i]}
  BY <1>4, <1>5
<1> QED
  BY <1>1, <1>3, <1>6 DEF t

\* Pushing a new element to the front of a list.
LEMMA PushProperties ==
  ASSUME NEW S, NEW s \in Seq(S), IsInjective(s), NEW k \in S, k \notin Range(s)
  PROVE  /\ <<k>> \o s \in Seq(S)
         /\ Len(<<k>> \o s) = Len(s) + 1
         /\ IsInjective(<<k>> \o s)
         /\ Range(<<k>> \o s) = Range(s) \union {k}
         /\ (<<k>> \o s)[1] = k
<1> DEFINE t == <<k>> \o s
<1> HIDE DEF t
<1>1. /\ t \in Seq(S)
      /\ Len(t) = Len(s) + 1
      /\ \A j \in 1 .. Len(s) + 1 : t[j] = IF j = 1 THEN k ELSE s[j - 1]
  BY DEF t
<1>2. DOMAIN s = 1 .. Len(s) /\ DOMAIN t = 1 .. Len(s) + 1 /\ Len(s) \in Nat
  BY <1>1
<1>3. \A j \in 1 .. Len(s) : s[j] # k
  BY <1>2 DEF Range
<1>4. IsInjective(t)
  <2> SUFFICES ASSUME NEW a \in 1 .. Len(s) + 1, NEW b \in 1 .. Len(s) + 1,
                      t[a] = t[b]
               PROVE  a = b
    BY <1>2 DEF IsInjective
  <2>1. CASE a = 1 \/ b = 1
    BY <1>1, <1>2, <1>3, <2>1
  <2>2. CASE a # 1 /\ b # 1
    <3>1. a - 1 \in 1 .. Len(s) /\ b - 1 \in 1 .. Len(s) /\ s[a - 1] = s[b - 1]
      BY <1>1, <1>2, <2>2
    <3>2. a - 1 = b - 1
      BY <1>2, <3>1 DEF IsInjective
    <3> QED
      BY <3>2
  <2> QED
    BY <2>1, <2>2
<1>5. ASSUME NEW x \in Range(s) PROVE x \in Range(t)
  <2>1. PICK j \in 1 .. Len(s) : x = s[j]
    BY <1>2 DEF Range
  <2>2. j + 1 \in 1 .. Len(s) + 1 /\ t[j + 1] = x
    BY <1>1, <1>2, <2>1
  <2> QED
    BY <1>2, <2>2 DEF Range
<1>6. k \in Range(t)
  <2>1. 1 \in 1 .. Len(s) + 1 /\ t[1] = k
    BY <1>1, <1>2
  <2> QED
    BY <1>2, <2>1 DEF Range
<1>7. ASSUME NEW x \in Range(t), x # k PROVE x \in Range(s)
  <2>1. PICK j \in 1 .. Len(s) + 1 : x = t[j]
    BY <1>2 DEF Range
  <2>2. j - 1 \in 1 .. Len(s) /\ x = s[j - 1]
    BY <1>1, <1>2, <1>7, <2>1
  <2> QED
    BY <1>2, <2>2 DEF Range
<1>8. Range(t) = Range(s) \union {k}
  BY <1>5, <1>6, <1>7
<1>9. t[1] = k
  BY <1>1, <1>2
<1> QED
  BY <1>1, <1>4, <1>8, <1>9 DEF t

\* All but the last element of a list.
LEMMA FrontIs ==
  ASSUME NEW S, NEW s \in Seq(S), Len(s) # 0
  PROVE  /\ Front(s) \in Seq(S)
         /\ Len(Front(s)) = Len(s) - 1
         /\ \A j \in 1 .. Len(s) - 1 : Front(s)[j] = s[j]
<1> DEFINE t == Front(s)
<1> HIDE DEF t
<1>1. Len(s) - 1 \in Int /\ \A j \in 1 .. Len(s) - 1 : s[j] \in S
  OBVIOUS
<1>2. /\ t \in Seq(S)
      /\ Len(t) = IF 1 <= Len(s) - 1 THEN Len(s) - 1 - 1 + 1 ELSE 0
      /\ \A j \in 1 .. Len(s) - 1 - 1 + 1 : t[j] = s[1 + j - 1]
  BY <1>1, SubSeqProperties DEF Front, t
<1>3. Len(s) \in Nat /\ Len(s) # 0
  OBVIOUS
<1>4. Len(t) = Len(s) - 1
  <2>1. CASE Len(s) = 1
    BY <1>2, <2>1
  <2>2. CASE Len(s) > 1
    <3>1. 1 <= Len(s) - 1 /\ Len(s) - 1 - 1 + 1 = Len(s) - 1
      BY <1>3, <2>2
    <3> QED
      BY <1>2, <3>1
  <2>3. \A n \in Nat : n # 0 => n = 1 \/ n > 1
    OBVIOUS
  <2>4. Len(s) = 1 \/ Len(s) > 1
    BY <1>3, <2>3
  <2> QED
    BY <2>1, <2>2, <2>4
<1>5. ASSUME NEW j \in 1 .. Len(s) - 1
      PROVE  t[j] = s[j]
  <2>1. j \in 1 .. Len(s) - 1 - 1 + 1 /\ 1 + j - 1 = j
    BY <1>3
  <2> QED
    BY <1>2, <2>1
<1> QED
  BY <1>2, <1>4, <1>5 DEF t

\* Dropping the last element of a list without duplicates.
LEMMA FrontProperties ==
  ASSUME NEW S, NEW s \in Seq(S), IsInjective(s), Len(s) # 0
  PROVE  /\ Front(s) \in Seq(S)
         /\ Len(Front(s)) = Len(s) - 1
         /\ IsInjective(Front(s))
         /\ Range(Front(s)) = Range(s) \ {Last(s)}
<1> DEFINE t == Front(s)
<1> HIDE DEF t
<1>1. /\ t \in Seq(S)
      /\ Len(t) = Len(s) - 1
      /\ \A j \in 1 .. Len(s) - 1 : t[j] = s[j]
  BY FrontIs DEF t
<1>2. DOMAIN s = 1 .. Len(s) /\ DOMAIN t = 1 .. Len(s) - 1 /\ Len(s) \in Nat
  BY <1>1
<1> HIDE DEF t
<1>3. IsInjective(t)
  <2> SUFFICES ASSUME NEW j \in 1 .. Len(s) - 1, NEW k \in 1 .. Len(s) - 1,
                      t[j] = t[k]
               PROVE  j = k
    BY <1>2 DEF IsInjective
  <2>1. s[j] = s[k] /\ j \in 1 .. Len(s) /\ k \in 1 .. Len(s)
    BY <1>1, <1>2
  <2> QED
    BY <1>2, <2>1 DEF IsInjective
<1>4. ASSUME NEW x \in Range(t) PROVE x \in Range(s) \ {Last(s)}
  <2>1. PICK j \in 1 .. Len(s) - 1 : x = t[j]
    BY <1>2 DEF Range
  <2>2. j \in 1 .. Len(s) /\ j # Len(s) /\ x = s[j] /\ Len(s) \in 1 .. Len(s)
    BY <1>1, <1>2, <2>1
  <2> QED
    BY <1>2, <2>2 DEF Range, IsInjective, Last
<1>5. ASSUME NEW x \in Range(s), x # Last(s) PROVE x \in Range(t)
  <2>1. PICK j \in 1 .. Len(s) : x = s[j] /\ j # Len(s)
    BY <1>2, <1>5 DEF Range, Last
  <2>2. j \in 1 .. Len(s) - 1 /\ x = t[j]
    BY <1>1, <1>2, <2>1
  <2> QED
    BY <1>2, <2>2 DEF Range
<1>6. Range(t) = Range(s) \ {Last(s)}
  BY <1>4, <1>5
<1> QED
  BY <1>1, <1>3, <1>6 DEF t
---------------------------------------------------------------------------
(* The categories, questions and keys.                                     *)

LEMMA Categories ==
  /\ Len(AllCategories) \in Nat \ {0}
  /\ \A i \in 1 .. Len(AllCategories) : AllCategories[i] \in Category
  /\ \A i, j \in 1 .. Len(AllCategories) :
        AllCategories[i] = AllCategories[j] => i = j
<1>1. AllCategories \in Seq(Category) /\ AllCategories # << >>
  BY CategoryAssumption
<1>2. /\ Len(AllCategories) \in Nat /\ DOMAIN AllCategories = 1 .. Len(AllCategories)
      /\ \A i \in 1 .. Len(AllCategories) : AllCategories[i] \in Category
  BY <1>1
<1>3. Len(AllCategories) # 0
  BY <1>1, EmptySeq
<1> QED
  BY <1>2, <1>3, CategoryAssumption DEF IsInjective

\* The question a request is at, once its facts are built, and its key.
LEMMA Questions ==
  ASSUME TypeOK, NEW r \in Request, facts[r] \in Facts
  PROVE  /\ AllCategories[next[r]] \in Category
         /\ QuestionOf(r) \in Question
         /\ cacheKey(QuestionOf(r)) \in Key
<1>1. AllCategories[next[r]] \in Category
  BY Categories DEF TypeOK
<1>2. user[r] \in User
  BY DEF TypeOK
<1> QED
  BY <1>1, <1>2
  DEF QuestionOf, Promise!QuestionOf, Question, Promise!Question, cacheKey, Key

\* What removing an entry's key leaves of the list.
LEMMA UnlinkedProperties ==
  ASSUME TypeOK, CacheBounded, NEW k \in DOMAIN items
  PROVE  /\ k \in Key
         /\ Unlinked(k) \in Seq(Key)
         /\ Len(Unlinked(k)) = Len(ll) - 1
         /\ IsInjective(Unlinked(k))
         /\ Range(Unlinked(k)) = DOMAIN items \ {k}
<1>1. ll \in Seq(Key) /\ IsInjective(ll) /\ Range(ll) = DOMAIN items
  BY DEF TypeOK, CacheBounded
<1>2. DOMAIN ll = 1 .. Len(ll)
  BY <1>1
<1>3. \E i \in 1 .. Len(ll) : ll[i] = k
  BY <1>1, <1>2 DEF Range
<1> DEFINE i == CHOOSE i \in 1 .. Len(ll) : ll[i] = k
<1>4. i \in 1 .. Len(ll) /\ ll[i] = k
  BY <1>3
<1>5. Unlinked(k) = RemoveAt(ll, i)
  BY DEF Unlinked
<1> HIDE DEF i
<1>6. k \in Key
  BY <1>1, <1>4
<1> QED
  BY <1>1, <1>4, <1>5, <1>6, RemoveAtProperties

\* Moving to the front, pushing and evicting, as Hit and Set do it.
LEMMA HitKeepsBound ==
  ASSUME TypeOK, CacheBounded, NEW k \in DOMAIN items,
         ll' = <<k>> \o Unlinked(k), items' = items
  PROVE  ll' \in Seq(Key) /\ CacheBounded'
<1>1. k \notin Range(Unlinked(k))
  BY UnlinkedProperties
<1>2. /\ ll' \in Seq(Key) /\ Len(ll') = Len(Unlinked(k)) + 1 /\ IsInjective(ll')
      /\ Range(ll') = Range(Unlinked(k)) \union {k}
  BY <1>1, UnlinkedProperties, PushProperties
<1>3. Range(ll') = DOMAIN items
  BY <1>2, UnlinkedProperties
<1>4. Len(ll) \in Nat
  BY DEF TypeOK
<1>5. Len(ll') <= Size
  BY <1>2, <1>4, UnlinkedProperties DEF CacheBounded
<1> QED
  BY <1>2, <1>3, <1>5 DEF CacheBounded

LEMMA RemoveKeepsBound ==
  ASSUME TypeOK, CacheBounded, NEW k \in DOMAIN items, removeElement(k)
  PROVE  /\ ll' \in Seq(Key)
         /\ items' \in [DOMAIN items' -> Entry]
         /\ CacheBounded'
<1>1. ll' = Unlinked(k) /\ items' = [j \in DOMAIN items \ {k} |-> items[j]]
  BY DEF removeElement
<1>2. DOMAIN items' = DOMAIN items \ {k} /\ items' \in [DOMAIN items' -> Entry]
  BY <1>1 DEF TypeOK
<1>3. Len(ll) \in Nat /\ Size \in Nat
  BY ConfigAssumption DEF TypeOK
<1>4. Len(ll') <= Size
  BY <1>1, <1>3, UnlinkedProperties DEF CacheBounded
<1> QED
  BY <1>1, <1>2, <1>4, UnlinkedProperties DEF CacheBounded

LEMMA PushedProperties ==
  ASSUME TypeOK, CacheBounded, NEW k \in Key
  PROVE  /\ Pushed(k) \in Seq(Key)
         /\ IsInjective(Pushed(k))
         /\ Range(Pushed(k)) = DOMAIN items \union {k}
         /\ Len(Pushed(k)) \in Nat
         /\ Len(Pushed(k)) <= Size + 1
         /\ Pushed(k)[1] = k
<1>1. Len(ll) \in Nat /\ Size \in Nat /\ Len(ll) <= Size
  BY ConfigAssumption DEF TypeOK, CacheBounded
<1>2. CASE k \in DOMAIN items
  <2>1. /\ Unlinked(k) \in Seq(Key) /\ IsInjective(Unlinked(k))
        /\ Range(Unlinked(k)) = DOMAIN items \ {k}
        /\ Len(Unlinked(k)) = Len(ll) - 1
    BY <1>2, UnlinkedProperties
  <2>2. Pushed(k) = <<k>> \o Unlinked(k)
    BY <1>2 DEF Pushed
  <2>3. /\ Pushed(k) \in Seq(Key) /\ IsInjective(Pushed(k))
        /\ Len(Pushed(k)) = Len(Unlinked(k)) + 1 /\ Pushed(k)[1] = k
        /\ Range(Pushed(k)) = Range(Unlinked(k)) \union {k}
    BY <2>1, <2>2, PushProperties
  <2> QED
    BY <1>1, <2>1, <2>3
<1>3. CASE k \notin DOMAIN items
  <2>1. ll \in Seq(Key) /\ IsInjective(ll) /\ Range(ll) = DOMAIN items
    BY DEF TypeOK, CacheBounded
  <2>2. Pushed(k) = <<k>> \o ll
    BY <1>3 DEF Pushed
  <2>3. /\ Pushed(k) \in Seq(Key) /\ IsInjective(Pushed(k))
        /\ Len(Pushed(k)) = Len(ll) + 1 /\ Pushed(k)[1] = k
        /\ Range(Pushed(k)) = Range(ll) \union {k}
    BY <1>3, <2>1, <2>2, PushProperties
  <2> QED
    BY <1>1, <2>1, <2>3
<1> QED
  BY <1>2, <1>3

LEMMA SetKeepsBound ==
  ASSUME TypeOK, CacheBounded, NEW r \in Request, facts[r] \in Facts,
         held[r] \in Answer, Set(r)
  PROVE  /\ ll' \in Seq(Key)
         /\ items' \in [DOMAIN items' -> Entry]
         /\ CacheBounded'
<1> DEFINE k == cacheKey(QuestionOf(r))
           list == Pushed(k)
           oldest == IF Len(list) > Size THEN {Last(list)} ELSE {}
           entry == [result |-> held[r], expires |-> clock + TTL]
<1>1. k \in Key
  BY Questions
<1>2. /\ ll' = Kept(list)
      /\ items' = [j \in (DOMAIN items \union {k}) \ oldest |->
                      IF j = k THEN entry ELSE items[j]]
  BY DEF Set
<1>3. entry \in Entry
  BY ConfigAssumption DEF TypeOK, Entry
<1> HIDE DEF entry, k
<1>4. /\ DOMAIN items' = (DOMAIN items \union {k}) \ oldest
      /\ items' \in [DOMAIN items' -> Entry]
  BY <1>2, <1>3 DEF TypeOK
<1>5. /\ list \in Seq(Key) /\ IsInjective(list)
      /\ Range(list) = DOMAIN items \union {k}
      /\ Len(list) \in Nat /\ Len(list) <= Size + 1
  BY <1>1, PushedProperties
<1> HIDE DEF list
<1>6. Size \in Nat \ {0}
  BY ConfigAssumption
<1>7. CASE Len(list) > Size
  <2>1. Len(list) # 0 /\ Len(list) - 1 <= Size
    BY <1>5, <1>6, <1>7
  <2>2. /\ Front(list) \in Seq(Key) /\ Len(Front(list)) = Len(list) - 1
        /\ IsInjective(Front(list))
        /\ Range(Front(list)) = Range(list) \ {Last(list)}
    BY <1>5, <2>1, FrontProperties
  <2>3. ll' = Front(list) /\ oldest = {Last(list)}
    BY <1>2, <1>7 DEF Kept
  <2> HIDE DEF oldest
  <2> QED
    BY <1>4, <1>5, <2>1, <2>2, <2>3 DEF CacheBounded
<1>8. CASE ~(Len(list) > Size)
  <2>1. ll' = list /\ oldest = {} /\ Len(list) <= Size
    BY <1>2, <1>5, <1>6, <1>8 DEF Kept
  <2> HIDE DEF oldest
  <2> QED
    BY <1>4, <1>5, <2>1 DEF CacheBounded
<1> QED
  BY <1>7, <1>8

---------------------------------------------------------------------------
(* Type correctness.                                                       *)

LEMMA NextCategoryTyped ==
  ASSUME TypeOK, NEW r \in Request, NextCategory(r) \/ Skip(r)
  PROVE  /\ pc' \in [Request -> {"idle"} \union Running \union Returned]
         /\ next' \in [Request -> 1 .. Len(AllCategories)]
<1> USE DEF Running, Calling, Returned
<1>1. ASSUME NextCategory(r)
      PROVE  /\ pc' \in [Request -> {"idle"} \union Running \union Returned]
             /\ next' \in [Request -> 1 .. Len(AllCategories)]
  <2>1. next[r] \in 1 .. Len(AllCategories) /\ Len(AllCategories) \in Nat
    BY Categories DEF TypeOK
  <2>2. CASE next[r] < Len(AllCategories) /\ next' = [next EXCEPT ![r] = @ + 1]
               /\ pc' = [pc EXCEPT ![r] = "get"]
    <3>1. next[r] + 1 \in 1 .. Len(AllCategories)
      BY <2>1, <2>2
    <3> QED
      BY <2>2, <3>1 DEF TypeOK
  <2>3. CASE Return(r) /\ UNCHANGED next
    BY <2>3 DEF TypeOK, Return
  <2> QED
    BY <1>1, <2>2, <2>3 DEF NextCategory
<1>2. CASE cancelled[r] /\ Skip(r)
  BY <1>2 DEF Skip, TypeOK
<1> QED
  BY <1>1, <1>2 DEF Skip

LEMMA AnswersTyped ==
  ASSUME TypeOK, NEW r \in Request, NEW a \in Answer, Succeed(r, a)
  PROVE  /\ pc' \in [Request -> {"idle"} \union Running \union Returned]
         /\ next' \in [Request -> 1 .. Len(AllCategories)]
         /\ answers' \in [Request -> [Category -> Answer \union {NoAnswer}]]
  BY NextCategoryTyped DEF TypeOK, Succeed

\* Every variable keeps its type, and the cache its list in step with its map.
LEMMA TypeStep ==
  ASSUME TypeOK, CacheBounded, FactsAreBuilt, HoldsOwnAnswer, [Next]_vars
  PROVE  TypeOK' /\ CacheBounded'
<1> DEFINE Both == TypeOK' /\ CacheBounded'
<1> USE DEF Running, Calling, Returned
<1>1. CASE Tick
  BY <1>1 DEF Tick, TypeOK, CacheBounded, cache, request
<1>2. CASE Restart
  <2>1. ll' = << >> /\ items' = << >> /\ used' = << >>
    BY <1>2 DEF Restart
  <2>2. /\ ll' \in Seq(Key) /\ used' \in Seq(Key) /\ Len(ll') = 0
        /\ DOMAIN ll' = {} /\ DOMAIN items' = {}
        /\ items' \in [DOMAIN items' -> Entry]
    BY <2>1
  <2>3. Len(ll') <= Size
    BY <2>2, ConfigAssumption
  <2>4. CacheBounded'
    BY <2>2, <2>3 DEF CacheBounded, Range, IsInjective
  <2>5. TypeOK'
    BY <1>2, <2>2 DEF Restart, TypeOK
  <2> QED
    BY <2>4, <2>5
<1>3. ASSUME NEW r \in Request, Begin(r) PROVE Both
  BY <1>3 DEF Begin, TypeOK, CacheBounded, cache
<1>4. ASSUME NEW r \in Request, Cancel(r) PROVE Both
  BY <1>4 DEF Cancel, TypeOK, CacheBounded, cache
<1>5. ASSUME NEW r \in Request, BuildFacts(r) PROVE Both
  <2>1. \E f \in Facts \union {NoFacts} : facts' = [facts EXCEPT ![r] = f]
    <3>1. facts[r] \in Facts \union {NoFacts} /\ facts = [facts EXCEPT ![r] = @]
      BY DEF TypeOK
    <3> QED
      BY <1>5, <3>1 DEF BuildFacts
  <2>2. \E to \in Running \union Returned : pc' = [pc EXCEPT ![r] = to]
    BY <1>5 DEF BuildFacts, Return
  <2>3. UNCHANGED <<clock, user, ll, items, given, used, next, held, answers,
                    cancelled, began, since>>
    BY <1>5 DEF BuildFacts, cache
  <2>4. facts' \in [Request -> Facts \union {NoFacts}]
    BY <2>1 DEF TypeOK
  <2>5. pc' \in [Request -> {"idle"} \union Running \union Returned]
    BY <2>2 DEF TypeOK
  <2> QED
    BY <2>3, <2>4, <2>5 DEF TypeOK, CacheBounded
<1>6. ASSUME NEW r \in Request, Get(r) PROVE Both
  <2> DEFINE k == cacheKey(QuestionOf(r))
  <2>0. facts[r] \in Facts /\ k \in Key
    BY <1>6, Questions DEF Get, FactsAreBuilt
  <2>1. CASE Hit(r, k)
    <3>1. k \in DOMAIN items
      BY <2>1 DEF Hit, Live
    <3>2. ll' \in Seq(Key) /\ CacheBounded'
      BY <2>1, <3>1, HitKeepsBound DEF Hit
    <3>3. items[k].result \in Answer
      BY <3>1 DEF TypeOK, Entry
    <3>4. Succeed(r, items[k].result)
      BY <2>1 DEF Hit
    <3>5. used' \in Seq(Key)
      BY <2>0, <2>1 DEF Hit, TypeOK
    <3> HIDE DEF k
    <3> QED
      BY <1>6, <2>1, <3>2, <3>3, <3>4, <3>5, AnswersTyped
      DEF Get, Hit, TypeOK
  <2>2. CASE Miss(r, k)
    <3>1. ll' \in Seq(Key) /\ items' \in [DOMAIN items' -> Entry] /\ CacheBounded'
      <4>1. CASE k \in DOMAIN items
        BY <2>2, <4>1, RemoveKeepsBound DEF Miss
      <4>2. CASE k \notin DOMAIN items
        BY <2>2, <4>2 DEF Miss, TypeOK, CacheBounded
      <4> QED
        BY <4>1, <4>2
    <3> HIDE DEF k
    <3> QED
      BY <1>6, <2>2, <3>1 DEF Get, Miss, TypeOK
  <2> QED
    BY <1>6, <2>1, <2>2 DEF Get
<1>7. ASSUME NEW r \in Request, Set(r) PROVE Both
  <2>1. facts[r] \in Facts /\ held[r] \in Answer
    BY <1>7 DEF Set, FactsAreBuilt, HoldsOwnAnswer
  <2>2. ll' \in Seq(Key) /\ items' \in [DOMAIN items' -> Entry] /\ CacheBounded'
    BY <1>7, <2>1, SetKeepsBound
  <2>3. Succeed(r, held[r])
    BY <1>7 DEF Set
  <2>4. used' \in Seq(Key)
    BY <1>7, <2>1, Questions DEF Set, TypeOK
  <2>5. given' \in SUBSET [answer : Answer, at : Nat]
    BY <1>7, <2>1 DEF Set, TypeOK
  <2> QED
    BY <1>7, <2>1, <2>2, <2>3, <2>4, <2>5, AnswersTyped DEF Set, TypeOK
<1>8. ASSUME NEW r \in Request, ModelAnswers(r) PROVE Both
  <2>1. facts[r] \in Facts
    BY <1>8 DEF ModelAnswers, Calls, FactsAreBuilt
  <2>2. PICK t \in Text \union Rejected :
          \/ /\ GatePasses(t)
             /\ held' = [held EXCEPT
                    ![r] = [question |-> QuestionOf(r), text |-> t]]
             /\ pc' = [pc EXCEPT ![r] = "set"]
             /\ UNCHANGED next
          \/ ~GatePasses(t) /\ Skip(r) /\ UNCHANGED held
    BY <1>8 DEF ModelAnswers
  <2>3. CASE GatePasses(t)
    <3>1. [question |-> QuestionOf(r), text |-> t] \in Answer
      BY <2>1, <2>3, Questions DEF GatePasses, Answer, Promise!Answer, Question
    <3>2. /\ held' = [held EXCEPT
                          ![r] = [question |-> QuestionOf(r), text |-> t]]
          /\ pc' = [pc EXCEPT ![r] = "set"] /\ next' = next
      BY <2>2, <2>3
    <3>3. UNCHANGED <<clock, user, ll, items, given, used, facts, answers,
                      cancelled, began, since>>
      BY <1>8 DEF ModelAnswers, Calls, cache
    <3>4. held' \in [Request -> Answer \union {NoAnswer}]
      BY <3>1, <3>2 DEF TypeOK
    <3>5. pc' \in [Request -> {"idle"} \union Running \union Returned]
      BY <3>2 DEF TypeOK
    <3> QED
      BY <3>2, <3>3, <3>4, <3>5 DEF TypeOK, CacheBounded
  <2>4. CASE ~GatePasses(t)
    BY <1>8, <2>2, <2>4, NextCategoryTyped
    DEF ModelAnswers, Calls, TypeOK, CacheBounded, cache
  <2> QED
    BY <2>3, <2>4
<1>9. ASSUME NEW r \in Request, ModelMalformed(r) PROVE Both
  BY <1>9 DEF ModelMalformed, Calls, TypeOK, CacheBounded, cache
<1>10. ASSUME NEW r \in Request, ModelFails(r) PROVE Both
  BY <1>10, NextCategoryTyped
  DEF ModelFails, Calls, TypeOK, CacheBounded, cache
<1>11. CASE UNCHANGED vars
  BY <1>11 DEF vars, cache, request, TypeOK, CacheBounded
<1> QED
  BY <1>1, <1>2, <1>3, <1>4, <1>5, <1>6, <1>7, <1>8, <1>9, <1>10, <1>11
  DEF Next, Step
---------------------------------------------------------------------------
(* The other parts of the invariant.                                       *)

\* How Skip and NextCategory move a request.
Moved(r, to) ==
    /\ pc' = [pc EXCEPT ![r] = to]
    /\ IF to = "get" THEN next' = [next EXCEPT ![r] = @ + 1] ELSE next' = next

LEMMA Moves ==
  ASSUME NEW r \in Request, NextCategory(r) \/ Skip(r)
  PROVE  \E to \in {"get", "replied", "lost", "failed"} : Moved(r, to)
<1>1. ASSUME NextCategory(r)
      PROVE  \E to \in {"get", "replied", "lost"} : Moved(r, to)
  BY <1>1 DEF NextCategory, Return, Moved
<1>2. CASE cancelled[r] /\ Skip(r)
  <2>1. Moved(r, "failed")
    BY <1>2 DEF Skip, Moved
  <2> QED
    BY <2>1
<1> QED
  BY <1>1, <1>2 DEF Skip

\* A request whose category is over is no longer in the middle of one.
LEMMA FactsStep ==
  ASSUME TypeOK, FactsAreBuilt, [Next]_vars
  PROVE  FactsAreBuilt'
<1> USE DEF Calling
<1>1. CASE Tick
  BY <1>1 DEF Tick, FactsAreBuilt, request
<1>2. CASE Restart
  BY <1>2 DEF Restart, FactsAreBuilt, TypeOK, Running
<1>3. ASSUME NEW r \in Request, Begin(r) PROVE FactsAreBuilt'
  BY <1>3 DEF Begin, FactsAreBuilt, TypeOK
<1>4. ASSUME NEW r \in Request, Cancel(r) PROVE FactsAreBuilt'
  BY <1>4 DEF Cancel, FactsAreBuilt
<1>5. ASSUME NEW r \in Request, BuildFacts(r) PROVE FactsAreBuilt'
  BY <1>5 DEF BuildFacts, Return, FactsAreBuilt, TypeOK
<1>6. ASSUME NEW r \in Request, NEW to \in {"get", "replied", "lost", "failed"},
             pc[r] \in Calling \union {"get", "set"}, Moved(r, to),
             facts' = facts
      PROVE  FactsAreBuilt'
  BY <1>6 DEF Moved, FactsAreBuilt, TypeOK
<1>7. ASSUME NEW r \in Request, Get(r) PROVE FactsAreBuilt'
  <2>1. CASE Hit(r, cacheKey(QuestionOf(r)))
    BY <1>6, <1>7, <2>1, Moves DEF Get, Hit, Succeed
  <2>2. CASE Miss(r, cacheKey(QuestionOf(r)))
    BY <1>7, <2>2 DEF Get, Miss, FactsAreBuilt, TypeOK
  <2> QED
    BY <1>7, <2>1, <2>2 DEF Get
<1>8. ASSUME NEW r \in Request, Set(r) PROVE FactsAreBuilt'
  BY <1>6, <1>8, Moves DEF Set, Succeed
<1>9. ASSUME NEW r \in Request, ModelAnswers(r) PROVE FactsAreBuilt'
  <2>1. CASE Skip(r)
    BY <1>6, <1>9, <2>1, Moves DEF ModelAnswers, Calls
  <2>2. CASE pc' = [pc EXCEPT ![r] = "set"]
    BY <1>9, <2>2 DEF ModelAnswers, Calls, FactsAreBuilt, TypeOK
  <2> QED
    BY <1>9, <2>1, <2>2 DEF ModelAnswers
<1>10. ASSUME NEW r \in Request, ModelMalformed(r) PROVE FactsAreBuilt'
  BY <1>10 DEF ModelMalformed, Calls, FactsAreBuilt, TypeOK
<1>11. ASSUME NEW r \in Request, ModelFails(r) PROVE FactsAreBuilt'
  BY <1>6, <1>11, Moves DEF ModelFails, Calls
<1>12. CASE UNCHANGED vars
  BY <1>12 DEF vars, request, FactsAreBuilt
<1> QED
  BY <1>1, <1>2, <1>3, <1>4, <1>5, <1>7, <1>8, <1>9, <1>10, <1>11, <1>12
  DEF Next, Step

\* Only ModelAnswers brings a request to Set, with the question it is at; until
\* Set runs the request does not move on.
LEMMA HoldsStep ==
  ASSUME TypeOK, FactsAreBuilt, HoldsOwnAnswer, [Next]_vars
  PROVE  HoldsOwnAnswer'
<1> USE DEF Calling, QuestionOf, Promise!QuestionOf
<1>1. CASE Tick
  BY <1>1 DEF Tick, HoldsOwnAnswer, request
<1>2. CASE Restart
  BY <1>2 DEF Restart, HoldsOwnAnswer, TypeOK, Running
<1>3. ASSUME NEW r \in Request, Begin(r) PROVE HoldsOwnAnswer'
  BY <1>3 DEF Begin, HoldsOwnAnswer, TypeOK
<1>4. ASSUME NEW r \in Request, Cancel(r) PROVE HoldsOwnAnswer'
  BY <1>4 DEF Cancel, HoldsOwnAnswer
<1>5. ASSUME NEW r \in Request, BuildFacts(r) PROVE HoldsOwnAnswer'
  BY <1>5 DEF BuildFacts, Return, HoldsOwnAnswer, TypeOK
<1>6. ASSUME NEW r \in Request, NEW to \in {"get", "replied", "lost", "failed"},
             Moved(r, to), UNCHANGED <<user, facts>>,
             \A q \in Request \ {r} : held'[q] = held[q]
      PROVE  HoldsOwnAnswer'
  BY <1>6 DEF Moved, HoldsOwnAnswer, TypeOK
<1>7. ASSUME NEW r \in Request, Get(r) PROVE HoldsOwnAnswer'
  <2>1. CASE Hit(r, cacheKey(QuestionOf(r)))
    BY <1>6, <1>7, <2>1, Moves DEF Get, Hit, Succeed
  <2>2. CASE Miss(r, cacheKey(QuestionOf(r)))
    BY <1>7, <2>2 DEF Get, Miss, HoldsOwnAnswer, TypeOK
  <2> QED
    BY <1>7, <2>1, <2>2 DEF Get
<1>8. ASSUME NEW r \in Request, Set(r) PROVE HoldsOwnAnswer'
  <2>1. \A q \in Request \ {r} : held'[q] = held[q]
    BY <1>8 DEF Set, TypeOK
  <2> QED
    BY <1>6, <1>8, <2>1, Moves DEF Set, Succeed
<1>9. ASSUME NEW r \in Request, ModelAnswers(r) PROVE HoldsOwnAnswer'
  <2>1. facts[r] \in Facts
    BY <1>9 DEF ModelAnswers, Calls, FactsAreBuilt
  <2>2. PICK t \in Text \union Rejected :
          \/ /\ GatePasses(t)
             /\ held' = [held EXCEPT
                    ![r] = [question |-> QuestionOf(r), text |-> t]]
             /\ pc' = [pc EXCEPT ![r] = "set"]
             /\ UNCHANGED next
          \/ ~GatePasses(t) /\ Skip(r) /\ UNCHANGED held
    BY <1>9 DEF ModelAnswers
  <2>3. CASE GatePasses(t)
    <3>1. [question |-> QuestionOf(r), text |-> t] \in Answer
      BY <2>1, <2>3, Questions DEF GatePasses, Answer, Promise!Answer, Question
    <3> DEFINE a == [question |-> QuestionOf(r), text |-> t]
    <3>2. a \in Answer /\ a.question = QuestionOf(r)
      BY <3>1
    <3> HIDE DEF a
    <3>3. /\ held' = [held EXCEPT ![r] = a] /\ pc' = [pc EXCEPT ![r] = "set"]
          /\ next' = next /\ UNCHANGED <<user, facts>>
      BY <1>9, <2>2, <2>3 DEF ModelAnswers, Calls, a
    <3> QED
      BY <3>2, <3>3 DEF HoldsOwnAnswer, TypeOK
  <2>4. CASE ~GatePasses(t)
    BY <1>6, <1>9, <2>2, <2>4, Moves DEF ModelAnswers, Calls
  <2> QED
    BY <2>3, <2>4
<1>10. ASSUME NEW r \in Request, ModelMalformed(r) PROVE HoldsOwnAnswer'
  BY <1>10 DEF ModelMalformed, Calls, HoldsOwnAnswer, TypeOK
<1>11. ASSUME NEW r \in Request, ModelFails(r) PROVE HoldsOwnAnswer'
  BY <1>6, <1>11, Moves DEF ModelFails, Calls
<1>12. CASE UNCHANGED vars
  BY <1>12 DEF vars, request, HoldsOwnAnswer
<1> QED
  BY <1>1, <1>2, <1>3, <1>4, <1>5, <1>7, <1>8, <1>9, <1>10, <1>11, <1>12
  DEF Next, Step

\* A category is answered when the request leaves it, and only then.
LEMMA UnansweredStep ==
  ASSUME TypeOK, YetUnanswered, [Next]_vars
  PROVE  YetUnanswered'
<1> USE DEF Running, Calling
<1>1. CASE Tick
  BY <1>1 DEF Tick, YetUnanswered, request
<1>2. CASE Restart
  BY <1>2 DEF Restart, YetUnanswered, TypeOK
<1>3. ASSUME NEW r \in Request, Begin(r) PROVE YetUnanswered'
  BY <1>3 DEF Begin, YetUnanswered, TypeOK
<1>4. ASSUME NEW r \in Request, Cancel(r) PROVE YetUnanswered'
  BY <1>4 DEF Cancel, YetUnanswered
<1>5. ASSUME NEW r \in Request, BuildFacts(r) PROVE YetUnanswered'
  BY <1>5 DEF BuildFacts, Return, YetUnanswered, TypeOK
<1>6. ASSUME NEW r \in Request, NEW to \in {"get", "replied", "lost", "failed"},
             pc[r] \in Running, Moved(r, to),
             \A q \in Request \ {r} : answers'[q] = answers[q],
             \A i \in next[r] + 1 .. Len(AllCategories) :
                answers'[r][AllCategories[i]] = answers[r][AllCategories[i]]
      PROVE  YetUnanswered'
  <2>1. next[r] \in Nat /\ Len(AllCategories) \in Nat
    BY Categories DEF TypeOK
  <2>2. ASSUME NEW i \in next[r] + 1 .. Len(AllCategories)
        PROVE  answers'[r][AllCategories[i]] = NoAnswer
    <3>1. i \in next[r] .. Len(AllCategories)
      BY <2>1
    <3> QED
      BY <1>6, <3>1 DEF YetUnanswered
  <2>3. CASE to = "get"
    BY <1>6, <2>2, <2>3 DEF Moved, YetUnanswered, TypeOK
  <2>4. CASE to # "get"
    BY <1>6, <2>4 DEF Moved, YetUnanswered, TypeOK
  <2> QED
    BY <2>3, <2>4
<1>7. ASSUME NEW r \in Request, NEW a, pc[r] \in Running, Succeed(r, a)
      PROVE  YetUnanswered'
  <2>1. answers' = [answers EXCEPT ![r][AllCategories[next[r]]] = a]
    BY <1>7 DEF Succeed
  <2>2. next[r] \in 1 .. Len(AllCategories) /\ Len(AllCategories) \in Nat
    BY Categories DEF TypeOK
  <2>3. ASSUME NEW i \in next[r] + 1 .. Len(AllCategories)
        PROVE  answers'[r][AllCategories[i]] = answers[r][AllCategories[i]]
    <3>1. i \in 1 .. Len(AllCategories) /\ i # next[r]
      BY <2>2
    <3>2. AllCategories[i] # AllCategories[next[r]]
      BY <2>2, <3>1, Categories
    <3> QED
      BY <2>1, <3>2 DEF TypeOK
  <2>4. \A q \in Request \ {r} : answers'[q] = answers[q]
    BY <2>1 DEF TypeOK
  <2> QED
    BY <1>6, <1>7, <2>3, <2>4, Moves DEF Succeed
<1>8. ASSUME NEW r \in Request, pc[r] \in Running, Skip(r), answers' = answers
      PROVE  YetUnanswered'
  BY <1>6, <1>8, Moves
<1>9. ASSUME NEW r \in Request, Get(r) PROVE YetUnanswered'
  <2>1. CASE Hit(r, cacheKey(QuestionOf(r)))
    BY <1>7, <1>9, <2>1 DEF Get, Hit
  <2>2. CASE Miss(r, cacheKey(QuestionOf(r)))
    BY <1>9, <2>2 DEF Get, Miss, YetUnanswered, TypeOK
  <2> QED
    BY <1>9, <2>1, <2>2 DEF Get
<1>10. ASSUME NEW r \in Request, Set(r) PROVE YetUnanswered'
  BY <1>7, <1>10 DEF Set
<1>11. ASSUME NEW r \in Request, ModelAnswers(r) PROVE YetUnanswered'
  <2>1. CASE Skip(r)
    BY <1>8, <1>11, <2>1 DEF ModelAnswers, Calls
  <2>2. CASE pc' = [pc EXCEPT ![r] = "set"] /\ UNCHANGED next
    BY <1>11, <2>2 DEF ModelAnswers, Calls, YetUnanswered, TypeOK
  <2> QED
    BY <1>11, <2>1, <2>2 DEF ModelAnswers
<1>12. ASSUME NEW r \in Request, ModelMalformed(r) PROVE YetUnanswered'
  BY <1>12 DEF ModelMalformed, Calls, YetUnanswered, TypeOK
<1>13. ASSUME NEW r \in Request, ModelFails(r) PROVE YetUnanswered'
  BY <1>8, <1>13 DEF ModelFails, Calls
<1>14. CASE UNCHANGED vars
  BY <1>14 DEF vars, request, YetUnanswered
<1> QED
  BY <1>1, <1>2, <1>3, <1>4, <1>5, <1>9, <1>10, <1>11, <1>12, <1>13, <1>14
  DEF Next, Step

\* Removing entries and refreshing stamps leaves no entry that was not given:
\* only Set writes one, and records that it did.
LEMMA EntriesStep ==
  ASSUME TypeOK, FactsAreBuilt, HoldsOwnAnswer, EntriesWereGiven, [Next]_vars
  PROVE  EntriesWereGiven'
<1> DEFINE WasGiven(k, e, G) ==
        \E g \in G : /\ e.result = g.answer
                     /\ cacheKey(g.answer.question) = k
                     /\ e.expires = g.at + TTL
<1>1. ASSUME DOMAIN items' \subseteq DOMAIN items,
             \A k \in DOMAIN items' : items'[k] = items[k],
             given' = given
      PROVE  EntriesWereGiven'
  BY <1>1 DEF EntriesWereGiven, cacheKey
<1>2. ASSUME UNCHANGED <<items, given>> PROVE EntriesWereGiven'
  BY <1>1, <1>2
<1>3. CASE Tick
  BY <1>2, <1>3 DEF Tick, cache
<1>4. CASE Restart
  BY <1>1, <1>4 DEF Restart
<1>5. ASSUME NEW r \in Request, Begin(r) \/ Cancel(r) \/ BuildFacts(r)
      PROVE  EntriesWereGiven'
  BY <1>2, <1>5 DEF Begin, Cancel, BuildFacts, cache
<1>6. ASSUME NEW r \in Request, Get(r) PROVE EntriesWereGiven'
  <2> DEFINE k == cacheKey(QuestionOf(r))
  <2>1. CASE Hit(r, k)
    BY <1>2, <1>6, <2>1 DEF Get, Hit
  <2>2. CASE Miss(r, k)
    <3>1. CASE removeElement(k)
      BY <1>1, <1>6, <3>1 DEF Get, removeElement
    <3>2. CASE UNCHANGED items
      BY <1>2, <1>6, <3>2 DEF Get
    <3> QED
      BY <2>2, <3>1, <3>2 DEF Miss
  <2> QED
    BY <1>6, <2>1, <2>2 DEF Get
<1>7. ASSUME NEW r \in Request, Set(r) PROVE EntriesWereGiven'
  <2> DEFINE k == cacheKey(QuestionOf(r))
             new == [answer |-> held[r], at |-> clock]
             entry == [result |-> held[r], expires |-> clock + TTL]
  <2>1. given' = given \union {new}
    BY <1>7 DEF Set
  <2>2. /\ DOMAIN items' \subseteq DOMAIN items \union {k}
        /\ \A j \in DOMAIN items' : items'[j] = IF j = k THEN entry ELSE items[j]
    BY <1>7 DEF Set
  <2>3. WasGiven(k, entry, given')
    <3>1. cacheKey(held[r].question) = k
      BY <1>7 DEF Set, HoldsOwnAnswer
    <3>2. entry.result = new.answer /\ entry.expires = new.at + TTL
      OBVIOUS
    <3>3. cacheKey(new.answer.question) = k
      BY <3>1
    <3>4. new \in given'
      BY <2>1
    <3> HIDE DEF k, entry, new
    <3> QED
      BY <3>2, <3>3, <3>4
  <2> HIDE DEF k, entry, new
  <2>4. ASSUME NEW j \in DOMAIN items' PROVE WasGiven(j, items'[j], given')
    <3>1. CASE j = k
      BY <2>2, <2>3, <3>1
    <3>2. CASE j # k
      <4>1. j \in DOMAIN items /\ items'[j] = items[j]
        BY <2>2, <3>2
      <4>2. WasGiven(j, items[j], given)
        BY <4>1 DEF EntriesWereGiven
      <4> QED
        BY <2>1, <4>1, <4>2
    <3> QED
      BY <3>1, <3>2
  <2> QED
    BY <2>4 DEF EntriesWereGiven, cacheKey
<1>8. ASSUME NEW r \in Request,
             ModelAnswers(r) \/ ModelMalformed(r) \/ ModelFails(r)
      PROVE  EntriesWereGiven'
  BY <1>2, <1>8 DEF ModelAnswers, ModelMalformed, ModelFails, Calls, cache
<1>9. CASE UNCHANGED vars
  BY <1>2, <1>9 DEF vars, cache
<1> QED
  BY <1>3, <1>4, <1>5, <1>6, <1>7, <1>8, <1>9 DEF Next, Step

\* A request reaches its reply without an answer only by skipping its last
\* category, and Skip looks at the context first.
LEMMA CancelledStep ==
  ASSUME TypeOK, FactsAreBuilt, HoldsOwnAnswer, CancelledNotUnavailable,
         [Next]_vars
  PROVE  CancelledNotUnavailable'
<1> USE DEF Running, Calling, Available
<1>1. ASSUME NEW r \in Request, NEW to,
             pc' = [pc EXCEPT ![r] = to],
             to \notin {"replied", "lost"} \/ ~cancelled'[r] \/ Available(r)',
             \A q \in Request \ {r} : /\ cancelled'[q] = cancelled[q]
                                      /\ facts'[q] = facts[q]
                                      /\ answers'[q] = answers[q]
      PROVE  CancelledNotUnavailable'
  BY <1>1 DEF CancelledNotUnavailable, TypeOK
<1>2. CASE Tick
  BY <1>2 DEF Tick, CancelledNotUnavailable, request
<1>3. CASE Restart
  BY <1>3 DEF Restart, CancelledNotUnavailable, TypeOK
<1>4. ASSUME NEW r \in Request, Begin(r) PROVE CancelledNotUnavailable'
  BY <1>1, <1>4 DEF Begin
<1>5. ASSUME NEW r \in Request, Cancel(r) PROVE CancelledNotUnavailable'
  BY <1>5 DEF Cancel, CancelledNotUnavailable, TypeOK
<1>6. ASSUME NEW r \in Request, BuildFacts(r) PROVE CancelledNotUnavailable'
  <2>1. CASE facts' = facts
    <3>1. Available(r)'
      BY <1>6, <2>1 DEF BuildFacts, FactsAreBuilt
    <3> QED
      BY <1>1, <1>6, <2>1, <3>1 DEF BuildFacts, Return
  <2>2. CASE \E f \in Facts : /\ facts' = [facts EXCEPT ![r] = f]
                              /\ pc' = [pc EXCEPT ![r] = "get"]
    BY <1>1, <1>6, <2>2 DEF BuildFacts, TypeOK
  <2> QED
    BY <1>6, <2>1, <2>2 DEF BuildFacts
<1>7. ASSUME NEW r \in Request, NEW a \in Answer, Succeed(r, a),
             UNCHANGED <<facts, cancelled>>
      PROVE  CancelledNotUnavailable'
  <2>1. answers' = [answers EXCEPT ![r][AllCategories[next[r]]] = a]
    BY <1>7 DEF Succeed
  <2>2. AllCategories[next[r]] \in Category
    BY Categories DEF TypeOK
  <2>3. answers'[r][AllCategories[next[r]]] = a /\ a # NoAnswer
    BY <2>1, <2>2, NothingAssumption DEF TypeOK
  <2>4. Available(r)'
    BY <2>2, <2>3
  <2>5. \A q \in Request \ {r} : answers'[q] = answers[q]
    BY <2>1 DEF TypeOK
  <2>6. PICK to \in {"get", "replied", "lost", "failed"} : Moved(r, to)
    BY <1>7, Moves DEF Succeed
  <2> QED
    BY <1>1, <1>7, <2>4, <2>5, <2>6 DEF Moved
<1>8. ASSUME NEW r \in Request, Skip(r), UNCHANGED <<facts, cancelled, answers>>
      PROVE  CancelledNotUnavailable'
  <2>1. CASE cancelled[r]
    BY <1>1, <1>8, <2>1 DEF Skip
  <2>2. CASE ~cancelled[r]
    <3>1. PICK to \in {"get", "replied", "lost", "failed"} : Moved(r, to)
      BY <1>8, Moves
    <3> QED
      BY <1>1, <1>8, <2>2, <3>1 DEF Moved
  <2> QED
    BY <2>1, <2>2
<1>9. ASSUME NEW r \in Request, Get(r) PROVE CancelledNotUnavailable'
  <2>1. CASE Hit(r, cacheKey(QuestionOf(r)))
    <3>1. items[cacheKey(QuestionOf(r))].result \in Answer
      BY <2>1 DEF Hit, Live, TypeOK, Entry
    <3> QED
      BY <1>7, <1>9, <2>1, <3>1 DEF Get, Hit
  <2>2. CASE Miss(r, cacheKey(QuestionOf(r)))
    BY <1>1, <1>9, <2>2 DEF Get, Miss
  <2> QED
    BY <1>9, <2>1, <2>2 DEF Get
<1>10. ASSUME NEW r \in Request, Set(r) PROVE CancelledNotUnavailable'
  BY <1>7, <1>10 DEF Set, HoldsOwnAnswer
<1>11. ASSUME NEW r \in Request, ModelAnswers(r) PROVE CancelledNotUnavailable'
  <2>1. CASE Skip(r)
    BY <1>8, <1>11, <2>1 DEF ModelAnswers, Calls
  <2>2. CASE pc' = [pc EXCEPT ![r] = "set"]
    BY <1>1, <1>11, <2>2 DEF ModelAnswers, Calls
  <2> QED
    BY <1>11, <2>1, <2>2 DEF ModelAnswers
<1>12. ASSUME NEW r \in Request, ModelMalformed(r) PROVE CancelledNotUnavailable'
  BY <1>1, <1>12 DEF ModelMalformed, Calls
<1>13. ASSUME NEW r \in Request, ModelFails(r) PROVE CancelledNotUnavailable'
  BY <1>8, <1>13 DEF ModelFails, Calls
<1>14. CASE UNCHANGED vars
  BY <1>14 DEF vars, request, CancelledNotUnavailable
<1> QED
  BY <1>2, <1>3, <1>4, <1>5, <1>6, <1>9, <1>10, <1>11, <1>12, <1>13, <1>14
  DEF Next, Step

---------------------------------------------------------------------------
(* The theorems.                                                           *)

LEMMA InitHolds ==
  ASSUME Init
  PROVE  IndInv
<1>1. Len(AllCategories) \in Nat \ {0}
  BY Categories
<1>2. TypeOK
  BY <1>1, RequestAssumption DEF Init, TypeOK
<1>3. CacheBounded
  <2>1. ll = << >> /\ items = << >> /\ Len(ll) = 0 /\ DOMAIN ll = {}
    BY DEF Init
  <2>2. 0 <= Size
    BY ConfigAssumption
  <2> QED
    BY <2>1, <2>2 DEF CacheBounded, Range, IsInjective
<1>4. FactsAreBuilt /\ HoldsOwnAnswer
  BY DEF Init, FactsAreBuilt, HoldsOwnAnswer, Calling
<1>5. YetUnanswered
  BY Categories DEF Init, YetUnanswered
<1>6. EntriesWereGiven
  BY DEF Init, EntriesWereGiven
<1>7. CancelledNotUnavailable
  BY DEF Init, CancelledNotUnavailable
<1> QED
  BY <1>2, <1>3, <1>4, <1>5, <1>6, <1>7 DEF IndInv

\* IndInv holds in every reachable state, whatever the interleaving of requests,
\* cancellations, restarts and the provider's replies.
THEOREM IndInvCorrect == Spec => []IndInv
<1>1. Init => IndInv
  BY InitHolds
<1>2. IndInv /\ [Next]_vars => IndInv'
  BY TypeStep, FactsStep, HoldsStep, UnansweredStep, EntriesStep, CancelledStep
  DEF IndInv
<1> QED
  BY <1>1, <1>2, PTL DEF Spec

\* Every variable keeps its type.
THEOREM TypeCorrect == Spec => []TypeOK
<1>1. IndInv => TypeOK
  BY DEF IndInv
<1> QED
  BY <1>1, IndInvCorrect, PTL

\* memCache: the list and the map hold the same keys, each once, and never more
\* than INSIGHTER_CACHE_SIZE.
THEOREM CacheBoundedCorrect == Spec => []CacheBounded
<1>1. IndInv => CacheBounded
  BY DEF IndInv
<1> QED
  BY <1>1, IndInvCorrect, PTL

\* engine.Insights: a request whose client left is not reported as one the model
\* could not serve.
THEOREM CancelledCorrect == Spec => []CancelledNotUnavailable
<1>1. IndInv => CancelledNotUnavailable
  BY DEF IndInv
<1> QED
  BY <1>1, IndInvCorrect, PTL

---------------------------------------------------------------------------
(* The order of the list, and the uses behind it.                          *)

\* Of any two keys of a list, the one ahead is among those since the other.
Ordered(s, sinces) == \A i, j \in 1 .. Len(s) : j < i => s[j] \in sinces[s[i]]

LEMMA RemoveOrdered ==
  ASSUME NEW S, NEW s \in Seq(S), NEW i \in 1 .. Len(s), NEW sinces,
         Ordered(s, sinces)
  PROVE  Ordered(RemoveAt(s, i), sinces)
<1> DEFINE t == RemoveAt(s, i)
           Old(j) == IF j < i THEN j ELSE j + 1
<1>1. /\ Len(s) \in Nat /\ Len(t) = Len(s) - 1
      /\ \A j \in 1 .. Len(s) - 1 : t[j] = IF j < i THEN s[j] ELSE s[j + 1]
  BY RemoveAtIs
<1> HIDE DEF t
<1>2. ASSUME NEW j \in 1 .. Len(s) - 1
      PROVE  Old(j) \in 1 .. Len(s) /\ t[j] = s[Old(j)]
  BY <1>1
<1>3. ASSUME NEW a \in 1 .. Len(s) - 1, NEW b \in 1 .. Len(s) - 1, b < a
      PROVE  Old(b) < Old(a)
  BY <1>1, <1>3
<1> HIDE DEF Old
<1>4. ASSUME NEW a \in 1 .. Len(s) - 1, NEW b \in 1 .. Len(s) - 1, b < a
      PROVE  t[b] \in sinces[t[a]]
  <2>1. Old(b) < Old(a) /\ Old(a) \in 1 .. Len(s) /\ Old(b) \in 1 .. Len(s)
    BY <1>2, <1>3, <1>4
  <2>2. s[Old(b)] \in sinces[s[Old(a)]]
    BY <2>1 DEF Ordered
  <2> QED
    BY <1>2, <2>2
<1> QED
  BY <1>1, <1>4 DEF Ordered, t

LEMMA PushOrdered ==
  ASSUME NEW S, NEW s \in Seq(S), NEW k \in S, NEW sinces, Ordered(s, sinces),
         \A x \in Range(s) : k \in sinces[x]
  PROVE  Ordered(<<k>> \o s, sinces)
<1> DEFINE t == <<k>> \o s
<1>1. /\ Len(s) \in Nat /\ Len(t) = Len(s) + 1
      /\ \A j \in 1 .. Len(s) + 1 : t[j] = IF j = 1 THEN k ELSE s[j - 1]
  OBVIOUS
<1> HIDE DEF t
<1>2. ASSUME NEW a \in 1 .. Len(s) + 1, NEW b \in 1 .. Len(s) + 1, b < a
      PROVE  t[b] \in sinces[t[a]]
  <2>1. a - 1 \in 1 .. Len(s) /\ t[a] = s[a - 1]
    BY <1>1, <1>2
  <2>2. CASE b = 1
    <3>1. s[a - 1] \in Range(s) /\ t[b] = k
      BY <1>1, <2>1, <2>2 DEF Range
    <3> QED
      BY <2>1, <3>1
  <2>3. CASE b # 1
    <3>1. b - 1 \in 1 .. Len(s) /\ b - 1 < a - 1 /\ t[b] = s[b - 1]
      BY <1>1, <1>2, <2>3
    <3>2. s[b - 1] \in sinces[s[a - 1]]
      BY <2>1, <3>1 DEF Ordered
    <3> QED
      BY <2>1, <3>1, <3>2
  <2> QED
    BY <2>2, <2>3
<1> QED
  BY <1>1, <1>2 DEF Ordered, t

LEMMA FrontOrdered ==
  ASSUME NEW S, NEW s \in Seq(S), Len(s) # 0, NEW sinces, Ordered(s, sinces)
  PROVE  Ordered(Front(s), sinces)
<1> DEFINE t == Front(s)
<1>1. /\ Len(s) \in Nat /\ Len(t) = Len(s) - 1
      /\ \A j \in 1 .. Len(s) - 1 : t[j] = s[j]
  BY FrontIs
<1> HIDE DEF t
<1>2. ASSUME NEW a \in 1 .. Len(s) - 1, NEW b \in 1 .. Len(s) - 1, b < a
      PROVE  t[b] \in sinces[t[a]]
  <2>1. a \in 1 .. Len(s) /\ b \in 1 .. Len(s) /\ t[a] = s[a] /\ t[b] = s[b]
    BY <1>1
  <2> QED
    BY <1>2, <2>1 DEF Ordered
<1> QED
  BY <1>1, <1>2 DEF Ordered, t

\* A list without duplicates has as many elements as it is long.
LEMMA RangeSize ==
  ASSUME NEW S, NEW s \in Seq(S)
  PROVE  /\ IsFiniteSet(Range(s))
         /\ IsInjective(s) => Cardinality(Range(s)) = Len(s)
<1>1. Len(s) \in Nat /\ DOMAIN s = 1 .. Len(s)
  OBVIOUS
<1>2. IsFiniteSet(1 .. Len(s)) /\ Cardinality(1 .. Len(s)) = Len(s)
  <2>1. Len(s) \in Int /\ 1 \in Int /\ (1 > Len(s) => Len(s) = 0)
    BY <1>1
  <2>2. /\ IsFiniteSet(1 .. Len(s))
        /\ Cardinality(1 .. Len(s)) = IF 1 > Len(s) THEN 0 ELSE Len(s) - 1 + 1
    BY <2>1, FS_Interval
  <2> QED
    BY <2>1, <2>2
<1> DEFINE D == 1 .. Len(s)
<1>3. s \in Surjection(D, Range(s))
  BY <1>1 DEF Surjection, Range
<1>4. IsInjective(s) => s \in Injection(D, Range(s))
  BY <1>1 DEF Injection, Range
<1> HIDE DEF D
<1>5. /\ IsFiniteSet(Range(s))
      /\ Cardinality(Range(s)) = Cardinality(D) <=> s \in Injection(D, Range(s))
  BY <1>2, <1>3, FS_Surjection DEF D
<1> QED
  BY <1>2, <1>4, <1>5 DEF D

\* LastUse and UsedSince of any history.
IsLastUse(s, k, i) ==
    s[i] = k /\ \A j \in DOMAIN s : s[j] = k => j <= i
LastOf(s, k) == CHOOSE i \in DOMAIN s : IsLastUse(s, k, i)
Since(s, k) == {s[j] : j \in LastOf(s, k) + 1 .. Len(s)}
Sinces(s) == [k \in Key |-> Since(s, k)]
HasLast(s, k) == \E i \in DOMAIN s : IsLastUse(s, k, i)

LEMMA LastIs ==
  ASSUME NEW S, NEW s \in Seq(S), NEW k, NEW i \in DOMAIN s, IsLastUse(s, k, i)
  PROVE  LastOf(s, k) = i
<1>1. ASSUME NEW j \in DOMAIN s, IsLastUse(s, k, j) PROVE j = i
  <2>1. i <= j /\ j <= i /\ i \in Nat /\ j \in Nat
    BY <1>1 DEF IsLastUse
  <2> QED
    BY <2>1
<1> QED
  BY <1>1 DEF LastOf

\* One more use makes its key the last one, and one of those since any other.
LEMMA OneMoreUse ==
  ASSUME NEW S, NEW s \in Seq(S), NEW k \in S,
         \A x \in Range(s) : HasLast(s, x)
  PROVE  /\ Append(s, k) \in Seq(S)
         /\ Range(Append(s, k)) = Range(s) \union {k}
         /\ \A x \in Range(Append(s, k)) : HasLast(Append(s, k), x)
         /\ \A x \in Range(s) \ {k} :
               Since(Append(s, k), x) = Since(s, x) \union {k}
<1> DEFINE t == Append(s, k)
           n == Len(s) + 1
<1>1. /\ t \in Seq(S) /\ Len(t) = n /\ Len(s) \in Nat
      /\ \A j \in 1 .. Len(s) : t[j] = s[j]
      /\ t[n] = k
  OBVIOUS
<1>2. DOMAIN s = 1 .. Len(s) /\ DOMAIN t = 1 .. n /\ 1 .. n = 1 .. Len(s) \union {n}
  BY <1>1
<1> HIDE DEF t
<1>3. Range(t) = Range(s) \union {k}
  <2>1. ASSUME NEW x \in Range(t) PROVE x \in Range(s) \union {k}
    <3>1. PICK j \in 1 .. Len(s) \union {n} : x = t[j]
      BY <1>2 DEF Range
    <3> QED
      BY <1>1, <1>2, <3>1 DEF Range
  <2>2. ASSUME NEW x \in Range(s) PROVE x \in Range(t)
    <3>1. PICK j \in 1 .. Len(s) : x = s[j]
      BY <1>2 DEF Range
    <3> QED
      BY <1>1, <1>2, <3>1 DEF Range
  <2>3. k \in Range(t)
    BY <1>1, <1>2 DEF Range
  <2> QED
    BY <2>1, <2>2, <2>3
<1>4. HasLast(t, k)
  <2>1. n \in DOMAIN t /\ \A j \in DOMAIN t : j <= n
    BY <1>1, <1>2
  <2> QED
    BY <1>1, <2>1 DEF HasLast, IsLastUse
<1>5. ASSUME NEW x \in Range(s) \ {k}
      PROVE  HasLast(t, x) /\ Since(t, x) = Since(s, x) \union {k}
  <2>1. PICK i \in DOMAIN s : IsLastUse(s, x, i)
    BY DEF HasLast
  <2>2. i \in 1 .. Len(s) /\ i \in DOMAIN t
    BY <1>2, <2>1
  <2>3. IsLastUse(t, x, i)
    <3>1. t[i] = x
      BY <1>1, <2>1, <2>2 DEF IsLastUse
    <3>2. ASSUME NEW j \in DOMAIN t, t[j] = x PROVE j <= i
      <4>1. j \in 1 .. Len(s)
        BY <1>1, <1>2, <3>2
      <4> QED
        BY <1>1, <1>2, <2>1, <3>2, <4>1 DEF IsLastUse
    <3> QED
      BY <3>1, <3>2 DEF IsLastUse
  <2>4. LastOf(s, x) = i /\ LastOf(t, x) = i
    BY <1>1, <2>1, <2>2, <2>3, LastIs
  <2>5. i + 1 .. n = (i + 1 .. Len(s)) \union {n}
    BY <1>1, <2>2
  <2>6. \A j \in i + 1 .. Len(s) : t[j] = s[j]
    <3>1. \A j \in i + 1 .. Len(s) : j \in 1 .. Len(s)
      BY <1>1, <2>2
    <3> QED
      BY <1>1, <3>1
  <2>7. Since(t, x) = {t[j] : j \in (i + 1 .. Len(s)) \union {n}}
    BY <1>1, <2>4, <2>5 DEF Since
  <2>8. Since(s, x) = {s[j] : j \in i + 1 .. Len(s)}
    BY <2>4 DEF Since
  <2> HIDE DEF n
  <2>9. Since(t, x) = Since(s, x) \union {k}
    BY <1>1, <2>6, <2>7, <2>8
  <2> QED
    BY <2>2, <2>3, <2>9 DEF HasLast
<1>6. \A x \in Range(t) : HasLast(t, x)
  BY <1>3, <1>4, <1>5
<1> QED
  BY <1>1, <1>3, <1>5, <1>6 DEF t

\* Those since a use are no fewer than those among them.
LEMMA SinceSize ==
  ASSUME NEW S, NEW s \in Seq(S), NEW x, HasLast(s, x), NEW T \in SUBSET Since(s, x)
  PROVE  /\ IsFiniteSet(T) /\ Cardinality(T) <= Cardinality(Since(s, x))
         /\ Cardinality(T) \in Nat /\ Cardinality(Since(s, x)) \in Nat
<1>1. PICK i \in DOMAIN s : IsLastUse(s, x, i)
  BY DEF HasLast
<1>2. LastOf(s, x) = i
  BY <1>1, LastIs
<1>3. i \in 1 .. Len(s) /\ DOMAIN s = 1 .. Len(s) /\ Len(s) \in Nat
  BY <1>1
<1>4. \A j \in i + 1 .. Len(s) : j \in DOMAIN s
  BY <1>3
<1>5. Since(s, x) \in SUBSET Range(s)
  BY <1>2, <1>4 DEF Since, Range
<1>6. IsFiniteSet(Since(s, x))
  BY <1>5, RangeSize, FS_Subset
<1> QED
  BY <1>6, FS_Subset, FS_CardinalityType

---------------------------------------------------------------------------
(* KeptWhileRecent.                                                        *)

\* The parts of RecencyInv in these terms.
UsesLast == \A k \in Range(used) : HasLast(used, k)
ListedByUse == Range(ll) \subseteq Range(used) /\ Ordered(ll, Sinces(used))
Over(k) == \A g \in given :
              cacheKey(g.answer.question) = k => g.at + TTL <= clock
Gone == \A k \in Range(used) \ DOMAIN items :
           Size <= Cardinality(Since(used, k)) \/ Over(k)
Recency == UsesLast /\ ListedByUse /\ EntryOutlasts /\ Gone

LEMMA RecencyNow ==
  ASSUME ll \in Seq(Key)
  PROVE  RecencyInv <=> Recency
<1>1. \A k : UsedSince(k) = Since(used, k)
  BY DEF UsedSince, LastUse, Since, LastOf, IsLastUse
<1>2. UsesHaveLast <=> UsesLast
  BY DEF UsesHaveLast, UsesLast, HasLast, IsLastUse
<1>3. AheadIsUsedSince <=> ListedByUse
  <2>1. \A i \in 1 .. Len(ll) : Sinces(used)[ll[i]] = UsedSince(ll[i])
    BY <1>1 DEF Sinces
  <2> QED
    BY <2>1 DEF AheadIsUsedSince, ListedByUse, Ordered
<1>4. GoneForAReason <=> Gone
  BY <1>1 DEF GoneForAReason, Gone, Over
<1> QED
  BY <1>2, <1>3, <1>4 DEF RecencyInv, Recency

LEMMA RecencyNext ==
  ASSUME ll' \in Seq(Key)
  PROVE  RecencyInv' <=> Recency'
<1>1. \A k : UsedSince(k)' = Since(used', k)
  BY DEF UsedSince, LastUse, Since, LastOf, IsLastUse
<1>2. UsesHaveLast' <=> UsesLast'
  BY DEF UsesHaveLast, UsesLast, HasLast, IsLastUse
<1>3. AheadIsUsedSince' <=> ListedByUse'
  <2>1. \A k \in Key : Sinces(used')[k] = UsedSince(k)'
    BY <1>1 DEF Sinces
  <2>2. \A i \in 1 .. Len(ll') : ll'[i] \in Key
    OBVIOUS
  <2>3. AheadIsUsedSince' => ListedByUse'
    BY <2>1, <2>2 DEF AheadIsUsedSince, ListedByUse, Ordered
  <2>4. ListedByUse' => AheadIsUsedSince'
    BY <2>1, <2>2 DEF AheadIsUsedSince, ListedByUse, Ordered
  <2> QED
    BY <2>3, <2>4
<1>4. GoneForAReason' <=> Gone'
  BY <1>1 DEF GoneForAReason, Gone, Over
<1> QED
  BY <1>2, <1>3, <1>4 DEF RecencyInv, Recency

\* A use of k: k comes last, and is one more since the use of any other.
LEMMA UseOf ==
  ASSUME TypeOK, UsesLast, NEW k \in Key, used' = Append(used, k)
  PROVE  /\ UsesLast'
         /\ Range(used') = Range(used) \union {k}
         /\ \A x \in Range(used) \ {k} :
               /\ Since(used', x) = Since(used, x) \union {k}
               /\ Size <= Cardinality(Since(used, x)) =>
                     Size <= Cardinality(Since(used', x))
<1>1. used \in Seq(Key) /\ \A x \in Range(used) : HasLast(used, x)
  BY DEF TypeOK, UsesLast
<1>2. /\ used' \in Seq(Key)
      /\ Range(used') = Range(used) \union {k}
      /\ \A x \in Range(used') : HasLast(used', x)
      /\ \A x \in Range(used) \ {k} : Since(used', x) = Since(used, x) \union {k}
  BY <1>1, OneMoreUse
<1>3. ASSUME NEW x \in Range(used) \ {k}, Size <= Cardinality(Since(used, x))
      PROVE  Size <= Cardinality(Since(used', x))
  <2>1. HasLast(used', x) /\ Since(used, x) \in SUBSET Since(used', x)
    BY <1>2
  <2>2. /\ Cardinality(Since(used, x)) <= Cardinality(Since(used', x))
        /\ Cardinality(Since(used, x)) \in Nat
        /\ Cardinality(Since(used', x)) \in Nat
    BY <1>2, <2>1, SinceSize
  <2>3. Size \in Nat
    BY ConfigAssumption
  <2> QED
    BY <1>3, <2>2, <2>3
<1> QED
  BY <1>2, <1>3 DEF UsesLast

LEMMA UnlinkedOrdered ==
  ASSUME TypeOK, CacheBounded, NEW k \in DOMAIN items, NEW sinces,
         Ordered(ll, sinces)
  PROVE  Ordered(Unlinked(k), sinces)
<1>1. ll \in Seq(Key) /\ Range(ll) = DOMAIN items /\ DOMAIN ll = 1 .. Len(ll)
  BY DEF TypeOK, CacheBounded
<1> DEFINE i == CHOOSE i \in 1 .. Len(ll) : ll[i] = k
<1>2. i \in 1 .. Len(ll)
  BY <1>1 DEF Range
<1>3. Unlinked(k) = RemoveAt(ll, i)
  BY DEF Unlinked
<1> HIDE DEF i
<1> QED
  BY <1>1, <1>2, <1>3, RemoveOrdered

\* The list with k in front is in the order of the uses with that of k.
LEMMA PushedOrdered ==
  ASSUME TypeOK, CacheBounded, UsesLast, ListedByUse, NEW k \in Key,
         used' = Append(used, k)
  PROVE  Ordered(Pushed(k), Sinces(used')) /\ Range(Pushed(k)) \subseteq Range(used')
<1> DEFINE rest == IF k \in DOMAIN items THEN Unlinked(k) ELSE ll
<1>1. /\ rest \in Seq(Key) /\ Range(rest) = DOMAIN items \ {k}
      /\ Ordered(rest, Sinces(used))
  <2>1. CASE k \in DOMAIN items
    BY <2>1, UnlinkedProperties, UnlinkedOrdered DEF ListedByUse
  <2>2. CASE k \notin DOMAIN items
    BY <2>2 DEF TypeOK, CacheBounded, ListedByUse
  <2> QED
    BY <2>1, <2>2
<1>2. Pushed(k) = <<k>> \o rest
  BY DEF Pushed
<1> HIDE DEF rest
<1>3. Range(ll) = DOMAIN items /\ Range(ll) \subseteq Range(used)
  BY DEF CacheBounded, ListedByUse
<1>4. /\ Range(used') = Range(used) \union {k}
      /\ \A x \in Range(used) \ {k} : Since(used', x) = Since(used, x) \union {k}
  BY UseOf
<1>5. \A i \in 1 .. Len(rest) : rest[i] \in Key /\ rest[i] \in Range(used) \ {k}
  <2>1. DOMAIN rest = 1 .. Len(rest) /\ \A i \in 1 .. Len(rest) : rest[i] \in Key
    BY <1>1
  <2>2. \A i \in 1 .. Len(rest) : rest[i] \in Range(rest)
    BY <2>1 DEF Range
  <2> QED
    BY <1>1, <1>3, <2>1, <2>2
<1>6. Ordered(rest, Sinces(used'))
  BY <1>1, <1>4, <1>5 DEF Ordered, Sinces
<1>7. \A x \in Range(rest) : k \in Sinces(used')[x]
  <2> SUFFICES ASSUME NEW x \in Range(rest) PROVE k \in Sinces(used')[x]
    OBVIOUS
  <2>1. PICK i \in 1 .. Len(rest) : x = rest[i]
    BY <1>1 DEF Range
  <2>3. x \in Range(used) \ {k} /\ x \in Key
    BY <1>5, <2>1
  <2>2. Sinces(used')[x] = Since(used, x) \union {k}
    BY <1>4, <2>3 DEF Sinces
  <2> QED
    BY <2>2
<1>8. Ordered(Pushed(k), Sinces(used'))
  BY <1>1, <1>2, <1>6, <1>7, PushOrdered
<1>9. Range(Pushed(k)) = DOMAIN items \union {k}
  BY PushedProperties
<1> QED
  BY <1>3, <1>4, <1>8, <1>9

LEMMA HitKeepsRecency ==
  ASSUME TypeOK, CacheBounded, Recency, NEW k \in Key, k \in DOMAIN items,
         ll' = <<k>> \o Unlinked(k), used' = Append(used, k),
         UNCHANGED <<clock, given, items>>
  PROVE  Recency'
<1>1. UsesLast /\ ListedByUse /\ EntryOutlasts /\ Gone
  BY DEF Recency
<1>2. ll' = Pushed(k)
  BY DEF Pushed
<1>3. ListedByUse'
  BY <1>1, <1>2, PushedOrdered DEF ListedByUse
<1>4. EntryOutlasts'
  BY <1>1 DEF EntryOutlasts
<1>5. Gone'
  <2>1. /\ Range(used') = Range(used) \union {k}
        /\ \A x \in Range(used) \ {k} :
              Size <= Cardinality(Since(used, x)) =>
                 Size <= Cardinality(Since(used', x))
    BY <1>1, UseOf
  <2>2. \A x : Over(x)' <=> Over(x)
    BY DEF Over
  <2> QED
    BY <1>1, <2>1, <2>2 DEF Gone
<1>6. UsesLast'
  BY <1>1, UseOf
<1> QED
  BY <1>3, <1>4, <1>5, <1>6 DEF Recency

\* An entry is removed when it has expired, and all that was stored under its
\* key with it.
LEMMA RemoveKeepsRecency ==
  ASSUME TypeOK, CacheBounded, Recency, NEW k \in DOMAIN items, ~Live(k),
         removeElement(k), UNCHANGED <<clock, given, used>>
  PROVE  Recency'
<1>1. UsesLast /\ ListedByUse /\ EntryOutlasts /\ Gone
  BY DEF Recency
<1>2. /\ ll' = Unlinked(k) /\ DOMAIN items' = DOMAIN items \ {k}
      /\ \A j \in DOMAIN items' : items'[j] = items[j]
  BY DEF removeElement
<1>3. UsesLast'
  BY <1>1 DEF UsesLast
<1>4. ListedByUse'
  <2>1. Ordered(Unlinked(k), Sinces(used))
    BY <1>1, UnlinkedOrdered DEF ListedByUse
  <2>2. Range(Unlinked(k)) \subseteq Range(used)
    BY <1>1, UnlinkedProperties DEF ListedByUse, CacheBounded
  <2> QED
    BY <1>2, <2>1, <2>2 DEF ListedByUse
<1>5. EntryOutlasts'
  BY <1>1, <1>2 DEF EntryOutlasts
<1>6. Over(k)
  <2> SUFFICES ASSUME NEW g \in given, cacheKey(g.answer.question) = k
               PROVE  g.at + TTL <= clock
    BY DEF Over
  <2>1. g.at + TTL <= items[k].expires
    BY <1>1 DEF EntryOutlasts
  <2>2. items[k].expires <= clock
    BY DEF Live, TypeOK, Entry
  <2>3. /\ g.at + TTL \in Nat /\ items[k].expires \in Nat /\ clock \in Nat
    BY ConfigAssumption DEF TypeOK, Entry
  <2> QED
    BY <2>1, <2>2, <2>3
<1>7. Gone'
  <2>1. \A x : Over(x)' <=> Over(x)
    BY DEF Over
  <2> QED
    BY <1>1, <1>2, <1>6, <2>1 DEF Gone
<1> QED
  BY <1>3, <1>4, <1>5, <1>7 DEF Recency

\* What Set evicts is behind Size others in the list, all used since.
LEMMA SetKeepsRecency ==
  ASSUME TypeOK, CacheBounded, Recency, NEW r \in Request, facts[r] \in Facts,
         held[r] \in Answer, held[r].question = QuestionOf(r), Set(r)
  PROVE  Recency'
<1> DEFINE k == cacheKey(QuestionOf(r))
           list == Pushed(k)
           oldest == IF Len(list) > Size THEN {Last(list)} ELSE {}
           new == [answer |-> held[r], at |-> clock]
<1>1. UsesLast /\ ListedByUse /\ EntryOutlasts /\ Gone
  BY DEF Recency
<1>2. k \in Key /\ cacheKey(new.answer.question) = k /\ new.at = clock
  BY Questions
<1>3. /\ ll' = Kept(list)
      /\ DOMAIN items' = (DOMAIN items \union {k}) \ oldest
      /\ \A j \in DOMAIN items' : items'[j].expires =
            IF j = k THEN clock + TTL ELSE items[j].expires
      /\ given' = given \union {new}
      /\ used' = Append(used, k)
      /\ clock' = clock
  BY DEF Set
<1> HIDE DEF k, new
<1>4. /\ list \in Seq(Key) /\ IsInjective(list)
      /\ Range(list) = DOMAIN items \union {k}
      /\ Len(list) \in Nat /\ Len(list) <= Size + 1 /\ list[1] = k
  BY <1>2, PushedProperties
<1>5. Ordered(list, Sinces(used')) /\ Range(list) \subseteq Range(used')
  BY <1>1, <1>2, <1>3, PushedOrdered
<1> HIDE DEF list
<1>6. Size \in Nat \ {0} /\ TTL \in Nat
  BY ConfigAssumption
<1>7. /\ UsesLast'
      /\ Range(used') = Range(used) \union {k}
      /\ \A x \in Range(used) \ {k} :
            Size <= Cardinality(Since(used, x)) =>
               Size <= Cardinality(Since(used', x))
  BY <1>1, <1>2, <1>3, UseOf
<1>8. ASSUME Len(list) > Size
      PROVE  /\ Last(list) # k /\ Last(list) \in Range(list)
             /\ Size <= Cardinality(Since(used', Last(list)))
  <2> DEFINE n == Len(list)  x == Last(list)
  <2>1. n = Size + 1 /\ n # 0 /\ n \in 1 .. n /\ 1 \in 1 .. n /\ n # 1
    <3>1. n \in Nat /\ n <= Size + 1 /\ n > Size /\ Size \in Nat /\ Size # 0
      BY <1>4, <1>6, <1>8
    <3> HIDE DEF n
    <3> QED
      BY <3>1
  <2>2. x = list[n] /\ DOMAIN list = 1 .. n
    BY <1>4 DEF Last
  <2>3. x # k
    BY <1>4, <2>1, <2>2 DEF IsInjective
  <2>4. x \in Range(list)
    BY <2>1, <2>2 DEF Range
  <2>5. /\ Front(list) \in Seq(Key) /\ Len(Front(list)) = n - 1
        /\ IsInjective(Front(list))
        /\ \A j \in 1 .. n - 1 : Front(list)[j] = list[j]
    BY <1>4, <2>1, FrontIs, FrontProperties
  <2>6. IsFiniteSet(Range(Front(list))) /\ Cardinality(Range(Front(list))) = Size
    <3>1. Cardinality(Range(Front(list))) = n - 1 /\ IsFiniteSet(Range(Front(list)))
      BY <2>5, RangeSize
    <3> QED
      BY <1>6, <2>1, <3>1
  <2>7. x \in Key /\ HasLast(used', x) /\ used' \in Seq(Key)
    <3>1. used' \in Seq(Key)
      BY <1>2, <1>3 DEF TypeOK
    <3>2. x \in Key
      BY <1>4, <2>1, <2>2
    <3> QED
      BY <1>5, <1>7, <2>4, <3>1, <3>2 DEF UsesLast
  <2>8. Range(Front(list)) \in SUBSET Since(used', x)
    <3> SUFFICES ASSUME NEW y \in Range(Front(list)) PROVE y \in Since(used', x)
      OBVIOUS
    <3>1. PICK j \in 1 .. n - 1 : y = list[j]
      BY <2>5 DEF Range
    <3>2. j \in 1 .. n /\ j < n
      BY <1>4
    <3>3. list[j] \in Sinces(used')[list[n]]
      BY <1>5, <2>1, <3>2 DEF Ordered
    <3> QED
      BY <2>2, <2>7, <3>1, <3>3 DEF Sinces
  <2>9. Cardinality(Range(Front(list))) <= Cardinality(Since(used', x))
    BY <2>7, <2>8, SinceSize
  <2> QED
    BY <2>3, <2>4, <2>6, <2>9
<1>9. ListedByUse'
  <2>1. CASE Len(list) > Size
    <3>1. Len(list) # 0
      BY <1>6, <2>1
    <3>2. Ordered(Front(list), Sinces(used'))
      BY <1>4, <1>5, <3>1, FrontOrdered
    <3>3. Range(Front(list)) \subseteq Range(list)
      BY <1>4, <3>1, FrontProperties
    <3> QED
      BY <1>3, <1>5, <2>1, <3>2, <3>3 DEF ListedByUse, Kept
  <2>2. CASE ~(Len(list) > Size)
    BY <1>3, <1>5, <2>2 DEF ListedByUse, Kept
  <2> QED
    BY <2>1, <2>2
<1>10. EntryOutlasts'
  <2> SUFFICES ASSUME NEW g \in given'
               PROVE  LET q == cacheKey(g.answer.question)
                      IN  /\ g.at <= clock'
                          /\ q \in DOMAIN items' => g.at + TTL <= items'[q].expires
    BY DEF EntryOutlasts
  <2>1. clock \in Nat /\ \A f \in given : f.at \in Nat
    BY DEF TypeOK
  <2>2. g.at <= clock /\ g.at \in Nat
    BY <1>1, <1>2, <1>3, <2>1 DEF EntryOutlasts
  <2> DEFINE q == cacheKey(g.answer.question)
  <2>3. ASSUME q \in DOMAIN items', q = k PROVE g.at + TTL <= items'[q].expires
    <3>1. g.at + TTL <= clock + TTL
      BY <1>6, <2>1, <2>2
    <3> QED
      BY <1>3, <2>3, <3>1
  <2>4. ASSUME q \in DOMAIN items', q # k PROVE g.at + TTL <= items'[q].expires
    <3>1. g \in given /\ q \in DOMAIN items /\ items'[q].expires = items[q].expires
      BY <1>2, <1>3, <2>4
    <3> QED
      BY <1>1, <3>1 DEF EntryOutlasts
  <2> QED
    BY <1>3, <2>2, <2>3, <2>4
<1>11. Gone'
  <2> SUFFICES ASSUME NEW x \in Range(used') \ DOMAIN items'
               PROVE  Size <= Cardinality(Since(used', x)) \/ Over(x)'
    BY DEF Gone
  <2>1. CASE x \in oldest
    <3>1. Len(list) > Size /\ x = Last(list)
      BY <2>1
    <3> QED
      BY <1>8, <3>1
  <2>2. CASE x \notin oldest
    <3>1. x # k /\ x \in Range(used) \ DOMAIN items
      BY <1>3, <1>7, <2>2
    <3>2. CASE Size <= Cardinality(Since(used, x))
      BY <1>7, <3>1, <3>2
    <3>3. CASE Over(x)
      <4>1. Over(x)'
        BY <1>2, <1>3, <3>1, <3>3 DEF Over
      <4> QED
        BY <4>1
    <3> QED
      BY <1>1, <3>1, <3>2, <3>3 DEF Gone
  <2> QED
    BY <2>1, <2>2
<1> QED
  BY <1>7, <1>9, <1>10, <1>11 DEF Recency

\* The other steps leave the cache alone; time, and a restart, help the promise.
LEMMA RecencyStep ==
  ASSUME IndInv, RecencyInv, [Next]_vars, TypeOK'
  PROVE  RecencyInv'
<1>1. /\ TypeOK /\ CacheBounded /\ FactsAreBuilt /\ HoldsOwnAnswer
      /\ ll \in Seq(Key) /\ ll' \in Seq(Key)
  BY DEF IndInv, TypeOK
<1>2. Recency
  BY <1>1, RecencyNow
<1>3. UsesLast /\ ListedByUse /\ EntryOutlasts /\ Gone
  BY <1>2 DEF Recency
<1>4. ASSUME UNCHANGED <<clock, cache>> PROVE Recency'
  <2>1. UNCHANGED <<clock, ll, items, given, used>>
    BY <1>4 DEF cache
  <2> QED
    BY <1>3, <2>1
    DEF Recency, UsesLast, ListedByUse, EntryOutlasts, Gone, Over
<1>5. ASSUME Tick PROVE Recency'
  <2>1. clock' = clock + 1 /\ UNCHANGED <<ll, items, given, used>>
    BY <1>5 DEF Tick, cache
  <2>2. /\ clock \in Nat /\ TTL \in Nat
        /\ \A g \in given : g.at \in Nat /\ g.at + TTL \in Nat
    BY <1>1, ConfigAssumption DEF TypeOK
  <2>3. EntryOutlasts'
    <3>1. \A g \in given : g.at <= clock => g.at <= clock + 1
      BY <2>2
    <3> QED
      BY <1>3, <2>1, <3>1 DEF EntryOutlasts
  <2>4. Gone'
    <3>1. \A g \in given : g.at + TTL <= clock => g.at + TTL <= clock + 1
      BY <2>2
    <3>2. \A x : Over(x) => Over(x)'
      BY <2>1, <3>1 DEF Over
    <3> QED
      BY <1>3, <2>1, <3>2 DEF Gone
  <2>5. UsesLast'
    BY <1>3, <2>1 DEF UsesLast
  <2>6. ListedByUse'
    BY <1>3, <2>1 DEF ListedByUse
  <2> QED
    BY <2>5, <2>6, <2>3, <2>4, <2>5 DEF Recency
<1>6. ASSUME Restart PROVE Recency'
  <2>1. /\ ll' = << >> /\ items' = << >> /\ used' = << >>
        /\ UNCHANGED <<clock, given>>
    BY <1>6 DEF Restart
  <2>2. /\ Range(used') = {} /\ Range(ll') = {} /\ DOMAIN items' = {}
        /\ Len(ll') = 0
    BY <2>1 DEF Range
  <2>3. Ordered(ll', Sinces(used'))
    BY <2>2 DEF Ordered
  <2>4. EntryOutlasts'
    BY <1>3, <2>1, <2>2 DEF EntryOutlasts
  <2> QED
    BY <2>2, <2>3, <2>4 DEF Recency, UsesLast, ListedByUse, Gone
<1>7. ASSUME NEW r \in Request, Get(r) PROVE Recency'
  <2> DEFINE k == cacheKey(QuestionOf(r))
  <2>1. k \in Key
    BY <1>1, <1>7, Questions DEF Get, FactsAreBuilt
  <2>2. UNCHANGED <<clock, given>> /\ (Hit(r, k) \/ Miss(r, k))
    BY <1>7 DEF Get
  <2> HIDE DEF k
  <2>3. CASE Hit(r, k)
    <3>1. /\ k \in DOMAIN items /\ ll' = <<k>> \o Unlinked(k)
          /\ used' = Append(used, k) /\ UNCHANGED items
      BY <2>3 DEF Hit, Live
    <3> QED
      BY <1>1, <1>2, <2>1, <2>2, <3>1, HitKeepsRecency
  <2>4. CASE Miss(r, k) /\ k \in DOMAIN items
    <3>1. ~Live(k) /\ removeElement(k) /\ UNCHANGED used
      BY <2>4 DEF Miss
    <3> QED
      BY <1>1, <1>2, <2>2, <2>4, <3>1, RemoveKeepsRecency
  <2>5. CASE Miss(r, k) /\ k \notin DOMAIN items
    <3>1. UNCHANGED <<ll, items, used>>
      BY <2>5 DEF Miss
    <3> QED
      BY <1>4, <2>2, <3>1 DEF cache
  <2> QED
    BY <2>2, <2>3, <2>4, <2>5
<1>8. ASSUME NEW r \in Request, Set(r) PROVE Recency'
  <2>1. facts[r] \in Facts /\ held[r] \in Answer /\ held[r].question = QuestionOf(r)
    BY <1>1, <1>8 DEF Set, FactsAreBuilt, HoldsOwnAnswer
  <2> QED
    BY <1>1, <1>2, <1>8, <2>1, SetKeepsRecency
<1>9. ASSUME NEW r \in Request, Begin(r) \/ Cancel(r) \/ BuildFacts(r)
                                \/ ModelAnswers(r) \/ ModelMalformed(r)
                                \/ ModelFails(r)
      PROVE  UNCHANGED <<clock, cache>>
  BY <1>9 DEF Begin, Cancel, BuildFacts, ModelAnswers, ModelMalformed,
              ModelFails, Calls
<1>10. ASSUME UNCHANGED vars PROVE Recency'
  <2>1. UNCHANGED <<clock, cache>>
    BY <1>10 DEF vars
  <2> QED
    BY <1>4, <2>1
<1>11. Recency'
  <2>1. CASE \E r \in Request : Begin(r) \/ Cancel(r) \/ Step(r)
    <3>1. PICK r \in Request : Begin(r) \/ Cancel(r) \/ Step(r)
      BY <2>1
    <3>2. CASE Get(r) \/ Set(r)
      BY <1>7, <1>8, <3>2
    <3>3. CASE ~(Get(r) \/ Set(r))
      <4>1. UNCHANGED <<clock, cache>>
        BY <1>9, <3>1, <3>3 DEF Step
      <4> QED
        BY <1>4, <4>1
    <3> QED
      BY <3>2, <3>3
  <2> QED
    BY <1>5, <1>6, <1>10, <2>1 DEF Next
<1> QED
  BY <1>1, <1>11, RecencyNext

LEMMA RecencyInit ==
  ASSUME Init
  PROVE  RecencyInv
<1>1. ll = << >> /\ items = << >> /\ used = << >> /\ given = {}
  BY DEF Init
<1>2. Range(used) = {} /\ Range(ll) = {} /\ Len(ll) = 0
  BY <1>1 DEF Range
<1>3. AheadIsUsedSince
  BY <1>2 DEF AheadIsUsedSince
<1> QED
  BY <1>1, <1>2, <1>3 DEF RecencyInv, UsesHaveLast, EntryOutlasts, GoneForAReason

\* memCache: an answer stored less than INSIGHTER_CACHE_TTL ago is still served
\* unless INSIGHTER_CACHE_SIZE other questions were asked since its last use,
\* whichever requests looked up, stored, evicted or expired entries meanwhile.
THEOREM KeptWhileRecentCorrect == Spec => []KeptWhileRecent
<1> DEFINE Inv == IndInv /\ RecencyInv
<1>1. Init => Inv
  BY InitHolds, RecencyInit
<1>2. Inv /\ [Next]_vars => Inv'
  <2> SUFFICES ASSUME Inv, [Next]_vars PROVE Inv'
    OBVIOUS
  <2>1. IndInv'
    BY TypeStep, FactsStep, HoldsStep, UnansweredStep, EntriesStep, CancelledStep
    DEF IndInv
  <2>2. TypeOK'
    BY <2>1 DEF IndInv
  <2> QED
    BY <2>1, <2>2, RecencyStep
<1>3. Inv => KeptWhileRecent
  <2> SUFFICES ASSUME Inv, NEW g \in given,
                      cacheKey(g.answer.question) \in Range(used),
                      clock < g.at + TTL,
                      Cardinality(UsedSince(cacheKey(g.answer.question))) < Size
               PROVE  Live(cacheKey(g.answer.question))
    BY DEF KeptWhileRecent
  <2> DEFINE k == cacheKey(g.answer.question)
  <2>1. /\ clock \in Nat /\ g.at \in Nat /\ TTL \in Nat /\ g.at + TTL \in Nat
        /\ Size \in Nat
    BY ConfigAssumption DEF IndInv, TypeOK
  <2>2. Cardinality(UsedSince(k)) \in Nat
    <3>1. used \in Seq(Key) /\ UsesLast /\ UsedSince(k) = Since(used, k)
      BY DEF IndInv, TypeOK, RecencyInv, UsesHaveLast, UsesLast, HasLast,
             UsedSince, LastUse, Since, LastOf, IsLastUse
    <3>2. HasLast(used, k)
      BY <3>1 DEF UsesLast
    <3>3. Cardinality(Since(used, k)) \in Nat
      BY <3>1, <3>2, SinceSize
    <3> QED
      BY <3>1, <3>3
  <2>3. ~(Size <= Cardinality(UsedSince(k)))
    BY <2>1, <2>2
  <2>4. ~(g.at + TTL <= clock)
    BY <2>1
  <2>5. k \in DOMAIN items
    BY <2>3, <2>4 DEF RecencyInv, GoneForAReason
  <2>6. g.at + TTL <= items[k].expires /\ items[k].expires \in Nat
    BY <2>5 DEF RecencyInv, EntryOutlasts, IndInv, TypeOK, Entry
  <2>7. clock < items[k].expires
    BY <2>1, <2>6
  <2> QED
    BY <2>5, <2>7 DEF Live
<1> HIDE DEF Inv
<1> QED
  BY <1>1, <1>2, <1>3, PTL DEF Spec

---------------------------------------------------------------------------
(* The refinement: only Tick, BuildFacts, a hit and Set change what        *)
(* InsightAnswers speaks of.                                               *)

LEMMA PromisedInit ==
  ASSUME Init
  PROVE  Promise!Init
  BY DEF Init, Promise!Init

\* Answering the category a request is at.
LEMMA PromisedAnswer ==
  ASSUME IndInv, NEW r \in Request, NEW a,
         pc[r] \in {"get", "set"}, a.question = QuestionOf(r),
         Succeed(r, a), UNCHANGED <<clock, user, facts>>
  PROVE  /\ AllCategories[next[r]] \in Category
         /\ Promise!AnswerWith(r, AllCategories[next[r]], a)
<1>1. next[r] \in 1 .. Len(AllCategories) /\ Len(AllCategories) \in Nat
  BY Categories DEF IndInv, TypeOK
<1>2. AllCategories[next[r]] \in Category
  BY <1>1, Categories
<1>3. facts[r] \in Facts /\ facts[r] # NoFacts
  BY NothingAssumption DEF IndInv, FactsAreBuilt
<1>4. next[r] \in next[r] .. Len(AllCategories)
  BY <1>1
<1>5. answers[r][AllCategories[next[r]]] = NoAnswer
  BY <1>4 DEF IndInv, YetUnanswered, Running
<1> QED
  BY <1>2, <1>3, <1>5 DEF Promise!AnswerWith, Succeed, QuestionOf

LEMMA PromisedStep ==
  ASSUME IndInv, [Next]_vars
  PROVE  [Promise!Next]_Promise!vars
<1> USE DEF Promise!Next, Promise!vars
<1>1. CASE Tick
  BY <1>1 DEF Tick, Promise!Tick, cache, request
<1>2. CASE UNCHANGED <<clock, user, facts, given, answers>>
  BY <1>2
<1>3. ASSUME NEW r \in Request, BuildFacts(r) PROVE [Promise!Next]_Promise!vars
  <2>1. CASE facts' = facts
    BY <1>2, <1>3, <2>1 DEF BuildFacts, cache
  <2>2. CASE \E f \in Facts : facts' = [facts EXCEPT ![r] = f]
    <3>1. facts[r] = NoFacts
      BY <1>3 DEF BuildFacts, IndInv, FactsAreBuilt
    <3>2. Promise!BuildFacts(r)
      BY <1>3, <2>2, <3>1 DEF BuildFacts, Promise!BuildFacts, cache
    <3> QED
      BY <3>2
  <2> QED
    BY <1>3, <2>1, <2>2 DEF BuildFacts
<1>4. ASSUME NEW r \in Request, Get(r) PROVE [Promise!Next]_Promise!vars
  <2> DEFINE k == cacheKey(QuestionOf(r))
  <2>1. CASE Hit(r, k)
    <3>1. k \in DOMAIN items /\ clock < items[k].expires
      BY <2>1 DEF Hit, Live
    <3>2. PICK g \in given : /\ items[k].result = g.answer
                             /\ cacheKey(g.answer.question) = k
                             /\ items[k].expires = g.at + TTL
      BY <3>1 DEF IndInv, EntriesWereGiven
    <3>3. facts[r] \in Facts
      BY <1>4 DEF Get, IndInv, FactsAreBuilt
    <3>4. g.answer.question \in Question /\ QuestionOf(r) \in Question
      BY <3>3, Questions
      DEF IndInv, TypeOK, Answer, Promise!Answer, Question
    <3>5. g.answer.question = QuestionOf(r)
      BY <3>2, <3>4 DEF cacheKey, Question, Promise!Question
    <3>6. Succeed(r, g.answer) /\ UNCHANGED <<clock, user, facts, given>>
      BY <1>4, <2>1, <3>2 DEF Get, Hit
    <3>7. pc[r] = "get"
      BY <1>4 DEF Get
    <3>8. /\ AllCategories[next[r]] \in Category
          /\ Promise!AnswerWith(r, AllCategories[next[r]], g.answer)
      BY <3>5, <3>6, <3>7, PromisedAnswer
    <3>9. Promise!Again(r, AllCategories[next[r]])
      BY <3>1, <3>2, <3>6, <3>8 DEF Promise!Again
    <3> QED
      BY <3>8, <3>9
  <2>2. CASE Miss(r, k)
    BY <1>2, <1>4, <2>2 DEF Get, Miss
  <2> QED
    BY <1>4, <2>1, <2>2 DEF Get
<1>5. ASSUME NEW r \in Request, Set(r) PROVE [Promise!Next]_Promise!vars
  <2>1. held[r] \in Answer /\ held[r].question = QuestionOf(r)
    BY <1>5 DEF Set, IndInv, HoldsOwnAnswer
  <2>2. /\ pc[r] = "set" /\ Succeed(r, held[r]) /\ UNCHANGED <<clock, user, facts>>
        /\ given' = given \union {[answer |-> held[r], at |-> clock]}
    BY <1>5 DEF Set
  <2>3. /\ AllCategories[next[r]] \in Category
        /\ Promise!AnswerWith(r, AllCategories[next[r]], held[r])
    BY <2>1, <2>2, PromisedAnswer
  <2>4. /\ held[r].text \in Text
        /\ held[r] = [text |-> held[r].text, question |->
                         Promise!QuestionOf(r, AllCategories[next[r]])]
    BY <2>1 DEF Answer, Promise!Answer, Promise!QuestionOf, QuestionOf
  <2>5. Promise!Fresh(r, AllCategories[next[r]])
    BY <2>2, <2>3, <2>4 DEF Promise!Fresh
  <2> QED
    BY <2>3, <2>5
<1>6. CASE Restart
  BY <1>2, <1>6 DEF Restart
<1>7. ASSUME NEW r \in Request, Begin(r) \/ Cancel(r)
      PROVE  [Promise!Next]_Promise!vars
  BY <1>2, <1>7 DEF Begin, Cancel, cache
<1>8. ASSUME NEW r \in Request,
             ModelAnswers(r) \/ ModelMalformed(r) \/ ModelFails(r)
      PROVE  [Promise!Next]_Promise!vars
  BY <1>2, <1>8 DEF ModelAnswers, ModelMalformed, ModelFails, Calls, cache
<1>9. CASE UNCHANGED vars
  BY <1>2, <1>9 DEF vars, cache, request
<1> QED
  BY <1>1, <1>3, <1>4, <1>5, <1>6, <1>7, <1>8, <1>9 DEF Next, Step

\* The cached, gated, re-asking engine implements InsightAnswers: what a caller
\* is told was obtained for this caller's question, passed the gates, and is
\* younger than TTL.
THEOREM PromiseKept == Spec => KeepsPromise
<1>1. Init => Promise!Init
  BY PromisedInit
<1>2. IndInv /\ [Next]_vars => [Promise!Next]_Promise!vars
  BY PromisedStep
<1> QED
  BY <1>1, <1>2, IndInvCorrect, PTL DEF Spec, KeepsPromise, Promise!Spec

=============================================================================
