---------------------------- MODULE SchedulerProofs ----------------------------
(***************************************************************************)
(* Proofs about the scheduler, for every set of tasks and every bound of   *)
(* the clock.  SchedulerInv is inductive; the properties of module         *)
(* Scheduler and the refinement of TaskTimers follow from it.              *)
(***************************************************************************)
EXTENDS Scheduler, SequenceTheorems, TLAPS

(* What the list operations preserve, for lists of any length.             *)

\* RemoveAt drops one element and moves the later ones up.
LEMMA ListRemoveAtProperties ==
  ASSUME NEW S, NEW s \in Seq(S), NEW i \in 1..Len(s)
  PROVE  /\ RemoveAt(s, i) \in Seq(S)
         /\ Len(RemoveAt(s, i)) = Len(s) - 1
         /\ \A j \in 1..Len(s) - 1 : RemoveAt(s, i)[j] = IF j < i THEN s[j] ELSE s[j + 1]
<1> DEFINE a == SubSeq(s, 1, i - 1)
           b == SubSeq(s, i + 1, Len(s))
<1>0. Len(s) \in Nat /\ \A j \in 1..Len(s) : s[j] \in S
  BY ElementOfSeq
<1>1. a \in Seq(S) /\ Len(a) = i - 1 /\ \A j \in 1..i - 1 : a[j] = s[j]
  BY <1>0, SubSeqProperties, SMT
<1>2. /\ b \in Seq(S) /\ Len(b) = Len(s) - i
      /\ \A j \in 1..Len(s) - i : b[j] = s[i + j]
  <2>1. /\ b \in Seq(S) 
        /\ Len(b) = IF i + 1 <= Len(s) THEN Len(s) - (i + 1) + 1 ELSE 0
        /\ \A j \in 1..Len(s) - (i + 1) + 1 : b[j] = s[(i + 1) + j - 1]
    BY <1>0, SubSeqProperties, SMT
  <2> QED BY <2>1, <1>0
<1> HIDE DEF a, b
<1>3. /\ a \o b \in Seq(S) /\ Len(a \o b) = Len(a) + Len(b)
      /\ \A j \in 1..Len(a) + Len(b) : (a \o b)[j] = IF j <= Len(a) THEN a[j] ELSE b[j - Len(a)]
  BY <1>1, <1>2, ConcatProperties
<1>4. RemoveAt(s, i) = a \o b
  BY DEF RemoveAt, a, b
<1>5. ASSUME NEW j \in 1..Len(s) - 1
      PROVE  (a \o b)[j] = IF j < i THEN s[j] ELSE s[j + 1]
  <2>1. CASE j < i
    BY <2>1, <1>0, <1>1, <1>2, <1>3
  <2>2. CASE ~(j < i)
    <3>1. (a \o b)[j] = b[j - (i - 1)] /\ j - (i - 1) \in 1..Len(s) - i
      BY <2>2, <1>0, <1>1, <1>2, <1>3
    <3>2. b[j - (i - 1)] = s[i + (j - (i - 1))] /\ i + (j - (i - 1)) = j + 1
      BY <3>1, <1>0, <1>2
    <3> QED BY <3>1, <3>2, <2>2
  <2> QED BY <2>1, <2>2
<1> QED BY <1>0, <1>1, <1>2, <1>3, <1>4, <1>5

\* r is s with e put in front of the i-th element and the later ones moved down.
Inserted(r, s, i, e) ==
  /\ Len(r) = Len(s) + 1
  /\ \A j \in 1..Len(s) + 1 : r[j] = IF j < i THEN s[j] ELSE IF j = i THEN e ELSE s[j - 1]

\* That is what InsertAt does.
LEMMA ListInsertAtProperties ==
  ASSUME NEW S, NEW s \in Seq(S), NEW e \in S, NEW i \in 1..Len(s) + 1
  PROVE  InsertAt(s, i, e) \in Seq(S) /\ Inserted(InsertAt(s, i, e), s, i, e)
<1> DEFINE a == SubSeq(s, 1, i - 1)
           m == <<e>>
           b == SubSeq(s, i, Len(s))
           am == a \o m
<1>0. Len(s) \in Nat /\ \A j \in 1..Len(s) : s[j] \in S
  BY ElementOfSeq
<1>1. a \in Seq(S) /\ Len(a) = i - 1 /\ \A j \in 1..i - 1 : a[j] = s[j]
  BY <1>0, SubSeqProperties, SMT
<1>2. /\ b \in Seq(S) /\ Len(b) = Len(s) - i + 1
      /\ \A j \in 1..Len(s) - i + 1 : b[j] = s[i + j - 1]
  <2>1. /\ b \in Seq(S)
        /\ Len(b) = IF i <= Len(s) THEN Len(s) - i + 1 ELSE 0
        /\ \A j \in 1..Len(s) - i + 1 : b[j] = s[i + j - 1]
    BY <1>0, SubSeqProperties, SMT
  <2> QED BY <2>1, <1>0
<1>m. m \in Seq(S) /\ Len(m) = 1 /\ m[1] = e
  OBVIOUS
<1> HIDE DEF a, b, m
<1>3. /\ am \in Seq(S) /\ Len(am) = i
      /\ \A j \in 1..i : am[j] = IF j < i THEN s[j] ELSE e
  <2>1. /\ am \in Seq(S) /\ Len(am) = Len(a) + Len(m)
        /\ \A j \in 1..Len(a) + Len(m) : am[j] = IF j <= Len(a) THEN a[j] ELSE m[j - Len(a)]
    BY <1>1, <1>m, ConcatProperties
  <2> QED BY <2>1, <1>0, <1>1, <1>m
<1> HIDE DEF am
<1>4. /\ am \o b \in Seq(S) /\ Len(am \o b) = Len(s) + 1
      /\ \A j \in 1..Len(s) + 1 : (am \o b)[j] = IF j <= i THEN am[j] ELSE b[j - i]
  <2>1. /\ am \o b \in Seq(S) /\ Len(am \o b) = Len(am) + Len(b)
        /\ \A j \in 1..Len(am) + Len(b) : (am \o b)[j] = IF j <= Len(am) THEN am[j] ELSE b[j - Len(am)]
    BY <1>2, <1>3, ConcatProperties
  <2> QED BY <2>1, <1>0, <1>2, <1>3
<1>5. InsertAt(s, i, e) = am \o b
  BY DEF InsertAt, a, b, m, am
<1>6. ASSUME NEW j \in 1..Len(s) + 1
      PROVE  (am \o b)[j] = IF j < i THEN s[j] ELSE IF j = i THEN e ELSE s[j - 1]
  <2>1. CASE j <= i
    BY <2>1, <1>0, <1>3, <1>4
  <2>2. CASE ~(j <= i)
    <3>1. (am \o b)[j] = b[j - i] /\ j - i \in 1..Len(s) - i + 1
      BY <2>2, <1>0, <1>4
    <3>2. b[j - i] = s[i + (j - i) - 1] /\ i + (j - i) - 1 = j - 1
      BY <3>1, <1>0, <1>2
    <3> QED BY <3>1, <3>2, <2>2
  <2> QED BY <2>1, <2>2
<1> QED BY <1>4, <1>5, <1>6 DEF Inserted

-------------------------------------------------------------------------------

\* Deleting removes exactly the one element and keeps the order of the others.
LEMMA ListDeleteProperties ==
  ASSUME NEW S, NEW s \in Seq(S), NEW e, Distinct(s)
  PROVE  /\ LIST_DELETE(e, s) \in Seq(S)
         /\ Distinct(LIST_DELETE(e, s))
         /\ ToSet(LIST_DELETE(e, s)) = ToSet(s) \ {e}
         /\ \A key : Sorted(s, key) => Sorted(LIST_DELETE(e, s), key)
<1>0. Len(s) \in Nat /\ DOMAIN s = 1..Len(s)
  BY LenProperties
<1>1. CASE ~In(e, s)
  BY <1>1 DEF LIST_DELETE, In
<1>2. CASE In(e, s)
  <2> DEFINE n == CHOOSE i \in DOMAIN s : s[i] = e
             r == RemoveAt(s, n)
  <2>1. n \in 1..Len(s) /\ s[n] = e
    BY <1>0, <1>2 DEF In, ToSet
  <2> HIDE DEF n
  <2>2. /\ r \in Seq(S) /\ Len(r) = Len(s) - 1
        /\ \A j \in 1..Len(s) - 1 : r[j] = IF j < n THEN s[j] ELSE s[j + 1]
    BY <2>1, ListRemoveAtProperties
  <2>3. LIST_DELETE(e, s) = r
    BY <1>2 DEF LIST_DELETE, n
  <2> HIDE DEF r
  <2>4. DOMAIN r = 1..Len(s) - 1
    BY <2>2, LenProperties
  <2>5. ASSUME NEW j \in DOMAIN r
        PROVE  r[j] \in ToSet(s) \ {e}
    <3>1. CASE j < n
      <4>1. r[j] = s[j] /\ j \in DOMAIN s /\ j # n /\ n \in DOMAIN s
        BY <3>1, <2>1, <2>2, <2>4, <1>0
      <4> QED BY <4>1, <2>1 DEF ToSet, Distinct
    <3>2. CASE ~(j < n)
      <4>1. r[j] = s[j + 1] /\ j + 1 \in DOMAIN s /\ j + 1 # n /\ n \in DOMAIN s
        BY <3>2, <2>1, <2>2, <2>4, <1>0
      <4> QED BY <4>1, <2>1 DEF ToSet, Distinct
    <3> QED BY <3>1, <3>2
  <2>6. ASSUME NEW i \in DOMAIN s, s[i] # e
        PROVE  s[i] \in ToSet(r)
    <3>1. CASE i < n
      <4>1. i \in DOMAIN r /\ r[i] = s[i]
        BY <3>1, <2>1, <2>2, <2>4, <1>0
      <4> QED BY <4>1 DEF ToSet
    <3>2. CASE ~(i < n)
      <4>1. i - 1 \in DOMAIN r /\ r[i - 1] = s[i]
        <5>1. i # n
          BY <2>1, <2>6
        <5>2. i - 1 \in 1..Len(s) - 1 /\ ~(i - 1 < n) /\ (i - 1) + 1 = i
          BY <5>1, <3>2, <2>1, <1>0
        <5> QED BY <5>2, <2>2, <2>4
      <4> QED BY <4>1 DEF ToSet
    <3> QED BY <3>1, <3>2
  <2>7. ToSet(r) = ToSet(s) \ {e}
    BY <2>5, <2>6 DEF ToSet
  <2>8. ASSUME NEW i \in DOMAIN r, NEW j \in DOMAIN r
        PROVE  \E k, l \in DOMAIN s :
                 r[i] = s[k] /\ r[j] = s[l] /\ (i <= j => k <= l) /\ (i # j => k # l)
    <3> DEFINE up(x) == IF x < n THEN x ELSE x + 1
    <3>1. up(i) \in DOMAIN s /\ up(j) \in DOMAIN s
      BY <2>1, <2>4, <1>0
    <3>2. r[i] = s[up(i)] /\ r[j] = s[up(j)]
      BY <2>2, <2>4
    <3>3. (i <= j => up(i) <= up(j)) /\ (i # j => up(i) # up(j))
      BY <2>1, <2>4, <1>0
    <3> QED BY <3>1, <3>2, <3>3
  <2>9. Distinct(r)
    BY <2>8 DEF Distinct
  <2>10. ASSUME NEW key, Sorted(s, key)
         PROVE  Sorted(r, key)
    BY <2>8, <2>10 DEF Sorted
  <2> QED BY <2>2, <2>3, <2>7, <2>9, <2>10
<1> QED BY <1>1, <1>2

\* Linking an element that is not in the list, at any place, adds exactly it.
LEMMA ListInsertProperties ==
  ASSUME NEW S, NEW s \in Seq(S), NEW e \in S, Distinct(s), ~In(e, s),
         NEW p \in 1..Len(s) + 1
  PROVE  /\ InsertAt(s, p, e) \in Seq(S)
         /\ Distinct(InsertAt(s, p, e))
         /\ ToSet(InsertAt(s, p, e)) = ToSet(s) \cup {e}
<1> DEFINE r == InsertAt(s, p, e)
<1> HIDE DEF r
<1>0. Len(s) \in Nat /\ DOMAIN s = 1..Len(s)
  BY LenProperties
<1>i. r \in Seq(S) /\ Inserted(r, s, p, e)
  BY ListInsertAtProperties DEF r
<1>1. /\ r \in Seq(S) /\ Len(r) = Len(s) + 1
      /\ \A j \in 1..Len(s) + 1 : r[j] = IF j < p THEN s[j] ELSE IF j = p THEN e ELSE s[j - 1]
  BY <1>i DEF Inserted
<1>2. DOMAIN r = 1..Len(s) + 1
  BY <1>1, LenProperties
<1>3. \A i \in DOMAIN s : s[i] # e
  BY DEF In, ToSet
<1>4. ASSUME NEW j \in DOMAIN r, j # p
      PROVE  \E k \in DOMAIN s : r[j] = s[k] /\ k = IF j < p THEN j ELSE j - 1
  <2>1. CASE j < p
    <3>1. j \in DOMAIN s /\ r[j] = s[j]
      BY <2>1, <1>0, <1>1, <1>2
    <3> QED BY <3>1, <2>1
  <2>2. CASE ~(j < p)
    <3>1. j - 1 \in DOMAIN s /\ r[j] = s[j - 1]
      BY <2>2, <1>0, <1>1, <1>2, <1>4
    <3> QED BY <3>1, <2>2
  <2> QED BY <2>1, <2>2
<1>5. p \in DOMAIN r /\ r[p] = e
  BY <1>0, <1>1, <1>2
<1>6. ASSUME NEW i \in DOMAIN r, NEW j \in DOMAIN r, r[i] = r[j]
      PROVE  i = j
  <2>1. CASE i = p \/ j = p
    BY <2>1, <1>3, <1>4, <1>5, <1>6
  <2>2. CASE i # p /\ j # p
    <3>1. PICK k \in DOMAIN s : r[i] = s[k] /\ k = IF i < p THEN i ELSE i - 1
      BY <2>2, <1>4
    <3>2. PICK l \in DOMAIN s : r[j] = s[l] /\ l = IF j < p THEN j ELSE j - 1
      BY <2>2, <1>4
    <3>3. k = l
      BY <3>1, <3>2, <1>6 DEF Distinct
    <3>4. i \in Int /\ j \in Int /\ p \in Int
      BY <1>0, <1>2
    <3> QED BY <3>1, <3>2, <3>3, <3>4, <2>2
  <2> QED BY <2>1, <2>2
<1>7. ASSUME NEW i \in DOMAIN s
      PROVE  s[i] \in ToSet(r)
  <2>1. CASE i < p
    <3>1. i \in DOMAIN r /\ r[i] = s[i]
      BY <2>1, <1>0, <1>1, <1>2
    <3> QED BY <3>1 DEF ToSet
  <2>2. CASE ~(i < p)
    <3>1. i + 1 \in 1..Len(s) + 1 /\ ~(i + 1 < p) /\ i + 1 # p /\ (i + 1) - 1 = i
      BY <2>2, <1>0
    <3>2. i + 1 \in DOMAIN r /\ r[i + 1] = s[i]
      BY <3>1, <1>1, <1>2
    <3> QED BY <3>2 DEF ToSet
  <2> QED BY <2>1, <2>2
<1>8. ToSet(r) = ToSet(s) \cup {e}
  BY <1>4, <1>5, <1>7 DEF ToSet
<1> QED BY <1>1, <1>6, <1>8 DEF r, Distinct

\* LIST_APPEND of an element that is not in the list.
LEMMA ListAppendProperties ==
  ASSUME NEW S, NEW s \in Seq(S), NEW e \in S, Distinct(s), ~In(e, s)
  PROVE  /\ LIST_APPEND(e, s) \in Seq(S)
         /\ Distinct(LIST_APPEND(e, s))
         /\ ToSet(LIST_APPEND(e, s)) = ToSet(s) \cup {e}
<1>1. LIST_APPEND(e, s) = InsertAt(s, 1, e)
  <2>1. SubSeq(s, 1, 1 - 1) = <<>> /\ SubSeq(s, 1, Len(s)) = s
    BY SubSeqEmpty, SubSeqFull
  <2>2. <<>> \o <<e>> = <<e>>
    <3>1. <<e>> \in Seq(S)
      OBVIOUS
    <3> QED BY <3>1, ConcatEmptySeq
  <2> QED BY <2>1, <2>2 DEF LIST_APPEND, Cons, InsertAt
<1>2. 1 \in 1..Len(s) + 1
  BY LenProperties
<1>3. /\ InsertAt(s, 1, e) \in Seq(S)
      /\ Distinct(InsertAt(s, 1, e))
      /\ ToSet(InsertAt(s, 1, e)) = ToSet(s) \cup {e}
  BY <1>2, ListInsertProperties
<1> QED BY <1>1, <1>3

\* Taking the first element off a list.
LEMMA ListTailProperties ==
  ASSUME NEW S, NEW s \in Seq(S), Distinct(s), s # <<>>
  PROVE  /\ Head(s) \in S /\ In(Head(s), s)
         /\ Tail(s) \in Seq(S)
         /\ Distinct(Tail(s))
         /\ ToSet(Tail(s)) = ToSet(s) \ {Head(s)}
         /\ \A key : Sorted(s, key) =>
              /\ Sorted(Tail(s), key)
              /\ \A e \in ToSet(s) : key[Head(s)] <= key[e]
<1>0. Len(s) \in Nat \ {0} /\ DOMAIN s = 1..Len(s) /\ Head(s) = s[1]
  BY EmptySeq, LenProperties
<1>1. /\ Head(s) \in S /\ Tail(s) \in Seq(S) /\ Len(Tail(s)) = Len(s) - 1
      /\ DOMAIN Tail(s) = 1..Len(s) - 1
      /\ \A i \in 1..Len(s) - 1 : Tail(s)[i] = s[i + 1]
  BY HeadTailProperties, LenProperties
<1>2. \A i \in DOMAIN Tail(s) : i + 1 \in DOMAIN s /\ i + 1 # 1 /\ Tail(s)[i] = s[i + 1]
  BY <1>0, <1>1
<1>3. \A i \in DOMAIN s : i # 1 => i - 1 \in DOMAIN Tail(s) /\ Tail(s)[i - 1] = s[i]
  BY <1>0, <1>1
<1>4. 1 \in DOMAIN s
  BY <1>0
<1>5. ToSet(Tail(s)) = ToSet(s) \ {Head(s)}
  BY <1>0, <1>2, <1>3, <1>4 DEF ToSet, Distinct
<1>6. \A i, j \in DOMAIN Tail(s) : /\ (i + 1 = j + 1) => i = j
                                   /\ i <= j => i + 1 <= j + 1
  BY <1>1
<1>7. Distinct(Tail(s))
  BY <1>2, <1>6 DEF Distinct
<1>8. ASSUME NEW key, Sorted(s, key)
      PROVE  Sorted(Tail(s), key) /\ \A e \in ToSet(s) : key[Head(s)] <= key[e]
  <2>1. Sorted(Tail(s), key)
    BY <1>2, <1>6, <1>8 DEF Sorted
  <2>2. \A i \in DOMAIN s : 1 <= i
    BY <1>0
  <2>3. \A i \in DOMAIN s : key[s[1]] <= key[s[i]]
    BY <2>2, <1>4, <1>8 DEF Sorted
  <2> QED BY <2>1, <2>3, <1>0 DEF ToSet
<1> QED BY <1>0, <1>1, <1>4, <1>5, <1>7, <1>8 DEF In, ToSet

\* A list without elements links nothing.
LEMMA EmptyList ==
  /\ \A S : <<>> \in Seq(S)
  /\ Distinct(<<>>) /\ ToSet(<<>>) = {} /\ \A key : Sorted(<<>>, key)
BY DOMAIN <<>> = {} DEF Distinct, ToSet, Sorted

-------------------------------------------------------------------------------
(* The invariant.                                                           *)

USE SchedulerAssumption

\* What the thread has read or checked and still relies on.
ThreadInv ==
  /\ now <= clock
  /\ pc \in {"stop", "start"} => tasks # <<>>
  /\ NoDueTaskSkipped

\* Who wakes the thread: a request has been notified or is in reach of the
\* pass under way; timer_running stands for an armed timer or for a timer
\* callback that has not cleared it; and a thread about to sleep has either.
WakeupInv ==
  /\ tasks_schedule # <<>> => notified \/ pc \in {"now", "fire", "callback", "abort", "insert"}
  /\ tasks_abort # <<>> => notified \/ pc \in {"now", "fire", "callback", "abort"}
  /\ timer_running => alarm # Off \/ esp_timer = "expired"
  /\ pc = "take" /\ tasks # <<>> => timer_running \/ esp_timer = "cleared" \/ notified

SchedulerInv == TypeOK /\ TasksSorted /\ ListsConsistent /\ ThreadInv /\ WakeupInv

-------------------------------------------------------------------------------

\* Linking behind every entry that is not later, and in front of the first
\* that is, keeps a list sorted.
LEMMA InsertKeepsSorted ==
  ASSUME NEW S, NEW s \in Seq(S), NEW e \in S, ~In(e, s),
         NEW key \in [S -> Int], NEW d \in Int, Sorted(s, key),
         NEW p \in 1..Len(s) + 1,
         \A j \in 1..p - 1 : key[s[j]] <= d,
         p <= Len(s) => key[s[p]] > d
  PROVE  Sorted(InsertAt(s, p, e), [key EXCEPT ![e] = d])
<1> DEFINE r == InsertAt(s, p, e)
           key2 == [key EXCEPT ![e] = d]
<1> HIDE DEF r, key2
<1>0. Len(s) \in Nat /\ DOMAIN s = 1..Len(s) /\ \A i \in 1..Len(s) : s[i] \in S
  BY LenProperties, ElementOfSeq
<1>i. r \in Seq(S) /\ Inserted(r, s, p, e)
  BY ListInsertAtProperties DEF r
<1>1. /\ DOMAIN r = 1..Len(s) + 1
      /\ \A j \in 1..Len(s) + 1 : r[j] = IF j < p THEN s[j] ELSE IF j = p THEN e ELSE s[j - 1]
  BY <1>i, LenProperties DEF Inserted
<1>2. \A i \in 1..Len(s) : s[i] # e
  BY <1>0 DEF In, ToSet
<1>3. key2[e] = d /\ \A i \in 1..Len(s) : key2[s[i]] = key[s[i]] /\ key[s[i]] \in Int
  BY <1>0, <1>2 DEF key2
<1>4. \A i, j \in 1..Len(s) : i <= j => key[s[i]] <= key[s[j]]
  BY <1>0 DEF Sorted
<1>5. \A j \in p..Len(s) : key[s[j]] > d
  <2> SUFFICES ASSUME NEW j \in p..Len(s) PROVE key[s[j]] > d
    OBVIOUS
  <2>1. p \in 1..Len(s) /\ j \in 1..Len(s) /\ p <= j
    BY <1>0
  <2> QED BY <2>1, <1>3, <1>4
<1>6. ASSUME NEW i \in 1..Len(s) + 1, NEW j \in 1..Len(s) + 1, i <= j
      PROVE  key2[r[i]] <= key2[r[j]]
  <2>1. CASE j < p
    <3>1. i \in 1..Len(s) /\ j \in 1..Len(s) /\ r[i] = s[i] /\ r[j] = s[j]
      BY <2>1, <1>0, <1>1, <1>6
    <3> QED BY <3>1, <1>3, <1>4, <1>6
  <2>2. CASE j = p
    <3>1. CASE i = p
      BY <3>1, <2>2, <1>1, <1>3
    <3>2. CASE i # p
      <4>1. i \in 1..p - 1 /\ i \in 1..Len(s) /\ r[i] = s[i] /\ r[j] = e
        BY <3>2, <2>2, <1>0, <1>1, <1>6
      <4> QED BY <4>1, <1>3
    <3> QED BY <3>1, <3>2
  <2>3. CASE ~(j < p) /\ j # p
    <3>1. j - 1 \in p..Len(s) /\ j - 1 \in 1..Len(s) /\ r[j] = s[j - 1]
      BY <2>3, <1>0, <1>1
    <3>2. /\ key2[r[j]] = key[s[j - 1]] /\ key[s[j - 1]] > d
          /\ key[s[j - 1]] \in Int /\ key2[r[j]] > d
      BY <3>1, <1>3, <1>5
    <3>3. CASE i < p
      <4>1. i \in 1..p - 1 /\ i \in 1..Len(s) /\ r[i] = s[i]
        BY <3>3, <1>0, <1>1
      <4>2. key2[r[i]] = key[s[i]] /\ key[s[i]] <= d /\ key[s[i]] \in Int
        BY <4>1, <1>3
      <4> QED BY <4>2, <3>2
    <3>4. CASE i = p
      <4>1. key2[r[i]] = d
        BY <3>4, <1>1, <1>3
      <4> QED BY <4>1, <3>2
    <3>5. CASE ~(i < p) /\ i # p
      <4>1. r[i] = s[i - 1]
        BY <3>5, <1>1
      <4>2. i - 1 \in 1..Len(s) /\ i - 1 <= j - 1
        BY <3>5, <1>0, <1>6
      <4>3. key[s[i - 1]] <= key[s[j - 1]]
        BY <4>2, <3>1, <1>4
      <4>4. key2[r[i]] = key[s[i - 1]]
        <5>1. key2[s[i - 1]] = key[s[i - 1]]
          BY <4>2, <1>3
        <5> QED BY <4>1, <5>1
      <4> QED BY <4>3, <4>4, <3>2
    <3> QED BY <3>3, <3>4, <3>5
  <2> QED BY <2>1, <2>2, <2>3
<1> QED BY <1>1, <1>6 DEF Sorted, r, key2

\* LIST_APPEND behind LIST_IS_EMPTY adds the task, or leaves it where it is.
LEMMA EnlistProperties ==
  ASSUME NEW s \in Seq(Tasks), NEW t \in Tasks, Distinct(s)
  PROVE  /\ Enlist(t, s) \in Seq(Tasks)
         /\ Distinct(Enlist(t, s))
         /\ ToSet(Enlist(t, s)) = ToSet(s) \cup {t}
<1>1. CASE In(t, s)
  BY <1>1 DEF Enlist, In
<1>2. CASE ~In(t, s)
  <2>1. /\ LIST_APPEND(t, s) \in Seq(Tasks)
        /\ Distinct(LIST_APPEND(t, s))
        /\ ToSet(LIST_APPEND(t, s)) = ToSet(s) \cup {t}
    BY <1>2, ListAppendProperties
  <2> QED BY <1>2, <2>1 DEF Enlist
<1> QED BY <1>1, <1>2

-------------------------------------------------------------------------------

LEMMA InitInv == Init => SchedulerInv
<1> SUFFICES ASSUME Init PROVE SchedulerInv
  OBVIOUS
<1>1. TypeOK
  <2>1. 0 \in Time
    BY DEF Time
  <2>2. <<>> \in Seq(Tasks)
    BY EmptyList
  <2> QED BY <2>1, <2>2 DEF Init, TypeOK
<1>2. TasksSorted /\ ListsConsistent
  BY EmptyList DEF Init, TasksSorted, ListsConsistent
<1>3. ThreadInv /\ WakeupInv
  BY DEF Init, ThreadInv, NoDueTaskSkipped, WakeupInv
<1> QED BY <1>1, <1>2, <1>3 DEF SchedulerInv

LEMMA ScheduleKeepsInv ==
  ASSUME SchedulerInv, NEW t \in Tasks, NEW d \in Time, scheduler_schedule_task(t, d)
  PROVE  SchedulerInv'
<1> USE DEF scheduler_schedule_task, Locked, timerVars
<1>1. /\ tasks_abort' \in Seq(Tasks) /\ Distinct(tasks_abort')
      /\ ToSet(tasks_abort') = ToSet(tasks_abort) \ {t}
  BY ListDeleteProperties DEF SchedulerInv, TypeOK, ListsConsistent
<1>2. /\ tasks_schedule' \in Seq(Tasks) /\ Distinct(tasks_schedule')
      /\ ToSet(tasks_schedule') = ToSet(tasks_schedule) \cup {t}
  BY EnlistProperties DEF SchedulerInv, TypeOK, ListsConsistent
<1>3. TypeOK'
  BY <1>1, <1>2 DEF SchedulerInv, TypeOK
<1>4. TasksSorted' /\ ListsConsistent'
  BY <1>1, <1>2 DEF SchedulerInv, TasksSorted, ListsConsistent
<1>5. ThreadInv' /\ WakeupInv'
  BY DEF SchedulerInv, TypeOK, ThreadInv, NoDueTaskSkipped, WakeupInv
<1> QED BY <1>3, <1>4, <1>5 DEF SchedulerInv

LEMMA AbortKeepsInv ==
  ASSUME SchedulerInv, NEW t \in Tasks, scheduler_abort_task(t)
  PROVE  SchedulerInv'
<1> USE DEF scheduler_abort_task, Locked, timerVars
<1>1. /\ tasks_schedule' \in Seq(Tasks) /\ Distinct(tasks_schedule')
      /\ ToSet(tasks_schedule') = ToSet(tasks_schedule) \ {t}
  BY ListDeleteProperties DEF SchedulerInv, TypeOK, ListsConsistent
<1>2. /\ tasks_abort' \in Seq(Tasks) /\ Distinct(tasks_abort')
      /\ ToSet(tasks_abort') = ToSet(tasks_abort) \cup {t}
  BY EnlistProperties DEF SchedulerInv, TypeOK, ListsConsistent
<1>3. TypeOK'
  BY <1>1, <1>2 DEF SchedulerInv, TypeOK
<1>4. TasksSorted' /\ ListsConsistent'
  BY <1>1, <1>2 DEF SchedulerInv, TasksSorted, ListsConsistent
<1>5. ThreadInv' /\ WakeupInv'
  BY DEF SchedulerInv, TypeOK, ThreadInv, NoDueTaskSkipped, WakeupInv
<1> QED BY <1>3, <1>4, <1>5 DEF SchedulerInv

\* The steps of the thread that leave every list alone.
LEMMA QuietStepsKeepInv ==
  ASSUME SchedulerInv,
         \/ TakeNotification \/ ReadClock \/ EndCallback \/ EndAborts \/ ReleaseLock
         \/ TimerExpires \/ TimerCallbackClears \/ TimerCallbackNotifies \/ Tick
  PROVE  SchedulerInv'
<1> USE DEF listVars, timerVars, SchedulerInv, Time, Off
<1>0. UNCHANGED listVars /\ clock \in Int /\ now \in Int /\ clock' \in Int
  BY DEF TakeNotification, ReadClock, EndCallback, EndAborts, ReleaseLock,
         TimerExpires, TimerCallbackClears, TimerCallbackNotifies, Tick, TypeOK
<1>1. TasksSorted' /\ ListsConsistent'
  BY <1>0 DEF TasksSorted, ListsConsistent
<1>2. TypeOK'
  <2>1. CASE TakeNotification \/ ReadClock \/ EndCallback \/ EndAborts \/ ReleaseLock
    BY <1>0, <2>1 DEF TypeOK, TakeNotification, ReadClock, EndCallback, EndAborts, ReleaseLock
  <2>2. CASE TimerExpires \/ TimerCallbackClears \/ TimerCallbackNotifies
    BY <1>0, <2>2 DEF TypeOK, TimerExpires, TimerCallbackClears, TimerCallbackNotifies
  <2>3. CASE Tick
    <3>1. clock' \in Time
      BY <2>3 DEF Tick, TypeOK
    <3> QED BY <1>0, <2>3, <3>1 DEF TypeOK, Tick
  <2> QED BY <2>1, <2>2, <2>3
<1>3. ThreadInv'
  BY <1>0 DEF ThreadInv, NoDueTaskSkipped, TakeNotification, ReadClock, EndCallback, EndAborts,
              ReleaseLock, TimerExpires, TimerCallbackClears, TimerCallbackNotifies, Tick
<1>4. WakeupInv'
  <2>1. CASE TakeNotification \/ ReadClock \/ EndCallback \/ EndAborts \/ ReleaseLock
    BY <1>0, <2>1 DEF WakeupInv, TakeNotification, ReadClock, EndCallback, EndAborts, ReleaseLock
  <2>2. CASE TimerExpires \/ TimerCallbackClears \/ TimerCallbackNotifies
    BY <1>0, <2>2 DEF WakeupInv, TimerExpires, TimerCallbackClears, TimerCallbackNotifies
  <2>3. CASE Tick
    BY <1>0, <2>3 DEF WakeupInv, Tick
  <2> QED BY <2>1, <2>2, <2>3
<1> QED BY <1>1, <1>2, <1>3, <1>4

LEMMA StartCallbackKeepsInv ==
  ASSUME SchedulerInv, StartCallback
  PROVE  SchedulerInv'
<1> USE DEF StartCallback, HeadIsDue, timerVars, SchedulerInv
<1>1. /\ running' \in Tasks /\ tasks' \in Seq(Tasks) /\ Distinct(tasks')
      /\ Sorted(tasks', schedule_sync)
  BY ListTailProperties DEF TypeOK, TasksSorted, ListsConsistent
<1>2. TypeOK'
  BY <1>1 DEF TypeOK
<1>3. TasksSorted' /\ ListsConsistent'
  BY <1>1 DEF TasksSorted, ListsConsistent
<1>4. ThreadInv' /\ WakeupInv'
  BY DEF TypeOK, ThreadInv, NoDueTaskSkipped, WakeupInv
<1> QED BY <1>2, <1>3, <1>4

\* The first task is not due, so by the order of the list none is.
LEMMA TakeLockKeepsInv ==
  ASSUME SchedulerInv, TakeLock
  PROVE  SchedulerInv'
<1> USE DEF TakeLock, HeadIsDue, listVars, timerVars, SchedulerInv
<1>1. TypeOK' /\ TasksSorted' /\ ListsConsistent' /\ WakeupInv'
  BY DEF TypeOK, TasksSorted, ListsConsistent, WakeupInv
<1>2. ASSUME NEW t \in ToSet(tasks)
      PROVE  schedule_sync[t] > now
  <2>1. t \in Tasks
    BY ElementOfSeq, LenProperties DEF TypeOK, ToSet
  <2>2. tasks # <<>>
    BY <1>2, EmptyList
  <2>3. Head(tasks) \in Tasks /\ schedule_sync[Head(tasks)] <= schedule_sync[t]
    BY <2>2, <1>2, ListTailProperties DEF TypeOK, TasksSorted, ListsConsistent
  <2>4. schedule_sync[t] \in Int /\ schedule_sync[Head(tasks)] \in Int /\ now \in Int
    BY <2>1, <2>3 DEF TypeOK, Time
  <2>5. ~(now >= schedule_sync[Head(tasks)])
    BY <2>2
  <2> QED BY <2>3, <2>4, <2>5
<1>3. ThreadInv'
  BY <1>2 DEF ThreadInv, NoDueTaskSkipped
<1> QED BY <1>1, <1>3

LEMMA ApplyAbortKeepsInv ==
  ASSUME SchedulerInv, ApplyAbort
  PROVE  SchedulerInv'
<1> USE DEF ApplyAbort, timerVars, SchedulerInv
<1>1. /\ tasks' \in Seq(Tasks) /\ Distinct(tasks')
      /\ Sorted(tasks', schedule_sync) /\ ToSet(tasks') \subseteq ToSet(tasks)
  BY ListDeleteProperties DEF TypeOK, TasksSorted, ListsConsistent
<1>2. /\ tasks_abort' \in Seq(Tasks) /\ Distinct(tasks_abort')
      /\ ToSet(tasks_abort') \subseteq ToSet(tasks_abort)
  BY ListTailProperties DEF TypeOK, ListsConsistent
<1>3. TypeOK'
  BY <1>1, <1>2 DEF TypeOK
<1>4. TasksSorted' /\ ListsConsistent'
  BY <1>1, <1>2 DEF TasksSorted, ListsConsistent
<1>5. ThreadInv' /\ WakeupInv'
  BY <1>1 DEF TypeOK, ThreadInv, NoDueTaskSkipped, WakeupInv
<1> QED BY <1>3, <1>4, <1>5

LEMMA ApplyScheduleKeepsInv ==
  ASSUME SchedulerInv, ApplySchedule
  PROVE  SchedulerInv'
<1> DEFINE t == Head(tasks_schedule)
           others == LIST_DELETE(t, tasks)
           d == schedule_async[t]
<1> USE DEF SchedulerInv
<1>0. pc = "insert" /\ tasks_schedule # <<>>
  BY DEF ApplySchedule
<1>1. t \in Tasks /\ d \in Time /\ d \in Int
  BY <1>0, ListTailProperties DEF TypeOK, ListsConsistent, Time
<1>2. /\ others \in Seq(Tasks) /\ Distinct(others) /\ ~In(t, others)
      /\ Sorted(others, schedule_sync)
  BY ListDeleteProperties DEF TypeOK, TasksSorted, ListsConsistent, In
<1>3. PICK i \in 1..Len(others) + 1 :
        InsertionPoint(others, d, i) /\ tasks' = InsertAt(others, i, t)
  BY DEF ApplySchedule
<1>4. /\ schedule_sync' = [schedule_sync EXCEPT ![t] = d]
      /\ tasks_schedule' = Tail(tasks_schedule)
      /\ UNCHANGED <<clock, pc, now, running, tasks_abort, schedule_async, timerVars, notified>>
  BY DEF ApplySchedule
<1> HIDE DEF t, others, d
<1>5. tasks' \in Seq(Tasks) /\ Distinct(tasks')
  BY <1>1, <1>2, <1>3, ListInsertProperties
<1>6. Sorted(tasks', schedule_sync')
  <2>1. schedule_sync \in [Tasks -> Int]
    BY DEF TypeOK, Time
  <2>2. Sorted(InsertAt(others, i, t), [schedule_sync EXCEPT ![t] = d])
    BY <2>1, <1>1, <1>2, <1>3, InsertKeepsSorted DEF InsertionPoint
  <2> QED BY <2>2, <1>3, <1>4
<1>7. /\ tasks_schedule' \in Seq(Tasks) /\ Distinct(tasks_schedule')
      /\ ToSet(tasks_schedule') \subseteq ToSet(tasks_schedule)
  BY <1>0, <1>4, ListTailProperties DEF TypeOK, ListsConsistent
<1>8. TypeOK'
  BY <1>1, <1>4, <1>5, <1>7 DEF TypeOK, timerVars
<1>9. TasksSorted' /\ ListsConsistent'
  BY <1>4, <1>5, <1>6, <1>7 DEF TasksSorted, ListsConsistent
<1>10. ThreadInv' /\ WakeupInv'
  BY <1>0, <1>4 DEF TypeOK, ThreadInv, NoDueTaskSkipped, WakeupInv, timerVars
<1> QED BY <1>8, <1>9, <1>10

LEMMA TimerStepsKeepInv ==
  ASSUME SchedulerInv, StopTimer \/ StartTimer
  PROVE  SchedulerInv'
<1> USE DEF listVars, SchedulerInv
<1>0. tasks # <<>> /\ UNCHANGED <<clock, now, running, listVars, esp_timer, notified>>
  BY DEF StopTimer, StartTimer, ThreadInv
<1>1. Head(tasks) \in Tasks
  BY <1>0, ListTailProperties DEF TypeOK, ListsConsistent
<1>2. schedule_sync[Head(tasks)] \in Time /\ clock \in Time
  BY <1>1 DEF TypeOK
<1>3. Max({schedule_sync[Head(tasks)], clock}) \in Time
  <2> DEFINE a == schedule_sync[Head(tasks)]
  <2>1. \E x \in {a, clock} : \A y \in {a, clock} : x >= y
    BY <1>2 DEF Time
  <2> QED BY <2>1, <1>2 DEF Max
<1>4. TypeOK'
  BY <1>0, <1>2, <1>3 DEF TypeOK, StopTimer, StartTimer
<1>5. TasksSorted' /\ ListsConsistent'
  BY <1>0 DEF TasksSorted, ListsConsistent
<1>6. ThreadInv'
  BY <1>0 DEF ThreadInv, NoDueTaskSkipped, StopTimer, StartTimer
<1>7. WakeupInv'
  BY <1>0, <1>2, <1>3 DEF WakeupInv, StopTimer, StartTimer, TypeOK, Time, Off
<1> QED BY <1>4, <1>5, <1>6, <1>7

LEMMA StutterKeepsInv == SchedulerInv /\ UNCHANGED vars => SchedulerInv'
BY DEF SchedulerInv, vars, listVars, timerVars, TypeOK, TasksSorted, ListsConsistent,
       ThreadInv, NoDueTaskSkipped, WakeupInv

LEMMA NextKeepsInv == SchedulerInv /\ [Next]_vars => SchedulerInv'
<1> SUFFICES ASSUME SchedulerInv, [Next]_vars PROVE SchedulerInv'
  OBVIOUS
<1>1. CASE scheduler_run
  BY <1>1, QuietStepsKeepInv, StartCallbackKeepsInv, TakeLockKeepsInv, ApplyAbortKeepsInv,
     ApplyScheduleKeepsInv, TimerStepsKeepInv DEF scheduler_run
<1>2. CASE EspTimerTask \/ Tick
  BY <1>2, QuietStepsKeepInv DEF EspTimerTask
<1>3. CASE Callers
  BY <1>3, ScheduleKeepsInv, AbortKeepsInv DEF Callers
<1>4. CASE UNCHANGED vars
  BY <1>4, StutterKeepsInv
<1> QED BY <1>1, <1>2, <1>3, <1>4 DEF Next

\* SchedulerInv holds in every state of every behaviour.
THEOREM SchedulerInvariance == SafetySpec => []SchedulerInv
BY InitInv, NextKeepsInv, PTL DEF SafetySpec

\* Every variable keeps its type: times stay within the bound, lists link
\* tasks only.
THEOREM TypeCorrectness == SafetySpec => []TypeOK
BY SchedulerInvariance, PTL DEF SchedulerInv

\* The accepted tasks are always in the order of their deadlines.
THEOREM AlwaysSorted == SafetySpec => []TasksSorted
BY SchedulerInvariance, PTL DEF SchedulerInv

\* No node is linked twice and no task is to be scheduled and to be aborted.
THEOREM AlwaysConsistent == SafetySpec => []ListsConsistent
BY SchedulerInvariance, PTL DEF SchedulerInv

\* A pass of the thread leaves no task behind that was due when it began.
THEOREM NothingDueIsSkipped == SafetySpec => []NoDueTaskSkipped
<1>1. SchedulerInv => NoDueTaskSkipped
  BY DEF SchedulerInv, ThreadInv
<1> QED BY <1>1, SchedulerInvariance, PTL

\* The thread never sleeps without something that will wake it for the
\* requests and for the accepted tasks, although timer_running is written by
\* two threads without a lock.
THEOREM WakeupsAreNotLost == SafetySpec => []NoLostWakeup
<1>1. SchedulerInv => NoLostWakeup
  BY DEF SchedulerInv, TypeOK, WakeupInv, NoLostWakeup
<1> QED BY <1>1, SchedulerInvariance, PTL

-------------------------------------------------------------------------------
(* The refinement: every step of the implementation is a step of the        *)
(* abstract task timers, or none.                                           *)

LEMMA RefinesRequest ==
  ASSUME SchedulerInv, NEW t \in Tasks, NEW d \in Time, scheduler_schedule_task(t, d)
  PROVE  Abstract!Request(t, d)
<1> USE DEF scheduler_schedule_task
<1>1. ToSet(tasks_schedule') = ToSet(tasks_schedule) \cup {t}
  BY EnlistProperties DEF SchedulerInv, TypeOK, ListsConsistent
<1>2. ToSet(tasks_abort') = ToSet(tasks_abort) \ {t}
  BY ListDeleteProperties DEF SchedulerInv, TypeOK, ListsConsistent
<1>3. schedule_async' = [schedule_async EXCEPT ![t] = d] /\ schedule_async \in [Tasks -> Time]
  BY DEF SchedulerInv, TypeOK
<1>4. pendingBar' = [pendingBar EXCEPT ![t] = d]
  BY <1>1, <1>2, <1>3 DEF pendingBar, In
<1> QED BY <1>4 DEF Abstract!Request, linkedBar

LEMMA RefinesForget ==
  ASSUME SchedulerInv, NEW t \in Tasks, scheduler_abort_task(t)
  PROVE  Abstract!Forget(t)
<1> USE DEF scheduler_abort_task
<1>1. ToSet(tasks_schedule') = ToSet(tasks_schedule) \ {t}
  BY ListDeleteProperties DEF SchedulerInv, TypeOK, ListsConsistent
<1>2. ToSet(tasks_abort') = ToSet(tasks_abort) \cup {t}
  BY EnlistProperties DEF SchedulerInv, TypeOK, ListsConsistent
<1>3. pendingBar' = [pendingBar EXCEPT ![t] = -2]
  BY <1>1, <1>2 DEF pendingBar, In
<1> QED BY <1>3 DEF Abstract!Forget, Abstract!Cancel, linkedBar

\* The list is sorted, so its first task has the earliest deadline of all.
LEMMA RefinesFire ==
  ASSUME SchedulerInv, StartCallback
  PROVE  \E t \in Tasks : Abstract!Fire(t)
<1> DEFINE t == Head(tasks)
<1>1. tasks # <<>> /\ now >= schedule_sync[t]
  BY DEF StartCallback, HeadIsDue
<1>2. /\ t \in Tasks /\ In(t, tasks) /\ ToSet(Tail(tasks)) = ToSet(tasks) \ {t}
      /\ \A u \in ToSet(tasks) : schedule_sync[t] <= schedule_sync[u]
  BY <1>1, ListTailProperties DEF SchedulerInv, TypeOK, TasksSorted, ListsConsistent
<1> HIDE DEF t
<1>3. /\ schedule_sync \in [Tasks -> Time] /\ now \in Int /\ clock \in Int /\ now <= clock
      /\ Time \subseteq Int /\ -1 \notin Time
  BY DEF SchedulerInv, TypeOK, ThreadInv, Time
<1>4. linkedBar[t] = schedule_sync[t] /\ schedule_sync[t] \in Time
  BY <1>2, <1>3 DEF linkedBar
<1>5. linkedBar[t] # -1 /\ linkedBar[t] <= clock
  <2>1. schedule_sync[t] \in Int /\ schedule_sync[t] # -1
    BY <1>3, <1>4
  <2>2. schedule_sync[t] <= clock
    BY <2>1, <1>1, <1>3
  <2> QED BY <2>1, <2>2, <1>4
<1>6. ASSUME NEW u \in Tasks, linkedBar[u] # -1
      PROVE  linkedBar[t] <= linkedBar[u]
  <2>1. In(u, tasks) /\ linkedBar[u] = schedule_sync[u]
    BY <1>6 DEF linkedBar
  <2> QED BY <2>1, <1>2, <1>4 DEF In
<1>7. tasks' = Tail(tasks) /\ UNCHANGED <<clock, schedule_sync, schedule_async,
                                          tasks_schedule, tasks_abort>>
  BY DEF StartCallback, t
<1>8. linkedBar' = [linkedBar EXCEPT ![t] = -1]
  BY <1>2, <1>7 DEF linkedBar, In
<1>9. UNCHANGED <<clock, pendingBar>>
  BY <1>7 DEF pendingBar
<1>10. Abstract!Fire(t)
  BY <1>5, <1>6, <1>8, <1>9 DEF Abstract!Fire, Abstract!None
<1> QED BY <1>2, <1>10

LEMMA RefinesSettleAbort ==
  ASSUME SchedulerInv, ApplyAbort
  PROVE  \E t \in Tasks : Abstract!Settle(t)
<1> DEFINE t == Head(tasks_abort)
<1>1. tasks_abort # <<>>
  BY DEF ApplyAbort
<1>2. t \in Tasks /\ In(t, tasks_abort) /\ ToSet(Tail(tasks_abort)) = ToSet(tasks_abort) \ {t}
  BY <1>1, ListTailProperties DEF SchedulerInv, TypeOK, ListsConsistent
<1>3. ToSet(LIST_DELETE(t, tasks)) = ToSet(tasks) \ {t}
  BY ListDeleteProperties DEF SchedulerInv, TypeOK, ListsConsistent
<1> HIDE DEF t
<1>4. /\ tasks' = LIST_DELETE(t, tasks) /\ tasks_abort' = Tail(tasks_abort)
      /\ UNCHANGED <<clock, tasks_schedule, schedule_sync, schedule_async>>
  BY DEF ApplyAbort, t
<1>5. ~In(t, tasks_schedule)
  BY <1>2 DEF In, SchedulerInv, ListsConsistent
<1>6. pendingBar[t] = -2
  BY <1>2, <1>5 DEF pendingBar
<1>7. linkedBar' = [linkedBar EXCEPT ![t] = -1]
  BY <1>3, <1>4 DEF linkedBar, In
<1>8. pendingBar' = [pendingBar EXCEPT ![t] = -1]
  BY <1>2, <1>4, <1>5 DEF pendingBar, In
<1>9. Abstract!Settle(t)
  BY <1>4, <1>6, <1>7, <1>8 DEF Abstract!Settle, Abstract!None, Abstract!Cancel
<1> QED BY <1>2, <1>9

LEMMA RefinesSettleSchedule ==
  ASSUME SchedulerInv, ApplySchedule
  PROVE  \E t \in Tasks : Abstract!Settle(t)
<1> DEFINE t == Head(tasks_schedule)
           others == LIST_DELETE(t, tasks)
           d == schedule_async[t]
<1>1. pc = "insert" /\ tasks_schedule # <<>>
  BY DEF ApplySchedule
<1>2. /\ t \in Tasks /\ In(t, tasks_schedule)
      /\ ToSet(Tail(tasks_schedule)) = ToSet(tasks_schedule) \ {t}
  BY <1>1, ListTailProperties DEF SchedulerInv, TypeOK, ListsConsistent
<1>3. /\ others \in Seq(Tasks) /\ Distinct(others) /\ ~In(t, others)
      /\ ToSet(others) = ToSet(tasks) \ {t}
  BY ListDeleteProperties DEF SchedulerInv, TypeOK, ListsConsistent, In
<1>4. PICK i \in 1..Len(others) + 1 : tasks' = InsertAt(others, i, t)
  BY DEF ApplySchedule
<1>5. /\ schedule_sync' = [schedule_sync EXCEPT ![t] = d]
      /\ tasks_schedule' = Tail(tasks_schedule)
      /\ UNCHANGED <<clock, tasks_abort, schedule_async>>
  BY DEF ApplySchedule
<1>d. d = schedule_async[t]
  OBVIOUS
<1> HIDE DEF t, others, d
<1>6. ToSet(tasks') = ToSet(tasks) \cup {t}
  BY <1>2, <1>3, <1>4, ListInsertProperties
<1>7. d \in Time /\ d # -1 /\ d # -2 /\ schedule_sync \in [Tasks -> Time]
  BY <1>2, <1>d DEF SchedulerInv, TypeOK, Time
<1>8. pendingBar[t] = d
  BY <1>2, <1>d DEF pendingBar
<1>9. linkedBar' = [linkedBar EXCEPT ![t] = d]
  BY <1>2, <1>5, <1>6, <1>7 DEF linkedBar, In
<1>10. ~In(t, tasks_abort)
  BY <1>2 DEF In, SchedulerInv, ListsConsistent
<1>11. pendingBar' = [pendingBar EXCEPT ![t] = -1]
  BY <1>2, <1>5, <1>10 DEF pendingBar, In
<1>12. Abstract!Settle(t)
  BY <1>5, <1>7, <1>8, <1>9, <1>11 DEF Abstract!Settle, Abstract!None, Abstract!Cancel
<1> QED BY <1>2, <1>12

LEMMA RefinesStutter ==
  ASSUME \/ TakeNotification \/ ReadClock \/ EndCallback \/ TakeLock \/ EndAborts \/ ReleaseLock
         \/ StopTimer \/ StartTimer \/ EspTimerTask \/ UNCHANGED vars
  PROVE  UNCHANGED Abstract!vars
<1>1. UNCHANGED <<clock, listVars>>
  BY DEF TakeNotification, ReadClock, EndCallback, TakeLock, EndAborts, ReleaseLock, StopTimer,
         StartTimer, EspTimerTask, TimerExpires, TimerCallbackClears, TimerCallbackNotifies, vars
<1> QED BY <1>1 DEF listVars, Abstract!vars, linkedBar, pendingBar

LEMMA RefinesInit == Init => Abstract!Init
<1> SUFFICES ASSUME Init PROVE Abstract!Init
  OBVIOUS
<1>1. ToSet(tasks) = {} /\ ToSet(tasks_schedule) = {} /\ ToSet(tasks_abort) = {}
  BY EmptyList DEF Init
<1>2. linkedBar = [t \in Tasks |-> -1] /\ pendingBar = [t \in Tasks |-> -1]
  BY <1>1 DEF linkedBar, pendingBar, In
<1> QED BY <1>2 DEF Init, Abstract!Init, Abstract!None

LEMMA RefinesNext == SchedulerInv /\ [Next]_vars => [Abstract!Next]_Abstract!vars
<1> SUFFICES ASSUME SchedulerInv, [Next]_vars PROVE Abstract!Next \/ UNCHANGED Abstract!vars
  OBVIOUS
<1>t. Abstract!Time = Time
  BY DEF Abstract!Time, Time
<1>1. CASE scheduler_run
  <2>1. CASE StartCallback
    BY <2>1, RefinesFire DEF Abstract!Next
  <2>2. CASE ApplyAbort
    BY <2>2, RefinesSettleAbort DEF Abstract!Next
  <2>3. CASE ApplySchedule
    BY <2>3, RefinesSettleSchedule DEF Abstract!Next
  <2>4. CASE \/ TakeNotification \/ ReadClock \/ EndCallback \/ TakeLock \/ EndAborts
             \/ ReleaseLock \/ StopTimer \/ StartTimer
    BY <2>4, RefinesStutter
  <2> QED BY <1>1, <2>1, <2>2, <2>3, <2>4 DEF scheduler_run
<1>2. CASE EspTimerTask \/ UNCHANGED vars
  BY <1>2, RefinesStutter
<1>3. CASE Tick
  <2>1. Abstract!Tick
    BY <1>3 DEF Tick, listVars, Abstract!Tick, linkedBar, pendingBar
  <2> QED BY <2>1 DEF Abstract!Next
<1>4. CASE Callers
  BY <1>4, <1>t, RefinesRequest, RefinesForget DEF Callers, Abstract!Next
<1> QED BY <1>1, <1>2, <1>3, <1>4 DEF Next

\* The scheduler is an implementation of the task timers: callbacks run never
\* early, earliest deadline first and once per accepted deadline, and a
\* request is settled in one step, the last one winning.
THEOREM SchedulerImplementsTaskTimers == SafetySpec => ImplementsTaskTimers
BY RefinesInit, RefinesNext, SchedulerInvariance, PTL
   DEF SafetySpec, ImplementsTaskTimers, Abstract!Spec
===============================================================================
