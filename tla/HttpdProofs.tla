------------------------------- MODULE HttpdProofs -------------------------------
(* The ring buffer keeps what is written to it in order, whatever its size and   *)
(* wherever its end falls; so, while a page is parsed, it has the rest of what   *)
(* was read. What is found in the ring is then what the page has there, and what *)
(* is rendered is what the page means: for every page, any templates and any     *)
(* lengths.                                                                      *)
EXTENDS Httpd, SequenceTheorems, FiniteSetTheorems, WellFoundedInduction, TLAPS

--------------------------------------------------------------------------------
(* Numbers.                                                                     *)

\* Any numbers have a least one; so what holds of zero, and of the next number, holds
\* of all.
LEMMA LeastNumber ==
  ASSUME NEW S, S \subseteq Nat, S # {} PROVE \E n \in S : \A m \in S : n <= m
<1> DEFINE R == OpToRel(<, Nat)
<1>1. IsWellFoundedOn(R, Nat)
  BY NatLessThanWellFounded
<1>2. \A m, n \in Nat : m < n => <<m, n>> \in R
  BY DEF OpToRel
<1> HIDE DEF R
<1>3. PICK n \in S : \A m \in S : ~ (<<m, n>> \in R)
  BY <1>1, WFMin
<1>4. \A m \in S : m \in Nat /\ n \in Nat /\ ~ (m < n)
  BY <1>2, <1>3
<1>5. \A m \in S : n <= m
  BY <1>4
<1> QED
  BY <1>5

LEMMA InductionUpTo ==
  ASSUME NEW N \in Nat, NEW S, 0 \in S, \A n \in 0..(N - 1) : n \in S => n + 1 \in S
  PROVE  0..N \subseteq S
<1> SUFFICES ASSUME (0..N) \ S # {} PROVE FALSE
  OBVIOUS
<1>1. PICK n \in (0..N) \ S : \A m \in (0..N) \ S : n <= m
  <2>1. (0..N) \ S \subseteq Nat
    OBVIOUS
  <2> QED
    BY <2>1, LeastNumber
<1>2. n # 0 /\ n - 1 \in 0..(N - 1)
  BY <1>1
<1>3. n - 1 \in S
  BY <1>1, <1>2
<1> QED
  BY <1>1, <1>2, <1>3

\* The least of two numbers, and of any.
LEMMA MinPair ==
  ASSUME NEW a \in Nat, NEW b \in Nat
  PROVE  Min({a, b}) = IF a <= b THEN a ELSE b
  BY DEF Min

LEMMA MinIsLeast ==
  ASSUME NEW S, S \subseteq Nat, S # {} PROVE Min(S) \in S /\ \A x \in S : Min(S) <= x
<1>1. \E n \in S : \A m \in S : n <= m
  BY LeastNumber
<1> QED
  BY <1>1 DEF Min

--------------------------------------------------------------------------------
(* The ring.                                                                     *)

IsRing(r, S) ==
  /\ r = [size |-> r.size, data |-> r.data, read |-> r.read, write |-> r.write]
  /\ r.size \in Nat \ {0}
  /\ r.data \in [0..(r.size - 1) -> S]
  /\ r.read \in 0..(r.size - 1)
  /\ r.write \in 0..(r.size - 1)

\* The two cases of ring_advance_read and ring_advance_write are one sum modulo
\* the size.
LEMMA AdvancedBy ==
  ASSUME NEW S, NEW r, IsRing(r, S), NEW p \in 0..(r.size - 1), NEW o \in 0..r.size
  PROVE  /\ Advanced(r, p, o) = IF p + o < r.size THEN p + o ELSE p + o - r.size
         /\ Advanced(r, p, o) \in 0..(r.size - 1)
  BY DEF IsRing, Advanced, ring_next

\* What is available is less than the size.
LEMMA AvailableRange ==
  ASSUME NEW S, NEW r, IsRing(r, S)
  PROVE  ring_available(r) \in 0..(r.size - 1) /\ ring_available(r) \in Nat
  BY DEF IsRing, ring_available

\* Reading on by o bytes, all of them available, leaves the others in their order.
ReadOn(r, q, o, S) ==
  /\ IsRing(q, S) /\ q.size = r.size
  /\ ring_available(q) = ring_available(r) - o
  /\ \A k \in Nat : k < ring_available(q) => Peeked(q, k) = Peeked(r, k + o)

LEMMA AdvanceReadReadsOn ==
  ASSUME NEW S, NEW r, IsRing(r, S), NEW o \in Nat, o <= ring_available(r)
  PROVE  ReadOn(r, ring_advance_read(r, o), o, S)
<1> DEFINE q == ring_advance_read(r, o)
<1>1. r.read \in 0..(r.size - 1) /\ r.write \in 0..(r.size - 1) /\ r.size \in Nat \ {0}
  BY DEF IsRing
<1>2. o \in 0..r.size
  BY <1>1, AvailableRange
<1>3. /\ Advanced(r, r.read, o) = IF r.read + o < r.size THEN r.read + o ELSE r.read + o - r.size
      /\ Advanced(r, r.read, o) \in 0..(r.size - 1)
  BY <1>1, <1>2, AdvancedBy
<1>4. q = [size |-> r.size, data |-> r.data, read |-> Advanced(r, r.read, o), write |-> r.write]
  BY DEF IsRing, ring_advance_read
<1>5. IsRing(q, S) /\ q.size = r.size
  BY <1>3, <1>4 DEF IsRing
<1>6. q.read = Advanced(r, r.read, o) /\ q.write = r.write /\ q.data = r.data
  BY <1>4
<1> HIDE DEF q
<1>7. ring_available(q) = ring_available(r) - o
  BY <1>1, <1>3, <1>5, <1>6 DEF ring_available
<1>8. ASSUME NEW k \in Nat, k < ring_available(q) PROVE Peeked(q, k) = Peeked(r, k + o)
  <2>1. CASE q.write >= q.read /\ r.write >= r.read
    BY <1>1, <1>3, <1>5, <1>6, <1>7, <1>8, <2>1 DEF ring_available, ring_available_contig, Peeked
  <2>2. CASE q.write >= q.read /\ ~(r.write >= r.read)
    BY <1>1, <1>3, <1>5, <1>6, <1>7, <1>8, <2>2 DEF ring_available, ring_available_contig, Peeked
  <2>3. CASE ~(q.write >= q.read)
    BY <1>1, <1>3, <1>5, <1>6, <1>7, <1>8, <2>3 DEF ring_available, ring_available_contig, Peeked
  <2> QED
    BY <2>1, <2>2, <2>3
<1> QED
  BY <1>5, <1>7, <1>8 DEF ReadOn, q

\* ring_inc_read is reading on by one.
LEMMA IncReadReadsOn ==
  ASSUME NEW S, NEW r, IsRing(r, S), 1 <= ring_available(r)
  PROVE  ReadOn(r, ring_inc_read(r), 1, S)
<1>1. r.read \in 0..(r.size - 1) /\ r.size \in Nat \ {0}
  BY DEF IsRing
<1>2. ring_available(r) <= r.size - 1
  BY AvailableRange, <1>1
<1>3. Advanced(r, r.read, 1) = ring_next(r, r.read)
  BY <1>1, <1>2 DEF Advanced, ring_next
<1>4. ring_inc_read(r) = ring_advance_read(r, 1)
  BY <1>3 DEF ring_inc_read, ring_advance_read
<1> QED
  BY <1>4, AdvanceReadReadsOn

\* Storing bytes behind the write pointer, as many as are free there at most, and
\* moving it on appends them.
Appended(r, q, bytes, S) ==
  /\ IsRing(q, S) /\ q.size = r.size
  /\ ring_available(q) = ring_available(r) + Len(bytes)
  /\ \A k \in Nat : k < ring_available(r) => Peeked(q, k) = Peeked(r, k)
  /\ \A k \in Nat : k < Len(bytes) => Peeked(q, ring_available(r) + k) = bytes[k + 1]

LEMMA FreeSpaceRange ==
  ASSUME NEW S, NEW r, IsRing(r, S)
  PROVE  ring_free_space_contig(r) \in 0..r.size
  BY DEF IsRing, ring_free_space_contig

LEMMA StoringAppends ==
  ASSUME NEW S, NEW r, IsRing(r, S), NEW bytes \in Seq(S), Len(bytes) <= ring_free_space_contig(r)
  PROVE  Appended(r, ring_advance_write(Stored(r, bytes), Len(bytes)), bytes, S)
<1> DEFINE s == Stored(r, bytes)
           n == Len(bytes)
           q == ring_advance_write(s, n)
<1>1. /\ r.read \in 0..(r.size - 1) /\ r.write \in 0..(r.size - 1) /\ r.size \in Nat \ {0}
      /\ n \in Nat
  BY DEF IsRing
<1>0. r.data \in [0..(r.size - 1) -> S]
  BY DEF IsRing
<1>11. n <= ring_free_space_contig(r)
  BY DEF n
<1> HIDE DEF n
<1>2. n \in 0..r.size /\ r.write + n <= r.size
  BY <1>1, <1>11 DEF ring_free_space_contig
<1>3. s = [size |-> r.size, data |-> s.data, read |-> r.read, write |-> r.write]
  <2> DEFINE d == [p \in DOMAIN r.data |-> IF p \in r.write..(r.write + Len(bytes) - 1)
                                           THEN bytes[p - r.write + 1] ELSE r.data[p]]
  <2>1. s = [r EXCEPT !.data = d]
    BY DEF Stored
  <2>2. r = [size |-> r.size, data |-> r.data, read |-> r.read, write |-> r.write]
    BY DEF IsRing
  <2> HIDE DEF d, s
  <2> QED
    BY <2>1, <2>2
<1>4. /\ s.data \in [0..(r.size - 1) -> S]
      /\ \A p \in 0..(r.size - 1) :
           s.data[p] = IF p \in r.write..(r.write + n - 1) THEN bytes[p - r.write + 1] ELSE r.data[p]
  <2>1. DOMAIN r.data = 0..(r.size - 1)
    BY <1>0
  <2>2. r = [size |-> r.size, data |-> r.data, read |-> r.read, write |-> r.write]
    BY DEF IsRing
  <2>3. s.data = [p \in 0..(r.size - 1) |-> IF p \in r.write..(r.write + n - 1)
                                            THEN bytes[p - r.write + 1] ELSE r.data[p]]
    BY <2>1, <2>2 DEF Stored, n
  <2>4. \A p \in 0..(r.size - 1) : p \in r.write..(r.write + n - 1) => bytes[p - r.write + 1] \in S
    BY <1>1, ElementOfSeq DEF n
  <2>5. \A p \in 0..(r.size - 1) : r.data[p] \in S
    BY <1>0
  <2> QED
    BY <2>3, <2>4, <2>5
<1> HIDE DEF s
<1>5. IsRing(s, S)
  BY <1>1, <1>3, <1>4 DEF IsRing
<1>6. s.size = r.size /\ s.read = r.read /\ s.write = r.write
  BY <1>3
<1>7. /\ Advanced(s, r.write, n) = IF r.write + n < r.size THEN r.write + n ELSE r.write + n - r.size
      /\ Advanced(s, r.write, n) \in 0..(r.size - 1)
  <2>1. r.write \in 0..(s.size - 1) /\ n \in 0..s.size
    BY <1>1, <1>2, <1>6
  <2>2. /\ Advanced(s, r.write, n) = IF r.write + n < s.size THEN r.write + n ELSE r.write + n - s.size
        /\ Advanced(s, r.write, n) \in 0..(s.size - 1)
    BY <2>1, <1>5, AdvancedBy
  <2> QED
    BY <2>2, <1>6
<1>8. q = [size |-> r.size, data |-> s.data, read |-> r.read, write |-> Advanced(s, r.write, n)]
  BY <1>3 DEF ring_advance_write
<1>9. IsRing(q, S)
  BY <1>1, <1>4, <1>7, <1>8 DEF IsRing
<1>10. q.size = r.size /\ q.data = s.data /\ q.read = r.read /\ q.write = Advanced(s, r.write, n)
  BY <1>8
<1> HIDE DEF q
<1>12. ring_available(q) = ring_available(r) + n
  <2> DEFINE size == r.size
             read == r.read
             write == r.write
             next == q.write
  <2>1. read \in 0..(size - 1) /\ write \in 0..(size - 1) /\ size \in Nat \ {0} /\ n \in Nat
    BY <1>1
  <2>2. next = IF write + n < size THEN write + n ELSE write + n - size
    BY <1>7, <1>10
  <2>3. n <= IF read > write THEN read - write - 1 ELSE size - write - (IF read = 0 THEN 1 ELSE 0)
    BY <1>11 DEF ring_free_space_contig
  <2>4. ring_available(r) = IF write >= read THEN write - read ELSE size - (read - write)
    BY DEF ring_available
  <2>5. ring_available(q) = IF next >= read THEN next - read ELSE size - (read - next)
    BY <1>10 DEF ring_available
  <2> HIDE DEF size, read, write, next
  <2> QED
    BY <2>1, <2>2, <2>3, <2>4, <2>5
<1>13. ASSUME NEW p \in 0..(r.size - 1), p >= r.write + n \/ p < r.write
       PROVE  s.data[p] = r.data[p]
  BY <1>1, <1>4, <1>13
<1>14. ASSUME NEW p \in 0..(r.size - 1), p >= r.write, p < r.write + n
       PROVE  s.data[p] = bytes[p - r.write + 1]
  <2>1. p \in r.write..(r.write + n - 1)
    BY <1>1, <1>14
  <2>2. s.data[p] = IF p \in r.write..(r.write + n - 1) THEN bytes[p - r.write + 1] ELSE r.data[p]
    BY <1>4, <1>14
  <2> QED
    BY <2>1, <2>2
<1>20. ASSUME r.write >= r.read
       PROVE  /\ ring_available(r) = r.write - r.read
              /\ r.write + n < r.size => ring_available_contig(q) = r.write + n - r.read
              /\ ~(r.write + n < r.size) => ring_available_contig(q) = r.size - r.read
  <2>1. CASE r.write + n < r.size
    <3>1. q.write = r.write + n /\ q.read = r.read /\ q.write >= q.read
      BY <1>1, <1>7, <1>10, <1>20, <2>1
    <3> QED
      BY <3>1, <1>1, <1>20, <2>1 DEF ring_available, ring_available_contig
  <2>2. CASE ~(r.write + n < r.size)
    <3>1. r.read # 0
      BY <1>1, <1>2, <1>11, <1>20, <2>2 DEF ring_free_space_contig
    <3>2. q.write = 0 /\ q.read = r.read /\ q.size = r.size /\ ~(q.write >= q.read)
      BY <1>1, <1>2, <1>7, <1>10, <2>2, <3>1
    <3> QED
      BY <3>2, <1>1, <1>20, <2>2 DEF ring_available, ring_available_contig
  <2> QED
    BY <2>1, <2>2
<1>21. ASSUME ~(r.write >= r.read)
       PROVE  /\ ring_available(r) = r.size - (r.read - r.write)
              /\ ring_available_contig(q) = r.size - r.read
              /\ r.write + n < r.read
  <2>1. r.write + n < r.read
    BY <1>1, <1>11, <1>21 DEF ring_free_space_contig
  <2>2. q.write = r.write + n /\ q.read = r.read /\ q.size = r.size /\ ~(q.write >= q.read)
    BY <2>1, <1>1, <1>7, <1>10
  <2> QED
    BY <2>1, <2>2, <1>21 DEF ring_available, ring_available_contig
<1>15. ASSUME NEW k \in Nat, k < ring_available(r) PROVE Peeked(q, k) = Peeked(r, k)
  <2>1. CASE r.write >= r.read
    <3>0. k < r.write - r.read
      BY <1>15, <1>20, <2>1
    <3>1. r.read + k \in 0..(r.size - 1) /\ r.read + k < r.write
      BY <1>1, <3>0
    <3>2. k < ring_available_contig(q)
      BY <1>1, <1>15, <1>20, <2>1
    <3>3. k < ring_available_contig(r)
      BY <1>1, <1>15, <1>20, <2>1 DEF ring_available_contig
    <3>4. Peeked(q, k) = s.data[r.read + k] /\ Peeked(r, k) = r.data[r.read + k]
      BY <3>2, <3>3, <1>10 DEF Peeked
    <3> QED
      BY <3>1, <3>4, <1>13
  <2>3. CASE ~(r.write >= r.read)
    <3> DEFINE c == r.size - r.read
    <3>1. /\ Peeked(q, k) = IF k < c THEN s.data[r.read + k] ELSE s.data[k - c]
          /\ Peeked(r, k) = IF k < c THEN r.data[r.read + k] ELSE r.data[k - c]
      BY <1>1, <1>10, <1>21, <2>3 DEF ring_available_contig, Peeked
    <3>2. ASSUME k < c PROVE r.read + k \in 0..(r.size - 1) /\ r.read + k >= r.write + n
      <4>1. r.write + n < r.read
        BY <1>21, <2>3
      <4>2. r.read + k < r.size /\ r.read + k >= r.read
        BY <1>1, <3>2
      <4> QED
        BY <4>1, <4>2, <1>1
    <3>3. ~(k < c) => k - c \in 0..(r.size - 1) /\ k - c < r.write
      <4>1. k < r.size - (r.read - r.write)
        BY <1>15, <1>21, <2>3
      <4> QED
        BY <4>1, <1>1
    <3> HIDE DEF c
    <3>4. CASE k < c
      BY <3>1, <3>2, <3>4, <1>13
    <3>5. CASE ~(k < c)
      BY <3>1, <3>3, <3>5, <1>13
    <3> QED
      BY <3>4, <3>5
  <2> QED
    BY <2>1, <2>3
<1>16. ASSUME NEW k \in Nat, k < n PROVE Peeked(q, ring_available(r) + k) = bytes[k + 1]
  <2>1. /\ r.write + k \in 0..(r.size - 1)
        /\ r.write + k >= r.write /\ r.write + k < r.write + n
        /\ (r.write + k) - r.write + 1 = k + 1
    <3> DEFINE write == r.write
               size == r.size
    <3>1. write \in Nat /\ size \in Nat /\ n \in Nat /\ write + n <= size
      BY <1>1, <1>2
    <3> HIDE DEF write, size
    <3>2. /\ write + k \in 0..(size - 1) /\ write + k >= write /\ write + k < write + n
          /\ (write + k) - write + 1 = k + 1
      BY <1>16, <3>1
    <3> QED
      BY <3>2 DEF write, size
  <2>2. s.data[r.write + k] = bytes[k + 1]
    <3>1. s.data[r.write + k] = bytes[(r.write + k) - r.write + 1]
      BY <2>1, <1>14
    <3> QED
      BY <3>1, <2>1
  <2>3. CASE r.write >= r.read
    <3>1. ring_available(r) + k < ring_available_contig(q)
      <4>1. CASE r.write + n < r.size
        BY <1>1, <1>16, <1>20, <2>3, <4>1
      <4>2. CASE ~(r.write + n < r.size)
        BY <1>1, <1>2, <1>16, <1>20, <2>3, <4>2
      <4> QED
        BY <4>1, <4>2
    <3>2. q.read + (ring_available(r) + k) = r.write + k
      BY <1>1, <1>10, <2>3 DEF ring_available
    <3> QED
      BY <3>1, <3>2, <2>2, <1>10 DEF Peeked
  <2>4. CASE ~(r.write >= r.read)
    <3>1. ~(ring_available(r) + k < ring_available_contig(q))
      BY <1>1, <1>16, <1>21, <2>4
    <3>2. (ring_available(r) + k) - ring_available_contig(q) = r.write + k
      BY <1>1, <1>16, <1>21, <2>4
    <3> QED
      BY <3>1, <3>2, <2>2, <1>10 DEF Peeked
  <2> QED
    BY <2>3, <2>4
<1> QED
  BY <1>9, <1>10, <1>12, <1>15, <1>16 DEF Appended, q, s, n

--------------------------------------------------------------------------------
(* Lengths.                                                                      *)

LEMMA Lengths ==
  /\ suffix_len \in Nat \ {0}
  /\ \A e \in Entries : id_len(e) \in Nat \ {0}
<1>1. Suffix \in Seq(Bytes) /\ Suffix # <<>>
  BY TemplatesAssumption
<1>2. \A e \in Entries : e \in Seq(Bytes) /\ e # <<>>
  BY TemplatesAssumption
<1> QED
  BY <1>1, <1>2, EmptySeq DEF suffix_len, id_len

\* There is a longest identifier.
LEMMA LongestEntry == \E n \in Nat : \A e \in Entries : id_len(e) <= n
<1>1. PICK c \in Nat : ExistsSurjection(1..c, Entries)
  BY TemplatesAssumption, FS_NatSurjection
<1>2. PICK f \in [1..c -> Entries] : \A e \in Entries : \E i \in 1..c : f[i] = e
  BY <1>1 DEF ExistsSurjection, Surjection
<1> DEFINE S == {k \in 0..c : \E n \in Nat : \A i \in 1..k : id_len(f[i]) <= n}
<1>3. 0 \in S
  OBVIOUS
<1>4. ASSUME NEW k \in 0..(c - 1), k \in S PROVE k + 1 \in S
  <2>1. PICK n \in Nat : \A i \in 1..k : id_len(f[i]) <= n
    BY <1>4
  <2>2. f[k + 1] \in Entries
    OBVIOUS
  <2> DEFINE l == id_len(f[k + 1])
  <2>3. l \in Nat
    BY <2>2, Lengths
  <2>4. \A i \in 1..k : f[i] \in Entries /\ id_len(f[i]) \in Nat
    BY Lengths
  <2>5. \A i \in 1..(k + 1) : i \in 1..k \/ i = k + 1
    OBVIOUS
  <2>6. \A i \in 1..(k + 1) : id_len(f[i]) <= n + l
    <3> TAKE i \in 1..(k + 1)
    <3>1. CASE i = k + 1
      <4>1. l <= n + l
        BY <2>3
      <4> QED
        BY <3>1, <4>1
    <3>2. CASE i \in 1..k
      <4> HIDE DEF l
      <4> QED
        BY <2>1, <2>3, <2>4, <3>2
    <3> QED
      BY <2>5, <3>1, <3>2
  <2>7. n + l \in Nat /\ k + 1 \in 0..c
    BY <2>3
  <2> QED
    BY <2>6, <2>7
<1>5. c \in S
  <2> HIDE DEF S
  <2>1. 0..c \subseteq S
    BY <1>3, <1>4, InductionUpTo
  <2> QED
    BY <2>1
<1>6. PICK n \in Nat : \A i \in 1..c : id_len(f[i]) <= n
  BY <1>5
<1> QED
  BY <1>2, <1>6

LEMMA MaxIdLen ==
  /\ max_id_len \in Nat \ {0}
  /\ \A e \in Entries : id_len(e) + suffix_len <= max_id_len
<1> DEFINE L == {IdLenDefault} \cup {id_len(e) + suffix_len : e \in Entries}
           U == {m \in Nat : \A x \in L : x <= m}
<1>1. L \subseteq Nat \ {0}
  BY TemplatesAssumption, Lengths
<1>2. PICK n \in Nat : \A e \in Entries : id_len(e) <= n
  BY LongestEntry
<1>3. n + suffix_len + IdLenDefault \in U
  <2>1. IdLenDefault \in Nat /\ suffix_len \in Nat
    BY TemplatesAssumption, Lengths
  <2>2. \A e \in Entries : id_len(e) \in Nat
    BY Lengths
  <2>3. \A e \in Entries : id_len(e) + suffix_len <= n + suffix_len + IdLenDefault
    BY <1>2, <2>1, <2>2
  <2>4. IdLenDefault <= n + suffix_len + IdLenDefault
    BY <2>1
  <2>5. n + suffix_len + IdLenDefault \in Nat
    BY <2>1
  <2> QED
    BY <2>3, <2>4, <2>5
<1>0. IdLenDefault \in L
  OBVIOUS
<1> HIDE DEF L
<1>4. PICK u \in U : \A m \in U : u <= m
  <2>1. U \subseteq Nat /\ U # {}
    BY <1>3
  <2> HIDE DEF U
  <2> QED
    BY <2>1, LeastNumber
<1>5. u \in L
  <2> SUFFICES ASSUME u \notin L PROVE FALSE
    OBVIOUS
  <2>1. u \in Nat /\ \A x \in L : x \in Nat /\ x # 0 /\ x <= u /\ x # u
    BY <1>1, <1>4
  <2>2. u # 0
    BY <1>0, <2>1
  <2>3. u - 1 \in U
    <3>1. u - 1 \in Nat /\ \A x \in L : x <= u - 1
      BY <2>1, <2>2
    <3> QED
      BY <3>1
  <2> QED
    BY <1>4, <2>1, <2>3
<1>6. \A x \in L : u >= x
  BY <1>1, <1>4
<1>7. max_id_len = Max(L)
  BY DEF max_id_len, L
<1>8. Max(L) \in L /\ \A x \in L : Max(L) >= x
  BY <1>5, <1>6 DEF Max
<1>9. \A x \in L : x <= max_id_len
  <2>1. \A x \in L : x \in Nat /\ max_id_len \in Nat /\ max_id_len >= x
    BY <1>1, <1>7, <1>8
  <2> QED
    BY <2>1
<1> QED
  BY <1>1, <1>7, <1>8, <1>9 DEF L

--------------------------------------------------------------------------------
(* What a page means.                                                            *)

\* What stands for a byte, and for a template; a page that is refused ends with Bad.
Item == {<<b>> : b \in Bytes} \cup (Entries \X Seq(Bytes))
Piece == Item \cup {Bad}

LEMMA Items ==
  /\ \A b \in Bytes : <<b>> \in Item
  /\ \A e \in Entries, a \in Seq(Bytes) : <<e, a>> \in Item
  /\ Bad \notin Item
<1>1. \A b : <<b>> # <<>>
  OBVIOUS
<1>2. \A x \in Entries \X Seq(Bytes) : x # <<>>
  OBVIOUS
<1> QED
  BY <1>1, <1>2 DEF Item, Bad

\* Text occurs where its bytes are.
LEMMA Occurs ==
  ASSUME NEW page \in Seq(Bytes), NEW w \in Seq(Bytes), NEW p \in Nat \ {0}
  PROVE  OccursAt(page, w, p) <=> p + Len(w) - 1 <= Len(page) /\ \A k \in 1..Len(w) : page[p + k - 1] = w[k]
<1> DEFINE n == p + Len(w) - 1
           s == SubSeq(page, p, n)
<1>1. Len(w) \in Nat /\ Len(page) \in Nat
  BY LenProperties
<1> SUFFICES ASSUME n <= Len(page)
             PROVE  s = w <=> \A k \in 1..Len(w) : page[p + k - 1] = w[k]
  BY DEF OccursAt
<1>2. s \in Seq(Bytes) /\ Len(s) = Len(w) /\ \A k \in 1..Len(w) : s[k] = page[p + k - 1]
  <2>1. p \in Int /\ n \in Int /\ \A i \in p..n : i \in 1..Len(page)
    BY <1>1
  <2>2. \A i \in p..n : page[i] \in Bytes
    BY <2>1, ElementOfSeq
  <2>3. /\ s \in Seq(Bytes)
        /\ Len(s) = IF p <= n THEN n - p + 1 ELSE 0
        /\ \A i \in 1..(n - p + 1) : s[i] = page[p + i - 1]
    BY <2>1, <2>2, SubSeqProperties
  <2>4. n - p + 1 = Len(w) /\ (~(p <= n) => Len(w) = 0)
    BY <1>1
  <2> QED
    BY <2>3, <2>4
<1> HIDE DEF s
<1>3. s = w => \A k \in 1..Len(w) : page[p + k - 1] = w[k]
  BY <1>2
<1>4. (\A k \in 1..Len(w) : page[p + k - 1] = w[k]) => s = w
  BY <1>2, SeqEqual
<1> QED
  BY <1>3, <1>4

\* One template at most begins at a position.
LEMMA OneEntry ==
  ASSUME NEW page \in Seq(Bytes), NEW p \in Nat \ {0}, NEW e \in Entries, NEW f \in Entries,
         OccursAt(page, e, p), OccursAt(page, f, p)
  PROVE  e = f
<1>1. ASSUME NEW x \in Entries, NEW y \in Entries, OccursAt(page, x, p), OccursAt(page, y, p),
             Len(x) <= Len(y)
      PROVE  x = y
  <2>1. x \in Seq(Bytes) /\ y \in Seq(Bytes) /\ Len(x) \in Nat /\ Len(y) \in Nat
    BY TemplatesAssumption, LenProperties
  <2>2. \A k \in 1..Len(x) : page[p + k - 1] = x[k]
    BY <1>1, <2>1, Occurs
  <2>3. \A k \in 1..Len(y) : page[p + k - 1] = y[k]
    BY <1>1, <2>1, Occurs
  <2>4. \A k \in 1..Len(x) : k \in 1..Len(y) /\ y[k] = x[k]
    BY <1>1, <2>1, <2>2, <2>3
  <2> DEFINE s == SubSeq(y, 1, Len(x))
  <2>5. s \in Seq(Bytes) /\ Len(s) = Len(x) /\ \A k \in 1..Len(x) : s[k] = y[k]
    <3>1. 1 \in Int /\ Len(x) \in Int /\ \A i \in 1..Len(x) : y[i] \in Bytes
      BY <2>1, <2>4, ElementOfSeq
    <3>2. /\ s \in Seq(Bytes)
          /\ Len(s) = IF 1 <= Len(x) THEN Len(x) - 1 + 1 ELSE 0
          /\ \A i \in 1..(Len(x) - 1 + 1) : s[i] = y[1 + i - 1]
      BY <3>1, SubSeqProperties
    <3>3. Len(x) - 1 + 1 = Len(x) /\ (~(1 <= Len(x)) => Len(x) = 0) /\ \A i \in 1..Len(x) : 1 + i - 1 = i
      BY <2>1
    <3> QED
      BY <3>2, <3>3
  <2> HIDE DEF s
  <2>6. s = x
    BY <2>1, <2>4, <2>5, SeqEqual
  <2> QED
    BY <1>1, <2>6, TemplatesAssumption DEF s
<1>2. Len(e) \in Nat /\ Len(f) \in Nat
  BY TemplatesAssumption, LenProperties
<1>3. Len(e) <= Len(f) \/ Len(f) <= Len(e)
  BY <1>2
<1> QED
  BY <1>1, <1>3

\* Where the terminator of a template is whose arguments begin at args, and whether
\* there is none, or too far.
End(page, args) == Min(Ends(page, args))
Refused(page, args) == Ends(page, args) = {} \/ End(page, args) - args > MaxArgLen

Begins(page, p) == {e \in Entries : OccursAt(page, e, p)}

\* The recursion of Meant.
MeantFrom(page, m, p) ==
  IF p > Len(page) THEN <<>>
  ELSE LET begins == Begins(page, p)
       IN IF begins = {} THEN <<<<page[p]>>>> \o m[p + 1]
          ELSE LET e == CHOOSE x \in begins : TRUE
                   args == p + id_len(e)
                   end == End(page, args)
               IN IF Refused(page, args) THEN <<Bad>>
                  ELSE <<<<e, SubSeq(page, args, end - 1)>>>> \o m[end + suffix_len]

LEMMA EndIs ==
  ASSUME NEW page \in Seq(Bytes), NEW args \in Nat \ {0}, Ends(page, args) # {}
  PROVE  /\ End(page, args) \in args..Len(page)
         /\ OccursAt(page, Suffix, End(page, args))
         /\ \A q \in Ends(page, args) : End(page, args) <= q
         /\ End(page, args) + suffix_len \in (args + 1)..(Len(page) + 1)
<1>1. Len(page) \in Nat
  BY LenProperties
<1>2. Ends(page, args) \subseteq Nat
  BY <1>1 DEF Ends
<1>3. End(page, args) \in Ends(page, args) /\ \A q \in Ends(page, args) : End(page, args) <= q
  BY <1>2, MinIsLeast DEF End
<1>4. End(page, args) \in args..Len(page) /\ OccursAt(page, Suffix, End(page, args))
  BY <1>3 DEF Ends
<1>5. End(page, args) + suffix_len - 1 <= Len(page) /\ suffix_len \in Nat \ {0}
  BY <1>4, Lengths DEF OccursAt, suffix_len
<1> QED
  BY <1>1, <1>3, <1>4, <1>5

\* What is recursed to is behind.
LEMMA MeantFromLater ==
  ASSUME NEW page \in Seq(Bytes), NEW m, NEW p \in 1..(Len(page) + 1),
         \A q \in (p + 1)..(Len(page) + 1) : m[q] \in Seq(Piece)
  PROVE  /\ MeantFrom(page, m, p) \in Seq(Piece)
         /\ \A f : (\A q \in (p + 1)..(Len(page) + 1) : f[q] = m[q])
                      => MeantFrom(page, f, p) = MeantFrom(page, m, p)
<1>1. Len(page) \in Nat /\ p \in Nat \ {0}
  BY LenProperties
<1>2. CASE p > Len(page)
  <2>1. \A f : MeantFrom(page, f, p) = <<>>
    BY <1>2 DEF MeantFrom
  <2> QED
    BY <2>1, EmptySeq
<1>3. ASSUME ~(p > Len(page)), Begins(page, p) = {}
      PROVE  /\ MeantFrom(page, m, p) \in Seq(Piece)
             /\ \A f : (\A q \in (p + 1)..(Len(page) + 1) : f[q] = m[q])
                          => MeantFrom(page, f, p) = MeantFrom(page, m, p)
  <2>1. \A f : MeantFrom(page, f, p) = <<<<page[p]>>>> \o f[p + 1]
    BY <1>3, Zenon DEF MeantFrom
  <2>2. p + 1 \in (p + 1)..(Len(page) + 1) /\ p \in 1..Len(page)
    BY <1>1, <1>3
  <2>3. <<page[p]>> \in Piece
    BY <2>2, ElementOfSeq, Items DEF Piece
  <2>4. <<<<page[p]>>>> \in Seq(Piece)
    BY <2>3
  <2>5. m[p + 1] \in Seq(Piece)
    BY <2>2
  <2>6. <<<<page[p]>>>> \o m[p + 1] \in Seq(Piece)
    BY <2>4, <2>5, ConcatProperties
  <2> QED
    BY <2>1, <2>2, <2>6, Zenon
<1>4. ASSUME ~(p > Len(page)), Begins(page, p) # {}
      PROVE  /\ MeantFrom(page, m, p) \in Seq(Piece)
             /\ \A f : (\A q \in (p + 1)..(Len(page) + 1) : f[q] = m[q])
                          => MeantFrom(page, f, p) = MeantFrom(page, m, p)
  <2> DEFINE e == CHOOSE x \in Begins(page, p) : TRUE
             args == p + id_len(e)
             end == End(page, args)
             item == <<e, SubSeq(page, args, end - 1)>>
  <2>1. e \in Entries
    BY <1>4 DEF Begins
  <2>2. \A f : MeantFrom(page, f, p) = IF Refused(page, args) THEN <<Bad>>
                                       ELSE <<item>> \o f[end + suffix_len]
    BY <1>4, Zenon DEF MeantFrom
  <2> HIDE DEF e
  <2>3. args \in Nat \ {0} /\ args >= p + 1
    BY <1>1, <2>1, Lengths
  <2> HIDE DEF args
  <2>4. CASE Refused(page, args)
    <3>1. \A f : MeantFrom(page, f, p) = <<Bad>>
      BY <2>2, <2>4, Zenon
    <3>2. <<Bad>> \in Seq(Piece)
      <4>1. Bad \in Piece
        BY DEF Piece
      <4> QED
        BY <4>1
    <3> QED
      BY <3>1, <3>2, Zenon
  <2>5. CASE ~Refused(page, args)
    <3>1. \A f : MeantFrom(page, f, p) = <<item>> \o f[end + suffix_len]
      BY <2>2, <2>5, Zenon
    <3>2. end \in args..Len(page) /\ end + suffix_len \in (args + 1)..(Len(page) + 1)
      BY <2>3, <2>5, EndIs DEF Refused
    <3> DEFINE after == end + suffix_len
    <3>3. after \in (p + 1)..(Len(page) + 1)
      BY <1>1, <2>3, <3>2
    <3>4. item \in Piece
      <4>1. args \in Int /\ end - 1 \in Int /\ \A i \in args..(end - 1) : i \in 1..Len(page)
        BY <1>1, <2>3, <3>2
      <4>2. \A i \in args..(end - 1) : page[i] \in Bytes
        BY <4>1, ElementOfSeq
      <4>3. SubSeq(page, args, end - 1) \in Seq(Bytes)
        BY <4>1, <4>2, SubSeqProperties
      <4> QED
        BY <2>1, <4>3, Items DEF Piece
    <3> HIDE DEF item, after
    <3>5. <<item>> \in Seq(Piece)
      BY <3>4
    <3>6. m[after] \in Seq(Piece)
      BY <3>3
    <3>7. <<item>> \o m[after] \in Seq(Piece)
      BY <3>5, <3>6, ConcatProperties
    <3>8. \A f : MeantFrom(page, f, p) = <<item>> \o f[after]
      BY <3>1 DEF after
    <3> QED
      BY <3>3, <3>7, <3>8, Zenon
  <2> QED
    BY <2>4, <2>5
<1> QED
  BY <1>2, <1>3, <1>4

\* The recursion ends: it defines a function.
LEMMA MeantExists ==
  ASSUME NEW page \in Seq(Bytes)
  PROVE  \E m \in [1..(Len(page) + 1) -> Seq(Piece)] :
           \A p \in 1..(Len(page) + 1) : m[p] = MeantFrom(page, m, p)
<1> DEFINE N == Len(page) + 1
           S == {k \in 0..N : \E m \in [1..N -> Seq(Piece)] :
                   \A p \in 1..N : p > N - k => m[p] = MeantFrom(page, m, p)}
<1>1. N \in Nat \ {0} /\ N = Len(page) + 1
  BY LenProperties
<1> HIDE DEF N
<1>2. 0 \in S
  <2> DEFINE m == [p \in 1..N |-> <<>>]
  <2>1. m \in [1..N -> Seq(Piece)]
    OBVIOUS
  <2>2. \A p \in 1..N : ~(p > N - 0)
    BY <1>1
  <2> HIDE DEF m
  <2> QED
    BY <1>1, <2>1, <2>2
<1>3. ASSUME NEW k \in 0..(N - 1), k \in S PROVE k + 1 \in S
  <2>1. PICK m \in [1..N -> Seq(Piece)] : \A p \in 1..N : p > N - k => m[p] = MeantFrom(page, m, p)
    BY <1>3
  <2> DEFINE j == N - k
             v == MeantFrom(page, m, j)
  <2>2. j \in 1..N /\ k + 1 \in 0..N /\ \A p \in 1..N : p > N - (k + 1) => p > j \/ p = j
    BY <1>1
  <2>3. \A p \in 1..N : p > j => m[p] = MeantFrom(page, m, p)
    BY <2>1
  <2> HIDE DEF j
  <2>4. v \in Seq(Piece)
    BY <1>1, <2>2, MeantFromLater
  <2> HIDE DEF v
  <2> DEFINE h == [m EXCEPT ![j] = v]
  <2>5. h \in [1..N -> Seq(Piece)] /\ h[j] = v /\ \A p \in 1..N : p # j => h[p] = m[p]
    BY <2>2, <2>4
  <2> HIDE DEF h
  <2>6. ASSUME NEW p \in 1..N, p > j \/ p = j PROVE h[p] = MeantFrom(page, h, p)
    <3>1. \A q \in (p + 1)..(Len(page) + 1) : q \in 1..N /\ q # j
      BY <1>1, <2>2, <2>6
    <3>2. \A q \in (p + 1)..(Len(page) + 1) : m[q] \in Seq(Piece) /\ h[q] = m[q]
      BY <2>5, <3>1
    <3>3. p \in 1..(Len(page) + 1)
      BY <1>1
    <3>4. MeantFrom(page, h, p) = MeantFrom(page, m, p)
      BY <3>2, <3>3, MeantFromLater
    <3>5. h[p] = MeantFrom(page, m, p)
      <4>1. CASE p = j
        BY <4>1, <2>5 DEF v
      <4>2. CASE p > j
        BY <4>2, <2>2, <2>3, <2>5
      <4> QED
        BY <2>6, <4>1, <4>2
    <3> QED
      BY <3>4, <3>5
  <2> QED
    BY <2>2, <2>5, <2>6
<1>4. N \in S
  <2> HIDE DEF S
  <2>1. 0..N \subseteq S
    BY <1>1, <1>2, <1>3, InductionUpTo
  <2> QED
    BY <1>1, <2>1
<1>5. \A p \in 1..N : p > N - N
  BY <1>1
<1> QED
  BY <1>4, <1>5 DEF N

\* Every function that is defined so has meanings for values.
LEMMA MeantTyped ==
  ASSUME NEW page \in Seq(Bytes), NEW m,
         \A p \in 1..(Len(page) + 1) : m[p] = MeantFrom(page, m, p)
  PROVE  \A p \in 1..(Len(page) + 1) : m[p] \in Seq(Piece)
<1> DEFINE N == Len(page) + 1
           S == {k \in 0..N : \A p \in 1..N : p > N - k => m[p] \in Seq(Piece)}
<1>1. N \in Nat \ {0} /\ N = Len(page) + 1
  BY LenProperties
<1> HIDE DEF N
<1>2. 0 \in S
  BY <1>1
<1>3. ASSUME NEW k \in 0..(N - 1), k \in S PROVE k + 1 \in S
  <2> DEFINE j == N - k
  <2>1. j \in 1..N /\ k + 1 \in 0..N /\ \A p \in 1..N : p > N - (k + 1) => p > j \/ p = j
    BY <1>1
  <2>2. \A p \in 1..N : p > j => m[p] \in Seq(Piece)
    BY <1>3
  <2> HIDE DEF j
  <2>3. \A q \in (j + 1)..(Len(page) + 1) : m[q] \in Seq(Piece)
    BY <1>1, <2>1, <2>2
  <2>4. m[j] \in Seq(Piece)
    BY <1>1, <2>1, <2>3, MeantFromLater
  <2> QED
    BY <2>1, <2>2, <2>4
<1>4. N \in S
  <2> HIDE DEF S
  <2>1. 0..N \subseteq S
    BY <1>1, <1>2, <1>3, InductionUpTo
  <2> QED
    BY <1>1, <2>1
<1>5. \A p \in 1..N : p > N - N
  BY <1>1
<1> QED
  BY <1>4, <1>5 DEF N

LEMMA MeantIs ==
  ASSUME NEW page \in Seq(Bytes)
  PROVE  \A p \in 1..(Len(page) + 1) :
           Meant(page)[p] = MeantFrom(page, Meant(page), p) /\ Meant(page)[p] \in Seq(Piece)
<1> DEFINE body(m) ==
      [p \in 1..(Len(page) + 1) |->
        IF p > Len(page) THEN <<>>
        ELSE LET begins == {e \in Entries : OccursAt(page, e, p)}
             IN IF begins = {} THEN <<<<page[p]>>>> \o m[p + 1]
                ELSE LET e == CHOOSE x \in begins : TRUE
                         args == p + id_len(e)
                         end == Min(Ends(page, args))
                     IN IF Ends(page, args) = {} \/ end - args > MaxArgLen THEN <<Bad>>
                        ELSE <<<<e, SubSeq(page, args, end - 1)>>>> \o m[end + suffix_len]]
<1>1. PICK m \in [1..(Len(page) + 1) -> Seq(Piece)] :
        \A p \in 1..(Len(page) + 1) : m[p] = MeantFrom(page, m, p)
  BY MeantExists
<1>2. \A f : body(f) = [p \in 1..(Len(page) + 1) |-> MeantFrom(page, f, p)]
  BY Zenon DEF MeantFrom, Begins, Refused, End
<1>3. m = body(m)
  <2>1. m = [p \in 1..(Len(page) + 1) |-> m[p]]
    OBVIOUS
  <2> HIDE DEF body
  <2>2. body(m) = [p \in 1..(Len(page) + 1) |-> MeantFrom(page, m, p)]
    BY <1>2
  <2>3. [p \in 1..(Len(page) + 1) |-> m[p]] = [p \in 1..(Len(page) + 1) |-> MeantFrom(page, m, p)]
    BY <1>1, Zenon
  <2> QED
    BY <2>1, <2>2, <2>3
<1> DEFINE w == CHOOSE w : w = body(w)
<1>4. Meant(page) = w
  BY Zenon DEF Meant
<1> HIDE DEF body
<1>5. w = body(w)
  BY <1>3, Zenon
<1> HIDE DEF w
<1>6. w = [p \in 1..(Len(page) + 1) |-> MeantFrom(page, w, p)]
  BY <1>2, <1>5
<1>7. \A p \in 1..(Len(page) + 1) : w[p] = MeantFrom(page, w, p)
  BY <1>6, Zenon
<1>8. \A p \in 1..(Len(page) + 1) : w[p] \in Seq(Piece)
  BY <1>7, MeantTyped
<1> QED
  BY <1>4, <1>7, <1>8

LEMMA MeantByte ==
  ASSUME NEW page \in Seq(Bytes), NEW p \in 1..Len(page), Begins(page, p) = {}
  PROVE  Meant(page)[p] = <<<<page[p]>>>> \o Meant(page)[p + 1]
<1>1. Len(page) \in Nat
  BY LenProperties
<1>2. p \in 1..(Len(page) + 1) /\ ~(p > Len(page))
  BY <1>1
<1>3. Meant(page)[p] = MeantFrom(page, Meant(page), p)
  BY <1>2, MeantIs
<1> QED
  BY <1>2, <1>3, Zenon DEF MeantFrom

LEMMA MeantTemplate ==
  ASSUME NEW page \in Seq(Bytes), NEW p \in 1..Len(page), NEW e \in Entries, OccursAt(page, e, p)
  PROVE  Meant(page)[p] =
           IF Refused(page, p + id_len(e)) THEN <<Bad>>
           ELSE <<<<e, SubSeq(page, p + id_len(e), End(page, p + id_len(e)) - 1)>>>>
                  \o Meant(page)[End(page, p + id_len(e)) + suffix_len]
<1>1. Len(page) \in Nat
  BY LenProperties
<1>2. p \in 1..(Len(page) + 1) /\ ~(p > Len(page)) /\ p \in Nat \ {0}
  BY <1>1
<1>3. Meant(page)[p] = MeantFrom(page, Meant(page), p)
  BY <1>2, MeantIs
<1>4. e \in Begins(page, p)
  BY DEF Begins
<1>5. (CHOOSE x \in Begins(page, p) : TRUE) = e
  <2> DEFINE c == CHOOSE x \in Begins(page, p) : TRUE
  <2>1. c \in Begins(page, p)
    BY <1>4
  <2> HIDE DEF c
  <2>2. c \in Entries /\ OccursAt(page, c, p)
    BY <2>1 DEF Begins
  <2>3. c = e
    BY <1>2, <2>2, OneEntry
  <2> QED
    BY <2>3 DEF c
<1>6. Begins(page, p) # {}
  BY <1>4
<1> QED
  BY <1>2, <1>3, <1>5, <1>6, Zenon DEF MeantFrom

LEMMA MeantEnd ==
  ASSUME NEW page \in Seq(Bytes) PROVE Meant(page)[Len(page) + 1] = <<>>
<1>1. Len(page) + 1 \in 1..(Len(page) + 1) /\ Len(page) + 1 > Len(page)
  BY LenProperties
<1>2. Meant(page)[Len(page) + 1] = MeantFrom(page, Meant(page), Len(page) + 1)
  BY <1>1, MeantIs
<1> QED
  BY <1>1, <1>2, Zenon DEF MeantFrom

--------------------------------------------------------------------------------
(* The slices.                                                                   *)

SliceType == [start : Nat, end : Nat, entry : Entries \cup {Text}, args : Seq(Bytes)]

\* What a slice says of the page is what the page means there.
Says(page, s) ==
  IF s.entry = Text
  THEN \A i \in (s.start + 1)..s.end : Meant(page)[i] = <<<<page[i]>>>> \o Meant(page)[i + 1]
  ELSE Meant(page)[s.start + 1] = <<<<s.entry, s.args>>>> \o Meant(page)[s.end + 1]

\* The slices are the page up to pos, one after the other.
Sliced(page, sl, pos) ==
  /\ sl \in Seq(SliceType) /\ Len(sl) >= 1
  /\ sl[1].start = 0 /\ sl[Len(sl)].end = pos /\ sl[Len(sl)].entry = Text
  /\ \A k \in 1..Len(sl) : sl[k].start <= sl[k].end /\ sl[k].end <= pos /\ Says(page, sl[k])
  /\ \A k \in 1..(Len(sl) - 1) : sl[k + 1].start = sl[k].end

Closed(sl, pos) == [sl EXCEPT ![Len(sl)].end = pos]

\* What the page means begins with what it means up to pos, and that is not refused.
EndsWith(all, rest, I) == \E m \in Seq(I) : all = m \o rest
Understood(page, pos) == EndsWith(Meant(page)[1], Meant(page)[pos + 1], Item)

Parsed(page, sl, pos) ==
  /\ sl \in Seq(SliceType) \ {<<>>} /\ pos \in 0..Len(page)
  /\ Sliced(page, Closed(sl, pos), pos)
  /\ Understood(page, pos)

LEMMA ItemsArePieces == Item \subseteq Piece /\ Seq(Item) \subseteq Seq(Piece)
<1>1. Item \subseteq Piece
  BY DEF Piece
<1> QED
  BY <1>1, SeqMonotonic

LEMMA Regrouped ==
  ASSUME NEW P, NEW m \in Seq(P), NEW i \in P, NEW x \in Seq(P), NEW y, NEW all,
         all = m \o y, y = <<i>> \o x
  PROVE  all = (m \o <<i>>) \o x
<1>1. <<i>> \in Seq(P)
  OBVIOUS
<1>2. (m \o <<i>>) \o x = m \o (<<i>> \o x)
  BY <1>1, ConcatAssociative
<1> QED
  BY <1>2

LEMMA OneMore ==
  ASSUME NEW I, NEW P, I \subseteq P,
         NEW all, NEW y, NEW x \in Seq(P), NEW item \in I, NEW m \in Seq(I),
         y = <<item>> \o x, all = m \o y
  PROVE  EndsWith(all, x, I)
<1>1. m \in Seq(P) /\ item \in P
  BY SeqMonotonic
<1>2. all = (m \o <<item>>) \o x
  BY <1>1, Regrouped
<1>3. m \o <<item>> \in Seq(I)
  <2>1. <<item>> \in Seq(I)
    OBVIOUS
  <2> QED
    BY <2>1, ConcatProperties
<1> QED
  BY <1>2, <1>3 DEF EndsWith

LEMMA EndsWithLess ==
  ASSUME NEW I, NEW P, I \subseteq P,
         NEW all, NEW y, NEW x \in Seq(P), NEW item \in I,
         y = <<item>> \o x, EndsWith(all, y, I)
  PROVE  EndsWith(all, x, I)
<1>1. \A m \in Seq(I) : all = m \o y => EndsWith(all, x, I)
  BY OneMore, Zenon
<1> QED
  BY <1>1 DEF EndsWith

\* One more item is understood.
LEMMA UnderstoodOn ==
  ASSUME NEW page \in Seq(Bytes), NEW pos \in 0..Len(page), NEW next \in 0..Len(page), NEW item \in Item,
         Understood(page, pos), Meant(page)[pos + 1] = <<item>> \o Meant(page)[next + 1]
  PROVE  Understood(page, next)
<1>1. next + 1 \in 1..(Len(page) + 1)
  BY LenProperties
<1>2. Meant(page)[next + 1] \in Seq(Piece)
  BY <1>1, MeantIs
<1>3. Item \subseteq Piece
  BY ItemsArePieces
<1>4. ASSUME NEW all, NEW y, NEW x, x \in Seq(Piece), y = <<item>> \o x, EndsWith(all, y, Item)
      PROVE  EndsWith(all, x, Item)
  BY <1>3, <1>4, EndsWithLess
<1> QED
  BY <1>2, <1>4 DEF Understood

\* A page with a template that is refused is bad, one that is understood to its
\* end is not.
LEMMA RefusedIsBad ==
  ASSUME NEW page \in Seq(Bytes), NEW pos \in 0..Len(page), Understood(page, pos),
         Meant(page)[pos + 1] = <<Bad>>
  PROVE  IsBad(Meant(page)[1])
<1>1. PICK m \in Seq(Item) : Meant(page)[1] = m \o <<Bad>>
  BY DEF Understood, EndsWith
<1>2. m \in Seq(Piece) /\ <<Bad>> \in Seq(Piece) /\ Len(<<Bad>>) = 1 /\ <<Bad>>[1] = Bad
  BY ItemsArePieces DEF Piece
<1> DEFINE t == m \o <<Bad>>
<1>3. /\ Len(t) = Len(m) + 1 /\ t \in Seq(Piece) /\ Len(m) \in Nat
      /\ \A i \in 1..(Len(m) + 1) : t[i] = IF i <= Len(m) THEN m[i] ELSE <<Bad>>[i - Len(m)]
  BY <1>2, ConcatProperties, LenProperties
<1> HIDE DEF t
<1>4. t[Len(t)] = <<Bad>>[1]
  <2>1. Len(t) \in 1..(Len(m) + 1) /\ ~(Len(t) <= Len(m)) /\ Len(t) - Len(m) = 1
    BY <1>3
  <2> QED
    BY <1>3, <2>1
<1>5. t # <<>>
  BY <1>3, EmptySeq
<1> QED
  BY <1>1, <1>2, <1>4, <1>5 DEF IsBad, t

LEMMA UnderstoodIsGood ==
  ASSUME NEW page \in Seq(Bytes), Understood(page, Len(page)) PROVE ~IsBad(Meant(page)[1])
<1>1. PICK m \in Seq(Item) : Meant(page)[1] = m \o <<>>
  BY MeantEnd DEF Understood, EndsWith
<1>2. Meant(page)[1] = m
  BY <1>1, ConcatEmptySeq
<1>3. m # <<>> => m[Len(m)] \in Item
  <2> HAVE m # <<>>
  <2>1. Len(m) \in Nat \ {0}
    BY EmptySeq
  <2>2. Len(m) \in 1..Len(m)
    BY <2>1
  <2> QED
    BY <2>2, ElementOfSeq
<1> QED
  BY <1>2, <1>3, Items DEF IsBad

LEMMA ClosedIs ==
  ASSUME NEW sl \in Seq(SliceType), Len(sl) >= 1, NEW pos \in Nat
  PROVE  /\ Closed(sl, pos) \in Seq(SliceType) /\ Len(Closed(sl, pos)) = Len(sl)
         /\ \A k \in 1..(Len(sl) - 1) : Closed(sl, pos)[k] = sl[k]
         /\ Closed(sl, pos)[Len(sl)] = [sl[Len(sl)] EXCEPT !.end = pos]
<1>1. Len(sl) \in 1..Len(sl) /\ Len(sl) \in Nat
  BY LenProperties
<1> DEFINE last == [sl[Len(sl)] EXCEPT !.end = pos]
<1>2. sl[Len(sl)] \in SliceType
  BY <1>1, ElementOfSeq
<1>3. last \in SliceType
  BY <1>2 DEF SliceType
<1>4. Closed(sl, pos) = [sl EXCEPT ![Len(sl)] = last]
  BY DEF Closed
<1> HIDE DEF last
<1>5. /\ Closed(sl, pos) \in Seq(SliceType) /\ Len(Closed(sl, pos)) = Len(sl)
      /\ \A j \in 1..Len(sl) : Closed(sl, pos)[j] = IF j = Len(sl) THEN last ELSE sl[j]
  BY <1>1, <1>3, <1>4, ExceptSeq
<1>6. \A k \in 1..(Len(sl) - 1) : k \in 1..Len(sl) /\ k # Len(sl)
  BY <1>1
<1> QED
  BY <1>1, <1>5, <1>6 DEF last

LEMMA ParsedAtFirst ==
  ASSUME NEW page \in Seq(Bytes) PROVE Parsed(page, <<Slice(0, 0, Text, <<>>)>>, 0)
<1> DEFINE s == Slice(0, 0, Text, <<>>)
           sl == <<s>>
<1>1. s \in SliceType /\ s.start = 0 /\ s.end = 0 /\ s.entry = Text
  BY DEF Slice, SliceType
<1> HIDE DEF s
<1>2. sl \in Seq(SliceType) /\ Len(sl) = 1 /\ sl[1] = s
  BY <1>1
<1>3. [s EXCEPT !.end = 0] = s
  BY <1>1 DEF SliceType
<1>4. Closed(sl, 0) = sl
  <2> HIDE DEF sl
  <2>0. 0 \in Nat /\ Len(sl) >= 1
    BY <1>2
  <2>1. /\ Closed(sl, 0) \in Seq(SliceType) /\ Len(Closed(sl, 0)) = Len(sl)
        /\ Closed(sl, 0)[Len(sl)] = [sl[Len(sl)] EXCEPT !.end = 0]
    BY <1>2, <2>0, ClosedIs
  <2>2. \A i \in 1..Len(sl) : Closed(sl, 0)[i] = sl[i]
    BY <1>2, <1>3, <2>1
  <2> QED
    BY <1>2, <2>1, <2>2, SeqEqual
<1> HIDE DEF sl
<1>5. Says(page, s)
  BY <1>1 DEF Says
<1>6. Sliced(page, sl, 0)
  BY <1>1, <1>2, <1>5 DEF Sliced
<1>7. Understood(page, 0)
  <2>1. 1 \in 1..(Len(page) + 1)
    BY LenProperties
  <2>2. Meant(page)[1] \in Seq(Piece)
    BY <2>1, MeantIs
  <2>3. Meant(page)[1] = <<>> \o Meant(page)[0 + 1]
    BY <2>2, ConcatEmptySeq
  <2> QED
    BY <2>3, EmptySeq DEF Understood, EndsWith
<1>8. 0 \in 0..Len(page)
  BY LenProperties
<1> QED
  BY <1>2, <1>4, <1>6, <1>7, <1>8 DEF Parsed, sl, s

\* The open slice grows by a byte.
LEMMA ParsedByte ==
  ASSUME NEW page \in Seq(Bytes), NEW sl, NEW pos, Parsed(page, sl, pos),
         pos < Len(page), Begins(page, pos + 1) = {}
  PROVE  Parsed(page, sl, pos + 1)
<1>1. pos \in Nat /\ pos + 1 \in 1..Len(page) /\ pos + 1 \in 0..Len(page) /\ sl \in Seq(SliceType)
  BY LenProperties DEF Parsed
<1> DEFINE c == Closed(sl, pos)
           d == Closed(sl, pos + 1)
           n == Len(sl)
<1>2. Sliced(page, c, pos)
  BY DEF Parsed
<1>3. n \in Nat \ {0}
  BY EmptySeq DEF Parsed
<1>4. /\ c \in Seq(SliceType) /\ Len(c) = n
      /\ \A k \in 1..(n - 1) : c[k] = sl[k]
      /\ c[n] = [sl[n] EXCEPT !.end = pos]
  BY <1>1, <1>3, ClosedIs
<1>5. /\ d \in Seq(SliceType) /\ Len(d) = n
      /\ \A k \in 1..(n - 1) : d[k] = sl[k]
      /\ d[n] = [sl[n] EXCEPT !.end = pos + 1]
  BY <1>1, <1>3, ClosedIs
<1>6. sl[n] \in SliceType
  <2>1. n \in 1..Len(sl)
    BY <1>3
  <2> QED
    BY <1>1, <2>1, ElementOfSeq
<1>7. /\ d[n].start = c[n].start /\ d[n].entry = c[n].entry /\ d[n].end = pos + 1 /\ c[n].end = pos
      /\ d[n].start \in Nat
  BY <1>1, <1>4, <1>5, <1>6 DEF SliceType
<1> HIDE DEF c, d, n
<1>8. /\ c[1].start = 0 /\ c[n].entry = Text
      /\ \A k \in 1..n : c[k].start <= c[k].end /\ c[k].end <= pos /\ Says(page, c[k])
      /\ \A k \in 1..(n - 1) : c[k + 1].start = c[k].end
  BY <1>2, <1>4 DEF Sliced
<1>9. Meant(page)[pos + 1] = <<<<page[pos + 1]>>>> \o Meant(page)[(pos + 1) + 1]
  BY <1>1, MeantByte
<1>10. Says(page, d[n])
  <2>1. \A i \in (d[n].start + 1)..d[n].end : i = pos + 1 \/ i \in (c[n].start + 1)..c[n].end
    BY <1>1, <1>7
  <2>2. n \in 1..n
    BY <1>3
  <2>3. Says(page, c[n])
    BY <1>8, <2>2
  <2> QED
    BY <1>7, <1>8, <1>9, <2>1, <2>3 DEF Says
<1>11. \A k \in 1..(n - 1) : d[k] = c[k]
  BY <1>4, <1>5
<1>12. \A k \in 1..n : d[k].start <= d[k].end /\ d[k].end <= pos + 1 /\ Says(page, d[k])
  <2> TAKE k \in 1..n
  <2>1. CASE k = n
    <3>1. c[n].start <= pos
      BY <1>3, <1>7, <1>8
    <3> QED
      BY <1>1, <1>7, <1>10, <2>1, <3>1
  <2>2. CASE k \in 1..(n - 1)
    <3>1. d[k] = c[k] /\ c[k].end <= pos /\ c[k] \in SliceType
      BY <1>4, <1>8, <1>11, <2>2, ElementOfSeq
    <3>2. c[k].end \in Nat
      BY <3>1 DEF SliceType
    <3> QED
      BY <1>1, <1>8, <3>1, <3>2
  <2> QED
    BY <1>3, <2>1, <2>2
<1>13. \A k \in 1..(n - 1) : d[k + 1].start = d[k].end
  <2> TAKE k \in 1..(n - 1)
  <2>1. d[k].end = c[k].end /\ c[k + 1].start = c[k].end
    BY <1>8, <1>11
  <2>2. d[k + 1].start = c[k + 1].start
    <3>1. k + 1 = n \/ k + 1 \in 1..(n - 1)
      BY <1>3
    <3> QED
      BY <1>7, <1>11, <3>1
  <2> QED
    BY <2>1, <2>2
<1>14. d[1].start = 0
  <2>1. 1 = n \/ 1 \in 1..(n - 1)
    BY <1>3
  <2> QED
    BY <1>7, <1>8, <1>11, <2>1
<1>15. Sliced(page, d, pos + 1)
  BY <1>3, <1>5, <1>7, <1>8, <1>12, <1>13, <1>14 DEF Sliced
<1>16. Understood(page, pos + 1)
  <2>1. <<page[pos + 1]>> \in Item
    BY <1>1, ElementOfSeq, Items
  <2>2. pos \in 0..Len(page)
    BY DEF Parsed
  <2>3. Understood(page, pos)
    BY DEF Parsed
  <2> QED
    BY <1>1, <1>9, <2>1, <2>2, <2>3, UnderstoodOn
<1> QED
  BY <1>1, <1>15, <1>16 DEF Parsed, d

\* Two slices behind others.
LEMMA TwoMore ==
  ASSUME NEW S, NEW c \in Seq(S), NEW a \in S, NEW b \in S
  PROVE  /\ c \o <<a, b>> \in Seq(S) /\ Len(c \o <<a, b>>) = Len(c) + 2
         /\ \A k \in 1..Len(c) : (c \o <<a, b>>)[k] = c[k]
         /\ (c \o <<a, b>>)[Len(c) + 1] = a /\ (c \o <<a, b>>)[Len(c) + 2] = b
<1> DEFINE t == <<a, b>>
<1>1. t \in Seq(S) /\ Len(t) = 2 /\ t[1] = a /\ t[2] = b
  OBVIOUS
<1>2. Len(c) \in Nat
  BY LenProperties
<1> HIDE DEF t
<1>3. /\ c \o t \in Seq(S) /\ Len(c \o t) = Len(c) + Len(t)
      /\ \A i \in 1..(Len(c) + Len(t)) : (c \o t)[i] = IF i <= Len(c) THEN c[i] ELSE t[i - Len(c)]
  BY <1>1, ConcatProperties
<1>4. \A k \in 1..Len(c) : k \in 1..(Len(c) + Len(t)) /\ k <= Len(c)
  BY <1>1, <1>2
<1>5. /\ Len(c) + 1 \in 1..(Len(c) + Len(t)) /\ ~(Len(c) + 1 <= Len(c)) /\ (Len(c) + 1) - Len(c) = 1
      /\ Len(c) + 2 \in 1..(Len(c) + Len(t)) /\ ~(Len(c) + 2 <= Len(c)) /\ (Len(c) + 2) - Len(c) = 2
  BY <1>1, <1>2
<1>6. \A k \in 1..Len(c) : (c \o t)[k] = c[k]
  BY <1>3, <1>4
<1>7. (c \o t)[Len(c) + 1] = t[1] /\ (c \o t)[Len(c) + 2] = t[2]
  <2>1. (c \o t)[Len(c) + 1] = t[(Len(c) + 1) - Len(c)] /\ (c \o t)[Len(c) + 2] = t[(Len(c) + 2) - Len(c)]
    BY <1>3, <1>5
  <2> QED
    BY <1>5, <2>1
<1> QED
  BY <1>1, <1>3, <1>6, <1>7 DEF t

\* Slices up to pos, and two that go on from there.
LEMMA SlicedOn ==
  ASSUME NEW page \in Seq(Bytes), NEW c, NEW d \in Seq(SliceType), NEW pos \in Nat, NEW next \in Nat,
         Sliced(page, c, pos), pos <= next,
         Len(d) = Len(c) + 2, \A k \in 1..Len(c) : d[k] = c[k],
         d[Len(c) + 1].start = pos, d[Len(c) + 1].end = next, Says(page, d[Len(c) + 1]),
         d[Len(c) + 2].start = next, d[Len(c) + 2].end = next, d[Len(c) + 2].entry = Text
  PROVE  Sliced(page, d, next)
<1> DEFINE n == Len(c)
<1>1. n \in Nat \ {0} /\ c \in Seq(SliceType)
  <2>1. c \in Seq(SliceType) /\ Len(c) >= 1
    BY DEF Sliced
  <2>2. Len(c) \in Nat
    BY <2>1, LenProperties
  <2> QED
    BY <2>1, <2>2
<1> HIDE DEF n
<1>2. /\ c[1].start = 0 /\ c[n].end = pos
      /\ \A k \in 1..n : c[k].start <= c[k].end /\ c[k].end <= pos /\ Says(page, c[k])
      /\ \A k \in 1..(n - 1) : c[k + 1].start = c[k].end
  BY DEF Sliced, n
<1>3. Len(d) = n + 2 /\ \A k \in 1..n : d[k] = c[k]
  BY DEF n
<1>4. /\ d[n + 1].start = pos /\ d[n + 1].end = next /\ Says(page, d[n + 1])
      /\ d[n + 2].start = next /\ d[n + 2].end = next /\ d[n + 2].entry = Text
  BY DEF n
<1>5. Says(page, d[n + 2])
  <2>1. (d[n + 2].start + 1)..d[n + 2].end = {}
    BY <1>4
  <2> QED
    BY <1>4, <2>1 DEF Says
<1> DEFINE l == Len(d)
<1>10. l = n + 2 /\ l >= 1 /\ l \in Nat
  BY <1>1, <1>3
<1> HIDE DEF l
<1>6. \A k \in 1..l : d[k].start <= d[k].end /\ d[k].end <= next /\ Says(page, d[k])
  <2> TAKE k \in 1..l
  <2>1. CASE k \in 1..n
    <3>1. d[k] = c[k] /\ c[k].start <= c[k].end /\ c[k].end <= pos /\ Says(page, c[k])
      BY <1>2, <1>3, <2>1
    <3>2. c[k] \in SliceType
      <4>1. k \in 1..Len(c)
        BY <2>1 DEF n
      <4> QED
        BY <4>1, <1>1, ElementOfSeq
    <3>3. c[k].end \in Nat
      BY <3>2 DEF SliceType
    <3> QED
      BY <3>1, <3>3
  <2>2. CASE k = n + 1
    BY <1>4, <2>2
  <2>3. CASE k = n + 2
    BY <1>4, <1>5, <2>3
  <2> QED
    BY <1>1, <1>10, <2>1, <2>2, <2>3
<1>7. \A k \in 1..(l - 1) : d[k + 1].start = d[k].end
  <2> TAKE k \in 1..(l - 1)
  <2>1. CASE k \in 1..(n - 1)
    <3>1. k \in 1..n /\ k + 1 \in 1..n
      BY <1>1, <2>1
    <3> QED
      BY <1>2, <1>3, <2>1, <3>1
  <2>2. CASE k = n
    BY <1>1, <1>2, <1>3, <1>4, <2>2
  <2>3. CASE k = n + 1
    <3>1. k + 1 = n + 2
      BY <1>1, <2>3
    <3> QED
      BY <1>4, <2>3, <3>1
  <2>4. k \in 1..(n - 1) \/ k = n \/ k = n + 1
    BY <1>1, <1>10
  <2> QED
    BY <2>1, <2>2, <2>3, <2>4
<1>8. d[1].start = 0
  BY <1>1, <1>2, <1>3
<1>9. d[l].end = next /\ d[l].entry = Text
  BY <1>4, <1>10
<1> QED
  BY <1>6, <1>7, <1>8, <1>9, <1>10 DEF Sliced, l

\* A template, with its arguments, is understood.
LEMMA ParsedTemplate ==
  ASSUME NEW page \in Seq(Bytes), NEW sl, NEW pos, Parsed(page, sl, pos),
         NEW e \in Entries, OccursAt(page, e, pos + 1),
         NEW args, args = pos + 1 + id_len(e), ~Refused(page, args),
         NEW next, next = End(page, args) - 1 + suffix_len
  PROVE  Parsed(page,
                Closed(sl, pos) \o <<Slice(pos, next, e, SubSeq(page, args, End(page, args) - 1)),
                                     Slice(next, 0, Text, <<>>)>>,
                next)
<1> DEFINE end == End(page, args)
           text == SubSeq(page, args, end - 1)
           c == Closed(sl, pos)
           a == Slice(pos, next, e, text)
           b == Slice(next, 0, Text, <<>>)
           t == c \o <<a, b>>
           d == Closed(t, next)
<1>1. /\ pos \in Nat /\ pos \in 0..Len(page) /\ sl \in Seq(SliceType) /\ sl # <<>>
      /\ Sliced(page, c, pos) /\ Understood(page, pos)
  BY DEF Parsed
<1>2. args \in Nat \ {0} /\ args >= pos + 1 + 1 /\ Len(page) \in Nat /\ suffix_len \in Nat \ {0}
  BY <1>1, Lengths, LenProperties
<1>3. /\ end \in args..Len(page) /\ end + suffix_len \in (args + 1)..(Len(page) + 1)
      /\ Ends(page, args) # {}
  BY <1>2, EndIs DEF Refused
<1>4. /\ next \in Nat /\ next \in 0..Len(page) /\ pos <= next /\ next + 1 = end + suffix_len
      /\ pos + 1 \in 1..Len(page)
  <2> DEFINE len == Len(page)
  <2>1. /\ end \in Nat /\ next = end - 1 + suffix_len /\ len \in Nat
        /\ args <= end /\ end <= len /\ end + suffix_len <= len + 1
    BY <1>2, <1>3
  <2>2. pos \in Nat /\ args \in Nat \ {0} /\ args >= pos + 1 + 1 /\ suffix_len \in Nat \ {0}
    BY <1>1, <1>2
  <2> HIDE DEF end, len
  <2>3. next \in 0..len /\ pos <= next /\ next + 1 = end + suffix_len /\ pos + 1 \in 1..len
    BY <2>1, <2>2
  <2>4. next \in Nat
    BY <2>1, <2>3
  <2> QED
    BY <2>3, <2>4 DEF len
<1>5. text \in Seq(Bytes)
  <2>1. args \in Int /\ end - 1 \in Int /\ \A i \in args..(end - 1) : i \in 1..Len(page)
    BY <1>2, <1>3
  <2>2. \A i \in args..(end - 1) : page[i] \in Bytes
    BY <2>1, ElementOfSeq
  <2> QED
    BY <2>1, <2>2, SubSeqProperties
<1>6. Meant(page)[pos + 1] = <<<<e, text>>>> \o Meant(page)[next + 1]
  <2>1. pos + 1 + id_len(e) = args /\ OccursAt(page, e, pos + 1)
    OBVIOUS
  <2>2. Meant(page)[pos + 1] =
           IF Refused(page, pos + 1 + id_len(e)) THEN <<Bad>>
           ELSE <<<<e, SubSeq(page, pos + 1 + id_len(e), End(page, pos + 1 + id_len(e)) - 1)>>>>
                  \o Meant(page)[End(page, pos + 1 + id_len(e)) + suffix_len]
    BY <1>4, <2>1, MeantTemplate
  <2>3. Meant(page)[pos + 1] = <<<<e, text>>>> \o Meant(page)[end + suffix_len]
    BY <2>1, <2>2, Zenon
  <2> HIDE DEF text, end
  <2> QED
    BY <1>4, <2>3
<1>7. e # Text
  BY TemplatesAssumption
<1> HIDE DEF end, text
<1>8. /\ a \in SliceType /\ a.start = pos /\ a.end = next /\ a.entry = e /\ a.args = text
      /\ b \in SliceType /\ b.start = next /\ b.entry = Text
  BY <1>1, <1>4, <1>5 DEF Slice, SliceType
<1>9. Says(page, a)
  BY <1>6, <1>7, <1>8 DEF Says
<1>10. Len(sl) \in Nat /\ Len(sl) >= 1
  BY <1>1, EmptySeq
<1>11. c \in Seq(SliceType) /\ Len(c) \in Nat
  BY <1>1, <1>10, ClosedIs
<1> HIDE DEF a, b, c
<1>12. /\ t \in Seq(SliceType) /\ Len(t) = Len(c) + 2
       /\ \A k \in 1..Len(c) : t[k] = c[k]
       /\ t[Len(c) + 1] = a /\ t[Len(c) + 2] = b
  BY <1>8, <1>11, TwoMore
<1> HIDE DEF t
<1>13. Len(t) >= 1 /\ t # <<>>
  BY <1>11, <1>12, EmptySeq
<1>14. /\ d \in Seq(SliceType) /\ Len(d) = Len(t)
       /\ \A k \in 1..(Len(t) - 1) : d[k] = t[k]
       /\ d[Len(t)] = [t[Len(t)] EXCEPT !.end = next]
  BY <1>4, <1>12, <1>13, ClosedIs
<1> HIDE DEF d
<1>15. /\ Len(d) = Len(c) + 2 /\ \A k \in 1..Len(c) : d[k] = c[k]
       /\ d[Len(c) + 1] = a /\ d[Len(c) + 2] = [b EXCEPT !.end = next]
  <2>1. \A k \in 1..Len(c) : k \in 1..(Len(t) - 1)
    BY <1>11, <1>12
  <2>2. Len(c) + 1 \in 1..(Len(t) - 1) /\ Len(c) + 2 = Len(t)
    BY <1>11, <1>12
  <2> QED
    BY <1>12, <1>14, <2>1, <2>2
<1>16. LET x == [b EXCEPT !.end = next] IN x.start = next /\ x.end = next /\ x.entry = Text
  BY <1>8 DEF SliceType
<1>17. Sliced(page, d, next)
  BY <1>1, <1>4, <1>8, <1>9, <1>14, <1>15, <1>16, SlicedOn
<1>18. Understood(page, next)
  <2>1. <<e, text>> \in Item
    BY <1>5, Items
  <2> QED
    BY <1>1, <1>4, <1>6, <2>1, UnderstoodOn
<1>19. Parsed(page, t, next)
  BY <1>4, <1>12, <1>13, <1>17, <1>18 DEF Parsed, d
<1> QED
  BY <1>19 DEF t, a, b, c, text, end

\* The page has ended: all of it is sliced, and it is not refused.
LEMMA ParsedAll ==
  ASSUME NEW page \in Seq(Bytes), NEW sl, Parsed(page, sl, Len(page))
  PROVE  Sliced(page, Closed(sl, Len(page)), Len(page)) /\ ~IsBad(Meant(page)[1])
BY UnderstoodIsGood DEF Parsed

--------------------------------------------------------------------------------
(* Rendering.                                                                   *)

\* Pieces may be grouped in any way.
LEMMA BothBehind ==
  ASSUME NEW P, NEW a \in Seq(P), NEW b \in Seq(P), NEW c \in Seq(P)
  PROVE  a \o b \in Seq(P) /\ a \o (b \o c) = (a \o b) \o c
<1>1. (a \o b) \o c = a \o (b \o c)
  BY ConcatAssociative
<1>2. a \o b \in Seq(P)
  BY ConcatProperties
<1> QED
  BY <1>1, <1>2

LEMMA PiecesBehind ==
  ASSUME NEW a \in Seq(Piece), NEW b \in Seq(Piece), NEW c \in Seq(Piece)
  PROVE  a \o b \in Seq(Piece) /\ a \o (b \o c) = (a \o b) \o c
<1>1. \A P : a \in Seq(P) /\ b \in Seq(P) /\ c \in Seq(P) =>
               a \o b \in Seq(P) /\ a \o (b \o c) = (a \o b) \o c
  BY BothBehind
<1> QED
  BY <1>1, Zenon

LEMMA PieceBehind ==
  ASSUME NEW a \in Seq(Piece), NEW i \in Piece, NEW c \in Seq(Piece)
  PROVE  /\ a \o (<<i>> \o c) = (a \o <<i>>) \o c
         /\ Append(a, i) = a \o <<i>> /\ Append(a, i) \in Seq(Piece)
<1>1. \A P : i \in P => <<i>> \in Seq(P)
  OBVIOUS
<1>2. \A P : a \in Seq(P) /\ i \in P => Append(a, i) = a \o <<i>> /\ Append(a, i) \in Seq(P)
  BY AppendIsConcat, AppendProperties
<1>3. <<i>> \in Seq(Piece) /\ Append(a, i) = a \o <<i>> /\ Append(a, i) \in Seq(Piece)
  BY <1>1, <1>2, Zenon
<1> QED
  BY <1>3, PiecesBehind, Zenon

\* What stands for the bytes of the page from behind pos up to pos + k.
SentSpan(page, pos, k) == Sent(SubSeq(page, pos + 1, pos + k))

LEMMA SpanIs ==
  ASSUME NEW page \in Seq(Bytes), NEW pos \in Nat, NEW k \in Nat, pos + k <= Len(page)
  PROVE  /\ SentSpan(page, pos, k) \in Seq(Item) /\ Len(SentSpan(page, pos, k)) = k
         /\ \A i \in 1..k : SentSpan(page, pos, k)[i] = <<page[pos + i]>>
<1> DEFINE s == SubSeq(page, pos + 1, pos + k)
<1>1. Len(page) \in Nat
  BY LenProperties
<1>2. s \in Seq(Bytes) /\ Len(s) = k /\ \A i \in 1..k : s[i] = page[pos + i]
  <2>1. pos + 1 \in Int /\ pos + k \in Int /\ \A i \in (pos + 1)..(pos + k) : i \in 1..Len(page)
    BY <1>1
  <2>2. \A i \in (pos + 1)..(pos + k) : page[i] \in Bytes
    BY <2>1, ElementOfSeq
  <2>3. /\ s \in Seq(Bytes)
        /\ Len(s) = IF pos + 1 <= pos + k THEN (pos + k) - (pos + 1) + 1 ELSE 0
        /\ \A i \in 1..((pos + k) - (pos + 1) + 1) : s[i] = page[pos + 1 + i - 1]
    BY <2>1, <2>2, SubSeqProperties
  <2>4. (pos + k) - (pos + 1) + 1 = k /\ (~(pos + 1 <= pos + k) => k = 0)
        /\ \A i \in 1..k : pos + 1 + i - 1 = pos + i
    OBVIOUS
  <2> QED
    BY <2>3, <2>4
<1> HIDE DEF s
<1>3. Sent(s) = [i \in 1..k |-> <<s[i]>>]
  BY <1>2 DEF Sent
<1>4. \A i \in 1..k : <<s[i]>> \in Item
  <2> TAKE i \in 1..k
  <2>1. s[i] \in Bytes
    BY <1>2, ElementOfSeq
  <2> QED
    BY <2>1, Items
<1> DEFINE t == [i \in 1..k |-> <<s[i]>>]
<1>5. t \in Seq(Item) /\ Len(t) = k /\ \A i \in 1..k : t[i] = <<s[i]>>
  <2>1. t \in [1..k -> Item]
    BY <1>4
  <2>2. \A i \in 1..k : t[i] = <<s[i]>>
    OBVIOUS
  <2> HIDE DEF t
  <2>3. t \in Seq(Item)
    BY <2>1, SeqDef
  <2>4. Len(t) = k
    <3>1. DOMAIN t = 1..k
      BY <2>1
    <3>2. DOMAIN t = 1..Len(t) /\ Len(t) \in Nat
      BY <2>3, LenProperties
    <3> QED
      BY <3>1, <3>2
  <2> QED
    BY <2>2, <2>3, <2>4
<1> HIDE DEF t
<1>6. SentSpan(page, pos, k) = t
  BY <1>3 DEF SentSpan, s, t
<1> QED
  BY <1>2, <1>5, <1>6

LEMMA LongerByOne ==
  ASSUME NEW S, NEW s \in Seq(S), NEW x \in S, NEW t \in Seq(S), Len(t) = Len(s) + 1,
         \A i \in 1..Len(s) : t[i] = s[i], t[Len(s) + 1] = x
  PROVE  t = s \o <<x>>
<1> DEFINE w == Append(s, x)
<1>1. w = s \o <<x>>
  BY AppendIsConcat
<1>2. /\ w \in Seq(S) /\ Len(w) = Len(s) + 1 /\ Len(s) \in Nat
      /\ (\A i \in 1..Len(s) : w[i] = s[i]) /\ w[Len(s) + 1] = x
  BY AppendProperties, LenProperties
<1> HIDE DEF w
<1>3. \A i \in 1..Len(t) : t[i] = w[i]
  <2> TAKE i \in 1..Len(t)
  <2>1. i \in 1..Len(s) \/ i = Len(s) + 1
    BY <1>2
  <2> QED
    BY <1>2, <2>1
<1>4. t = w
  BY <1>2, <1>3, SeqEqual
<1> QED
  BY <1>1, <1>4

LEMMA SpanGrows ==
  ASSUME NEW page \in Seq(Bytes), NEW pos \in Nat, NEW k \in Nat, pos + (k + 1) <= Len(page)
  PROVE  SentSpan(page, pos, k + 1) = SentSpan(page, pos, k) \o <<<<page[pos + (k + 1)]>>>>
<1> DEFINE s == SentSpan(page, pos, k)
           t == SentSpan(page, pos, k + 1)
           x == <<page[pos + (k + 1)]>>
<1>1. pos + k <= Len(page) /\ Len(page) \in Nat /\ k + 1 \in Nat /\ pos + (k + 1) \in 1..Len(page)
  BY LenProperties
<1>2. s \in Seq(Item) /\ Len(s) = k /\ \A i \in 1..k : s[i] = <<page[pos + i]>>
  BY <1>1, SpanIs
<1>3. t \in Seq(Item) /\ Len(t) = k + 1 /\ \A i \in 1..(k + 1) : t[i] = <<page[pos + i]>>
  BY <1>1, SpanIs
<1>4. x \in Item
  BY <1>1, ElementOfSeq, Items
<1>5. t[k + 1] = x
  <2>1. k + 1 \in 1..(k + 1)
    OBVIOUS
  <2> HIDE DEF t
  <2> QED
    BY <1>3, <2>1
<1>6. \A i \in 1..k : i \in 1..(k + 1)
  OBVIOUS
<1> HIDE DEF s, t, x
<1>7. Len(t) = Len(s) + 1 /\ (\A i \in 1..Len(s) : t[i] = s[i]) /\ t[Len(s) + 1] = x
  BY <1>2, <1>3, <1>5, <1>6
<1>8. \A S : s \in Seq(S) /\ x \in S /\ t \in Seq(S) => t = s \o <<x>>
  BY <1>7, LongerByOne
<1>9. t = s \o <<x>>
  BY <1>2, <1>3, <1>4, <1>8, Zenon
<1> QED
  BY <1>9 DEF s, t, x

\* Bytes that each mean themselves mean what is sent for them.
LEMMA SpanIsMeant ==
  ASSUME NEW page \in Seq(Bytes), NEW pos \in Nat, NEW n \in Nat, pos + n <= Len(page),
         \A i \in (pos + 1)..(pos + n) : Meant(page)[i] = <<<<page[i]>>>> \o Meant(page)[i + 1]
  PROVE  Meant(page)[pos + 1] = SentSpan(page, pos, n) \o Meant(page)[pos + n + 1]
<1> DEFINE M == Meant(page)
           span(k) == SentSpan(page, pos, k)
           S == {k \in 0..n : M[pos + 1] = span(k) \o M[pos + k + 1]}
<1>1. Len(page) \in Nat /\ \A i \in 1..(Len(page) + 1) : M[i] \in Seq(Piece)
  BY LenProperties, MeantIs
<1>2. 0 \in S
  <2>1. pos + 0 <= Len(page) /\ pos + 1 \in 1..(Len(page) + 1) /\ pos + 0 + 1 = pos + 1
    BY <1>1
  <2>2. span(0) \in Seq(Item) /\ Len(span(0)) = 0
    BY <2>1, SpanIs
  <2>3. span(0) = <<>>
    BY <2>2, EmptySeq
  <2>4. M[pos + 1] \in Seq(Piece)
    BY <1>1, <2>1
  <2>5. <<>> \o M[pos + 1] = M[pos + 1]
    BY <2>4, ConcatEmptySeq
  <2> HIDE DEF M, span
  <2>6. M[pos + 1] = span(0) \o M[pos + 0 + 1]
    BY <2>1, <2>3, <2>5
  <2> QED
    BY <2>6
<1>3. ASSUME NEW k \in 0..(n - 1), k \in S PROVE k + 1 \in S
  <2> DEFINE p == pos + (k + 1)
  <2>1. /\ k \in Nat /\ p \in (pos + 1)..(pos + n) /\ p \in 1..Len(page) /\ p + 1 \in 1..(Len(page) + 1)
        /\ pos + k + 1 = p /\ pos + (k + 1) + 1 = p + 1 /\ pos + (k + 1) <= Len(page) /\ k + 1 \in 0..n
        /\ pos + k <= Len(page)
    BY <1>1
  <2>2. M[pos + 1] = span(k) \o M[pos + k + 1]
    BY <1>3
  <2>3. M[p] = <<<<page[p]>>>> \o M[p + 1]
    BY <2>1
  <2>4. span(k + 1) = span(k) \o <<<<page[p]>>>>
    BY <2>1, SpanGrows
  <2>5. span(k) \in Seq(Piece)
    <3>1. span(k) \in Seq(Item)
      BY <2>1, SpanIs
    <3> QED
      BY <3>1, ItemsArePieces
  <2>6. <<page[p]>> \in Piece
    BY <2>1, ElementOfSeq, Items, ItemsArePieces
  <2>7. M[p + 1] \in Seq(Piece)
    BY <1>1, <2>1
  <2>8. M[pos + 1] = (span(k) \o <<<<page[p]>>>>) \o M[p + 1]
    <3> DEFINE all == M[pos + 1]
               y == M[p]
               x == M[p + 1]
               m == span(k)
               item == <<page[p]>>
    <3>1. all = m \o y
      BY <2>1, <2>2
    <3>2. y = <<item>> \o x /\ item \in Piece /\ x \in Seq(Piece) /\ m \in Seq(Piece)
      BY <2>3, <2>5, <2>6, <2>7
    <3> HIDE DEF all, y, x, m, item
    <3>3. m \o (<<item>> \o x) = (m \o <<item>>) \o x
      BY <3>2, PieceBehind
    <3>4. all = (m \o <<item>>) \o x
      BY <3>1, <3>2, <3>3, Zenon
    <3> QED
      BY <3>4 DEF all, x, m, item
  <2> HIDE DEF M, span
  <2>9. M[pos + 1] = span(k + 1) \o M[pos + (k + 1) + 1]
    BY <2>1, <2>4, <2>8
  <2> QED
    BY <2>1, <2>9
<1>4. n \in S
  <2> HIDE DEF S
  <2>1. 0..n \subseteq S
    BY <1>2, <1>3, InductionUpTo
  <2> QED
    BY <2>1
<1> QED
  BY <1>4

\* What is sent, with what is meant by the rest of the slice and the slices behind
\* it, is the page.
RestFrom(s, pos) == IF pos < s.start THEN s.start ELSE pos
Rendering(page, sl, k, pos, o) ==
  /\ Sliced(page, sl, Len(page))
  /\ pos \in 0..Len(page) /\ k \in 1..(Len(sl) + 1) /\ o \in Seq(Piece)
  /\ k <= Len(sl) => /\ pos <= sl[k].end /\ (sl[k].entry # Text => pos <= sl[k].start)
                     /\ Meant(page)[1] = o \o Meant(page)[RestFrom(sl[k], pos) + 1]
  /\ k > Len(sl) => Meant(page)[1] = o

LEMMA SlicedFacts ==
  ASSUME NEW page \in Seq(Bytes), NEW sl, Sliced(page, sl, Len(page))
  PROVE  /\ Len(sl) \in Nat \ {0} /\ Len(page) \in Nat
         /\ sl[1].start = 0 /\ sl[Len(sl)].end = Len(page) /\ sl[Len(sl)].entry = Text
         /\ \A k \in 1..Len(sl) : /\ sl[k].start \in Nat /\ sl[k].end \in Nat
                                  /\ sl[k].entry \in Entries \cup {Text} /\ sl[k].args \in Seq(Bytes)
                                  /\ sl[k].start <= sl[k].end /\ sl[k].end <= Len(page)
                                  /\ Says(page, sl[k])
         /\ \A k \in 1..Len(sl) : k < Len(sl) => sl[k + 1].start = sl[k].end
<1>1. sl \in Seq(SliceType) /\ Len(sl) >= 1
  BY DEF Sliced
<1>2. Len(sl) \in Nat /\ Len(page) \in Nat
  BY <1>1, LenProperties
<1>3. \A k \in 1..Len(sl) : sl[k] \in SliceType
  BY <1>1, ElementOfSeq
<1>4. \A k \in 1..Len(sl) : /\ sl[k].start \in Nat /\ sl[k].end \in Nat
                            /\ sl[k].entry \in Entries \cup {Text} /\ sl[k].args \in Seq(Bytes)
  BY <1>3 DEF SliceType
<1>5. \A k \in 1..Len(sl) : k < Len(sl) => k \in 1..(Len(sl) - 1)
  BY <1>2
<1>6. Len(sl) \in Nat \ {0}
  BY <1>1, <1>2
<1> QED
  BY <1>2, <1>4, <1>5, <1>6 DEF Sliced

LEMMA RenderingAtFirst ==
  ASSUME NEW page \in Seq(Bytes), NEW sl, Sliced(page, sl, Len(page))
  PROVE  Rendering(page, sl, 1, 0, <<>>)
<1>1. /\ Len(sl) \in Nat \ {0} /\ Len(page) \in Nat /\ sl[1].start = 0
      /\ 1 \in 1..Len(sl) /\ sl[1].end \in Nat
  BY SlicedFacts
<1>2. RestFrom(sl[1], 0) = 0
  BY <1>1 DEF RestFrom
<1>3. Meant(page)[1] \in Seq(Piece) /\ <<>> \in Seq(Piece)
  BY <1>1, MeantIs, EmptySeq
<1>4. Meant(page)[1] = <<>> \o Meant(page)[0 + 1]
  BY <1>3, ConcatEmptySeq
<1> QED
  BY <1>1, <1>2, <1>3, <1>4 DEF Rendering

\* Reading towards the start of a slice.
LEMMA RenderingSkips ==
  ASSUME NEW page \in Seq(Bytes), NEW sl, NEW k, NEW pos, NEW o, Rendering(page, sl, k, pos, o),
         k <= Len(sl), NEW n \in Nat, pos + n <= sl[k].start
  PROVE  Rendering(page, sl, k, pos + n, o)
<1>1. Sliced(page, sl, Len(page)) /\ pos \in 0..Len(page) /\ k \in 1..(Len(sl) + 1)
  BY DEF Rendering
<1>2. Len(sl) \in Nat /\ Len(page) \in Nat
  BY <1>1, SlicedFacts
<1>3. k \in 1..Len(sl) /\ ~(k > Len(sl))
  BY <1>1, <1>2
<1>4. sl[k].start \in Nat /\ sl[k].end \in Nat /\ sl[k].start <= sl[k].end /\ sl[k].end <= Len(page)
  BY <1>1, <1>3, SlicedFacts
<1>5. /\ RestFrom(sl[k], pos) = RestFrom(sl[k], pos + n)
      /\ pos + n \in 0..Len(page) /\ pos + n <= sl[k].end
  BY <1>1, <1>2, <1>4 DEF RestFrom
<1> QED
  BY <1>1, <1>3, <1>5 DEF Rendering

\* Sending bytes of a slice of text.
LEMMA RenderingSends ==
  ASSUME NEW page \in Seq(Bytes), NEW sl, NEW k, NEW pos, NEW o, Rendering(page, sl, k, pos, o),
         k <= Len(sl), sl[k].start <= pos, sl[k].entry = Text, NEW n \in Nat, pos + n <= sl[k].end
  PROVE  Rendering(page, sl, k, pos + n, o \o SentSpan(page, pos, n))
<1>1. Sliced(page, sl, Len(page)) /\ pos \in 0..Len(page) /\ k \in 1..(Len(sl) + 1) /\ o \in Seq(Piece)
  BY DEF Rendering
<1>2. Len(sl) \in Nat /\ Len(page) \in Nat
  BY <1>1, SlicedFacts
<1>3. k \in 1..Len(sl) /\ ~(k > Len(sl))
  BY <1>1, <1>2
<1>4. /\ sl[k].start \in Nat /\ sl[k].end \in Nat /\ sl[k].start <= sl[k].end /\ sl[k].end <= Len(page)
      /\ Says(page, sl[k])
  BY <1>1, <1>3, SlicedFacts
<1>5. /\ RestFrom(sl[k], pos) = pos /\ RestFrom(sl[k], pos + n) = pos + n
      /\ pos + n \in 0..Len(page) /\ pos + n + 1 \in 1..(Len(page) + 1) /\ pos + n <= Len(page) /\ pos \in Nat
  <2> DEFINE l == sl[k].start
             h == sl[k].end
             len == Len(page)
  <2>1. l \in Nat /\ h \in Nat /\ len \in Nat /\ pos \in Nat /\ l <= pos /\ pos + n <= h /\ h <= len
    BY <1>1, <1>2, <1>4
  <2>2. RestFrom(sl[k], pos) = (IF pos < l THEN l ELSE pos)
        /\ RestFrom(sl[k], pos + n) = (IF pos + n < l THEN l ELSE pos + n)
    BY DEF RestFrom
  <2> HIDE DEF l, h, len
  <2>3. ~(pos < l) /\ ~(pos + n < l) /\ pos + n \in 0..len /\ pos + n + 1 \in 1..(len + 1) /\ pos + n <= len
    BY <2>1
  <2> QED
    BY <2>1, <2>2, <2>3 DEF len
<1>6. Meant(page)[pos + 1] = SentSpan(page, pos, n) \o Meant(page)[pos + n + 1]
  <2>1. \A i \in (pos + 1)..(pos + n) : i \in (sl[k].start + 1)..sl[k].end
    <3> DEFINE l == sl[k].start
               h == sl[k].end
    <3>1. l \in Nat /\ h \in Nat /\ pos \in Nat /\ l <= pos /\ pos + n <= h
      BY <1>4, <1>5
    <3> HIDE DEF l, h
    <3>2. \A i \in (pos + 1)..(pos + n) : i \in (l + 1)..h
      BY <3>1
    <3> QED
      BY <3>2 DEF l, h
  <2>2. \A i \in (pos + 1)..(pos + n) : Meant(page)[i] = <<<<page[i]>>>> \o Meant(page)[i + 1]
    BY <1>4, <2>1 DEF Says
  <2> QED
    BY <1>5, <2>2, SpanIsMeant
<1>7. Meant(page)[1] = o \o Meant(page)[pos + 1]
  BY <1>3, <1>5 DEF Rendering
<1> DEFINE s == SentSpan(page, pos, n)
           x == Meant(page)[pos + n + 1]
           y == Meant(page)[pos + 1]
<1>8. s \in Seq(Piece) /\ x \in Seq(Piece)
  <2>1. s \in Seq(Item)
    BY <1>5, SpanIs
  <2> QED
    BY <1>5, <2>1, MeantIs, ItemsArePieces
<1>9. y = s \o x
  BY <1>6
<1>14. Meant(page)[1] = o \o y
  BY <1>7
<1> HIDE DEF s, x, y
<1>10. o \o s \in Seq(Piece) /\ o \o (s \o x) = (o \o s) \o x
  BY <1>1, <1>8, PiecesBehind, Zenon
<1>11. o \o s \in Seq(Piece) /\ Meant(page)[1] = (o \o s) \o x
  BY <1>9, <1>14, <1>10, Zenon
<1>12. Meant(page)[1] = (o \o s) \o Meant(page)[RestFrom(sl[k], pos + n) + 1]
  BY <1>5, <1>11 DEF x
<1>13. Rendering(page, sl, k, pos + n, o \o s)
  BY <1>1, <1>3, <1>5, <1>11, <1>12 DEF Rendering
<1> QED
  BY <1>13 DEF s

\* Behind a slice of text.
LEMMA RenderingNext ==
  ASSUME NEW page \in Seq(Bytes), NEW sl, NEW k, NEW pos, NEW o, Rendering(page, sl, k, pos, o),
         k <= Len(sl), sl[k].start <= pos, sl[k].entry = Text, sl[k].end <= pos
  PROVE  Rendering(page, sl, k + 1, pos, o)
<1>1. Sliced(page, sl, Len(page)) /\ pos \in 0..Len(page) /\ k \in 1..(Len(sl) + 1) /\ o \in Seq(Piece)
  BY DEF Rendering
<1>2. Len(sl) \in Nat /\ Len(page) \in Nat
  BY <1>1, SlicedFacts
<1>3. k \in 1..Len(sl) /\ ~(k > Len(sl)) /\ k + 1 \in 1..(Len(sl) + 1)
  BY <1>1, <1>2
<1>4. sl[k].start \in Nat /\ sl[k].end \in Nat /\ pos \in Nat
  BY <1>1, <1>2, <1>3, SlicedFacts
<1>5. pos = sl[k].end
  <2>1. pos <= sl[k].end
    BY <1>3 DEF Rendering
  <2> QED
    BY <1>4, <2>1
<1>6. Meant(page)[1] = o \o Meant(page)[pos + 1]
  <2>1. RestFrom(sl[k], pos) = pos
    BY <1>4 DEF RestFrom
  <2> QED
    BY <1>3, <2>1 DEF Rendering
<1>7. CASE k < Len(sl)
  <2>1. k + 1 \in 1..Len(sl) /\ ~(k + 1 > Len(sl)) /\ k + 1 <= Len(sl)
    BY <1>2, <1>3, <1>7
  <2>2. sl[k + 1].start = pos /\ pos <= sl[k + 1].end
    BY <1>1, <1>3, <1>5, <1>7, <2>1, SlicedFacts
  <2>3. RestFrom(sl[k + 1], pos) = pos /\ pos <= sl[k + 1].start
    BY <1>4, <2>2 DEF RestFrom
  <2> QED
    BY <1>1, <1>3, <1>6, <2>1, <2>2, <2>3 DEF Rendering
<1>8. CASE k = Len(sl)
  <2>1. pos = Len(page)
    BY <1>1, <1>5, <1>8, SlicedFacts
  <2>2. Meant(page)[1] = o \o <<>>
    BY <1>6, <2>1, MeantEnd
  <2>3. o \o <<>> = o
    BY <1>1, ConcatEmptySeq
  <2>4. ~(k + 1 <= Len(sl))
    BY <1>2, <1>8
  <2> QED
    BY <1>1, <1>3, <2>2, <2>3, <2>4 DEF Rendering
<1> QED
  BY <1>2, <1>3, <1>7, <1>8

\* A template.
LEMMA RenderingApplies ==
  ASSUME NEW page \in Seq(Bytes), NEW sl, NEW k, NEW pos, NEW o, Rendering(page, sl, k, pos, o),
         k <= Len(sl), sl[k].start <= pos, sl[k].entry # Text
  PROVE  Rendering(page, sl, k + 1, pos, Append(o, <<sl[k].entry, sl[k].args>>))
<1>1. Sliced(page, sl, Len(page)) /\ pos \in 0..Len(page) /\ k \in 1..(Len(sl) + 1) /\ o \in Seq(Piece)
  BY DEF Rendering
<1>2. Len(sl) \in Nat /\ Len(page) \in Nat
  BY <1>1, SlicedFacts
<1>3. k \in 1..Len(sl) /\ ~(k > Len(sl)) /\ k + 1 \in 1..(Len(sl) + 1)
  BY <1>1, <1>2
<1>4. /\ sl[k].start \in Nat /\ sl[k].end \in Nat /\ pos \in Nat /\ sl[k].start <= sl[k].end
      /\ sl[k].entry \in Entries /\ sl[k].args \in Seq(Bytes) /\ Says(page, sl[k]) /\ sl[k].end <= Len(page)
  BY <1>1, <1>2, <1>3, SlicedFacts
<1>5. pos = sl[k].start
  <2>1. pos <= sl[k].start
    BY <1>3 DEF Rendering
  <2> QED
    BY <1>4, <2>1
<1> DEFINE item == <<sl[k].entry, sl[k].args>>
           y == Meant(page)[pos + 1]
           x == Meant(page)[sl[k].end + 1]
<1>6. Meant(page)[1] = o \o y
  <2>1. RestFrom(sl[k], pos) = pos
    BY <1>4, <1>5 DEF RestFrom
  <2> QED
    BY <1>3, <2>1 DEF Rendering
<1>7. y = <<item>> \o x
  BY <1>5, <1>4 DEF Says
<1>8. item \in Piece /\ x \in Seq(Piece)
  <2>1. sl[k].end + 1 \in 1..(Len(page) + 1)
    BY <1>2, <1>4
  <2> QED
    BY <1>4, <2>1, Items, ItemsArePieces, MeantIs
<1> HIDE DEF item, x, y
<1>9. /\ Append(o, item) \in Seq(Piece)
      /\ Meant(page)[1] = Append(o, item) \o x
  <2>1. /\ o \o (<<item>> \o x) = (o \o <<item>>) \o x
        /\ Append(o, item) = o \o <<item>> /\ Append(o, item) \in Seq(Piece)
    BY <1>1, <1>8, PieceBehind, Zenon
  <2> QED
    BY <1>6, <1>7, <2>1, Zenon
<1>10. k < Len(sl)
  <2>1. k # Len(sl)
    BY <1>1, SlicedFacts
  <2> QED
    BY <1>2, <1>3, <2>1
<1>11. k + 1 \in 1..Len(sl) /\ ~(k + 1 > Len(sl)) /\ k + 1 <= Len(sl)
  BY <1>2, <1>3, <1>10
<1>12. sl[k + 1].start = sl[k].end /\ sl[k + 1].start <= sl[k + 1].end /\ sl[k + 1].end \in Nat
  BY <1>1, <1>3, <1>10, <1>11, SlicedFacts
<1>13. /\ RestFrom(sl[k + 1], pos) = sl[k].end /\ pos <= sl[k + 1].start /\ pos <= sl[k + 1].end
  BY <1>4, <1>5, <1>12 DEF RestFrom
<1>14. Meant(page)[1] = Append(o, item) \o Meant(page)[RestFrom(sl[k + 1], pos) + 1]
  BY <1>9, <1>13 DEF x
<1>15. Rendering(page, sl, k + 1, pos, Append(o, item))
  BY <1>1, <1>3, <1>9, <1>11, <1>13, <1>14 DEF Rendering
<1> QED
  BY <1>15 DEF item

--------------------------------------------------------------------------------
(* The page and the ring, while the page is parsed.                              *)

Cell == Bytes \cup {Text}

\* The ring has the bytes of f from position pos on, as far as f was read.
Rest(f, g, pos, r) ==
  /\ g \in Nat /\ pos \in Nat /\ g <= Len(f)
  /\ g = pos + ring_available(r)
  /\ \A k \in Nat : k < ring_available(r) => Peeked(r, k) = f[pos + k + 1]

LEMMA RestReadOn ==
  ASSUME NEW f \in Seq(Bytes), NEW g, NEW pos, NEW r, NEW q, NEW o \in Nat,
         IsRing(r, Cell), Rest(f, g, pos, r), o <= ring_available(r), ReadOn(r, q, o, Cell)
  PROVE  Rest(f, g, pos + o, q)
<1>1. ring_available(r) \in Nat /\ ring_available(q) = ring_available(r) - o
  BY AvailableRange DEF ReadOn
<1>2. g \in Nat /\ pos \in Nat /\ g <= Len(f) /\ g = pos + ring_available(r)
  BY DEF Rest
<1>3. g = (pos + o) + ring_available(q)
  BY <1>1, <1>2
<1>4. ASSUME NEW k \in Nat, k < ring_available(q) PROVE Peeked(q, k) = f[(pos + o) + k + 1]
  <2>1. Peeked(q, k) = Peeked(r, k + o)
    BY <1>4 DEF ReadOn
  <2>2. k + o \in Nat /\ k + o < ring_available(r) /\ pos + (k + o) + 1 = (pos + o) + k + 1
    BY <1>1, <1>2, <1>4
  <2>3. Peeked(r, k + o) = f[pos + (k + o) + 1]
    BY <2>2 DEF Rest
  <2> QED
    BY <2>1, <2>2, <2>3
<1> QED
  BY <1>2, <1>3, <1>4 DEF Rest

LEMMA RestAppended ==
  ASSUME NEW f \in Seq(Bytes), NEW g, NEW pos, NEW r, NEW q, NEW n \in Nat,
         IsRing(r, Cell), Rest(f, g, pos, r), g + n <= Len(f),
         Appended(r, q, SubSeq(f, g + 1, g + n), Cell)
  PROVE  Rest(f, g + n, pos, q)
<1> DEFINE bytes == SubSeq(f, g + 1, g + n)
<1>1. g \in Nat /\ pos \in Nat /\ g <= Len(f) /\ g = pos + ring_available(r)
  BY DEF Rest
<1>2. Len(f) \in Nat /\ ring_available(r) \in Nat
  BY AvailableRange, LenProperties
<1>3. Len(bytes) = n /\ \A k \in 1..n : bytes[k] = f[g + k]
  <2>1. g + 1 \in Int /\ g + n \in Int /\ \A i \in (g + 1)..(g + n) : i \in 1..Len(f)
    BY <1>1, <1>2
  <2>2. \A i \in (g + 1)..(g + n) : f[i] \in Bytes
    BY <2>1, ElementOfSeq
  <2>3. /\ Len(bytes) = IF g + 1 <= g + n THEN (g + n) - (g + 1) + 1 ELSE 0
        /\ \A k \in 1..((g + n) - (g + 1) + 1) : bytes[k] = f[g + 1 + k - 1]
    BY <2>1, <2>2, SubSeqProperties
  <2>6. g \in Nat
    BY <1>1
  <2>4. (g + n) - (g + 1) + 1 = n /\ \A k \in 1..n : g + 1 + k - 1 = g + k
    BY <2>6
  <2>7. ~(g + 1 <= g + n) => n = 0
    BY <2>6
  <2>5. Len(bytes) = n
    BY <2>3, <2>4, <2>7
  <2> QED
    BY <2>3, <2>4, <2>5
<1> HIDE DEF bytes
<1>4. ring_available(q) = ring_available(r) + n
  BY <1>3 DEF Appended, bytes
<1>5. ASSUME NEW k \in Nat, k < ring_available(q) PROVE Peeked(q, k) = f[pos + k + 1]
  <2>1. CASE k < ring_available(r)
    BY <2>1 DEF Appended, Rest
  <2>2. CASE ~(k < ring_available(r))
    <3> DEFINE j == k - ring_available(r)
    <3>1. j \in Nat /\ j < n /\ ring_available(r) + j = k /\ j + 1 \in 1..n /\ g + (j + 1) = pos + k + 1
      <4>1. j \in Nat
        BY <1>2, <2>2
      <4>2. k < ring_available(r) + n
        BY <1>4, <1>5
      <4>3. j < n /\ ring_available(r) + j = k
        BY <1>2, <4>2
      <4> HIDE DEF j
      <4>4. j + 1 \in 1..n
        BY <4>1, <4>3
      <4>5. g + (j + 1) = pos + k + 1
        <5>1. g + (j + 1) = (pos + ring_available(r)) + (j + 1)
          BY <1>1
        <5>2. (pos + ring_available(r)) + (j + 1) = pos + (ring_available(r) + j) + 1
          <6>1. pos \in Nat /\ ring_available(r) \in Nat /\ j \in Nat
            BY <1>1, <1>2, <4>1
          <6> QED BY <6>1
        <5> QED
          BY <5>1, <5>2, <4>3
      <4> QED
        BY <4>1, <4>3, <4>4, <4>5
    <3> HIDE DEF j
    <3>2. Peeked(q, ring_available(r) + j) = bytes[j + 1]
      <4>1. \A i \in Nat : i < Len(bytes) => Peeked(q, ring_available(r) + i) = bytes[i + 1]
        BY DEF Appended, bytes
      <4> QED
        BY <4>1, <3>1, <1>3
    <3>3. bytes[j + 1] = f[g + (j + 1)]
      BY <3>1, <1>3
    <3> QED
      BY <3>1, <3>2, <3>3
  <2> QED
    BY <2>1, <2>2
<1> QED
  BY <1>1, <1>2, <1>4, <1>5 DEF Rest

LEMMA RestUnread ==
  ASSUME NEW f \in Seq(Bytes), NEW g, NEW pos, NEW r, IsRing(r, Cell), Rest(f, g, pos, r)
  PROVE  Unread(r) = SubSeq(f, pos + 1, g)
<1> DEFINE a == ring_available(r)
           s == SubSeq(f, pos + 1, g)
<1>1. a \in Nat /\ g \in Nat /\ pos \in Nat /\ g <= Len(f) /\ g = pos + a
  BY AvailableRange DEF Rest
<1>2. \A k \in Nat : k < a => Peeked(r, k) = f[pos + k + 1]
  BY DEF Rest
<1>3. Unread(r) = [k \in 1..a |-> Peeked(r, k - 1)]
  BY DEF Unread, ring_read
<1>4. Len(f) \in Nat
  BY LenProperties
<1> HIDE DEF a
<1>5. s \in Seq(Bytes) /\ Len(s) = a /\ \A k \in 1..a : s[k] = f[pos + k]
  <2>1. pos + 1 \in Int /\ g \in Int /\ \A i \in (pos + 1)..g : i \in 1..Len(f)
    BY <1>1, <1>4
  <2>2. \A i \in (pos + 1)..g : f[i] \in Bytes
    BY <2>1, ElementOfSeq
  <2>3. /\ s \in Seq(Bytes)
        /\ Len(s) = IF pos + 1 <= g THEN g - (pos + 1) + 1 ELSE 0
        /\ \A k \in 1..(g - (pos + 1) + 1) : s[k] = f[pos + 1 + k - 1]
    BY <2>1, <2>2, SubSeqProperties
  <2>4. g - (pos + 1) + 1 = a /\ \A k \in 1..a : pos + 1 + k - 1 = pos + k
    BY <1>1
  <2>5. Len(s) = a
    BY <2>3, <2>4, <1>1
  <2> QED
    BY <2>3, <2>4, <2>5
<1> HIDE DEF s
<1>6. s = [k \in 1..a |-> s[k]]
  BY <1>5, LenProperties
<1>7. \A k \in 1..a : Peeked(r, k - 1) = f[pos + k]
  <2> TAKE k \in 1..a
  <2>1. k - 1 \in Nat /\ k - 1 < a /\ pos + (k - 1) + 1 = pos + k
    BY <1>1
  <2> QED
    BY <2>1, <1>2
<1>8. Unread(r) = s
  BY <1>3, <1>5, <1>6, <1>7
<1> QED
  BY <1>8 DEF s

\* What the ring begins with is what the page has there, if it was read.
LEMMA MemcmpOccurs ==
  ASSUME NEW f \in Seq(Bytes), NEW g, NEW pos, NEW r, IsRing(r, Cell), Rest(f, g, pos, r),
         NEW w \in Seq(Bytes)
  PROVE  ring_memcmp(r, w) <=> pos + Len(w) <= g /\ OccursAt(f, w, pos + 1)
<1> DEFINE n == Len(w)
<1>1. /\ g \in Nat /\ pos \in Nat /\ g <= Len(f) /\ g = pos + ring_available(r) /\ n \in Nat
      /\ ring_available(r) \in Nat /\ Len(f) \in Nat
      /\ \A k \in Nat : k < ring_available(r) => Peeked(r, k) = f[pos + k + 1]
  BY AvailableRange, LenProperties DEF Rest
<1>2. OccursAt(f, w, pos + 1) <=> (pos + 1) + n - 1 <= Len(f) /\ \A k \in 1..n : f[(pos + 1) + k - 1] = w[k]
  <2>1. pos + 1 \in Nat \ {0}
    BY <1>1
  <2> QED
    BY <2>1, Occurs
<1>3. ring_memcmp(r, w) <=> ring_available(r) >= n /\ \A k \in 1..n : Peeked(r, k - 1) = w[k]
  BY DEF ring_memcmp
<1> HIDE DEF n
<1>4. ring_available(r) >= n <=> pos + n <= g
  BY <1>1
<1>5. ASSUME ring_available(r) >= n, NEW k \in 1..n PROVE Peeked(r, k - 1) = f[(pos + 1) + k - 1]
  <2>1. k - 1 \in Nat /\ k - 1 < ring_available(r) /\ pos + (k - 1) + 1 = (pos + 1) + k - 1
    BY <1>1, <1>5
  <2> QED
    BY <1>1, <2>1
<1>6. pos + n <= g => (pos + 1) + n - 1 <= Len(f)
  BY <1>1
<1> QED
  BY <1>2, <1>3, <1>4, <1>5, <1>6 DEF n

\* What is read from the ring is what the page has there.
LEMMA ReadIs ==
  ASSUME NEW f \in Seq(Bytes), NEW g, NEW pos, NEW r, IsRing(r, Cell), Rest(f, g, pos, r),
         NEW n \in Nat, n <= ring_available(r)
  PROVE  ring_read(r, n) = SubSeq(f, pos + 1, pos + n)
<1> DEFINE s == SubSeq(f, pos + 1, pos + n)
<1>1. /\ g \in Nat /\ pos \in Nat /\ g <= Len(f) /\ g = pos + ring_available(r)
      /\ ring_available(r) \in Nat /\ Len(f) \in Nat
      /\ \A k \in Nat : k < ring_available(r) => Peeked(r, k) = f[pos + k + 1]
  BY AvailableRange, LenProperties DEF Rest
<1>2. s \in Seq(Bytes) /\ Len(s) = n /\ \A k \in 1..n : s[k] = f[pos + k]
  <2>1. pos + 1 \in Int /\ pos + n \in Int /\ \A i \in (pos + 1)..(pos + n) : i \in 1..Len(f)
    BY <1>1
  <2>2. \A i \in (pos + 1)..(pos + n) : f[i] \in Bytes
    BY <2>1, ElementOfSeq
  <2>3. /\ s \in Seq(Bytes)
        /\ Len(s) = IF pos + 1 <= pos + n THEN (pos + n) - (pos + 1) + 1 ELSE 0
        /\ \A k \in 1..((pos + n) - (pos + 1) + 1) : s[k] = f[pos + 1 + k - 1]
    BY <2>1, <2>2, SubSeqProperties
  <2>4. /\ (pos + n) - (pos + 1) + 1 = n /\ (~(pos + 1 <= pos + n) => n = 0)
        /\ \A k \in 1..n : pos + 1 + k - 1 = pos + k
    BY <1>1
  <2> QED
    BY <2>3, <2>4
<1> HIDE DEF s
<1>3. \A k \in 1..n : Peeked(r, k - 1) = s[k]
  <2> TAKE k \in 1..n
  <2>1. k - 1 \in Nat /\ k - 1 < ring_available(r) /\ pos + (k - 1) + 1 = pos + k
    BY <1>1
  <2> QED
    BY <1>1, <1>2, <2>1
<1>4. s = [k \in 1..n |-> s[k]]
  BY <1>2, LenProperties
<1>5. ring_read(r, n) = [k \in 1..n |-> s[k]]
  BY <1>3 DEF ring_read
<1> QED
  BY <1>4, <1>5 DEF s

--------------------------------------------------------------------------------
(* The program.                                                                  *)

BeingParsed == templ \in {"read", "scan"}

HInv ==
  /\ file \in Seq(Bytes)
  /\ IsRing(ring, Cell)
  /\ BeingParsed => Rest(file, given, filepos, ring)

\* A new ring is empty.
LEMMA NewRing ==
  ASSUME NEW n \in Nat \ {0}, NEW f \in Seq(Bytes)
  PROVE  IsRing(ring_alloc(n, Text), Cell) /\ Rest(f, 0, 0, ring_alloc(n, Text))
<1> DEFINE r == ring_alloc(n, Text)
<1>1. r = [size |-> n, data |-> r.data, read |-> 0, write |-> 0] /\ r.data = [p \in 0..(n - 1) |-> Text]
  BY DEF ring_alloc
<1> HIDE DEF r
<1>2. IsRing(r, Cell)
  BY <1>1 DEF IsRing, Cell
<1>3. ring_available(r) = 0
  BY <1>1 DEF ring_available
<1> QED
  BY <1>2, <1>3, LenProperties DEF Rest, r

LEMMA InitHInv ==
  Init => HInv
<1> SUFFICES ASSUME Init PROVE HInv
  OBVIOUS
<1>1. file \in Seq(Bytes) /\ given = 0 /\ filepos = 0
      /\ ring = ring_alloc(MaxArgLen + 2 * max_id_len, Text)
  <2>1. CASE TemplInit(Pages)
    BY <2>1, PagesAssumption DEF TemplInit
  <2>2. CASE TemplInit({<<>>})
    BY <2>2, EmptySeq DEF TemplInit
  <2> QED
    BY <2>1, <2>2 DEF Init
<1>2. MaxArgLen + 2 * max_id_len \in Nat \ {0}
  BY TemplatesAssumption, MaxIdLen
<1> QED
  BY <1>1, <1>2, NewRing DEF HInv

LEMMA ReadMoreHInv ==
  HInv /\ ReadMore => HInv'
<1> SUFFICES ASSUME HInv, ReadMore PROVE HInv'
  OBVIOUS
<1> DEFINE n == ReadLen(ring_free_space_contig(ring))
           bytes == SubSeq(file, given + 1, given + n)
<1>1. /\ file \in Seq(Bytes) /\ IsRing(ring, Cell) /\ Rest(file, given, filepos, ring)
      /\ Len(file) \in Nat
  BY LenProperties DEF HInv, ReadMore, BeingParsed
<1>2. given \in Nat /\ given <= Len(file) /\ Len(file) - given \in Nat
  BY <1>1 DEF Rest
<1>3. ring_free_space_contig(ring) \in Nat
  <2>1. ring.size \in Nat
    BY <1>1 DEF IsRing
  <2> QED
    BY <1>1, <2>1, FreeSpaceRange
<1>4. n \in Nat /\ n <= ring_free_space_contig(ring) /\ given + n <= Len(file)
  BY <1>2, <1>3, MinPair DEF ReadLen
<1>5. /\ file' = file /\ filepos' = filepos /\ given' = given + n
      /\ ring' = ring_advance_write(Stored(ring, bytes), n)
  BY DEF ReadMore, ReadBytes
<1> HIDE DEF n
<1>6. bytes \in Seq(Cell) /\ Len(bytes) = n
  <2>1. given + 1 \in Int /\ given + n \in Int /\ \A i \in (given + 1)..(given + n) : i \in 1..Len(file)
    BY <1>1, <1>2, <1>4
  <2>2. \A i \in (given + 1)..(given + n) : file[i] \in Cell
    BY <2>1, <1>1, ElementOfSeq DEF Cell
  <2>3. bytes \in Seq(Cell) /\ Len(bytes) = IF given + 1 <= given + n THEN (given + n) - (given + 1) + 1 ELSE 0
    BY <2>1, <2>2, SubSeqProperties
  <2> QED
    BY <2>3, <1>2, <1>4
<1> HIDE DEF bytes
<1>7. Appended(ring, ring', bytes, Cell)
  BY <1>1, <1>4, <1>5, <1>6, StoringAppends
<1>8. IsRing(ring', Cell)
  BY <1>7 DEF Appended
<1>9. Rest(file, given + n, filepos, ring')
  BY <1>1, <1>4, <1>7, RestAppended DEF bytes
<1> QED
  BY <1>1, <1>5, <1>8, <1>9 DEF HInv

\* Reading on in the ring and in the page by as much.
LEMMA ReadOnHInv ==
  ASSUME HInv, BeingParsed, NEW o \in Nat, o <= ring_available(ring), ReadOn(ring, ring', o, Cell),
         filepos' = filepos + o, file' = file, given' = given
  PROVE  HInv'
<1>1. IsRing(ring', Cell)
  BY DEF ReadOn
<1>2. Rest(file, given, filepos + o, ring')
  BY RestReadOn DEF HInv
<1> QED
  BY <1>1, <1>2 DEF HInv

LEMMA SkipByteHInv ==
  HInv /\ SkipByte => HInv'
<1> SUFFICES ASSUME HInv, SkipByte PROVE HInv'
  OBVIOUS
<1>1. /\ IsRing(ring, Cell) /\ BeingParsed
      /\ filepos' = filepos + 1 /\ file' = file /\ given' = given /\ ring' = ring_inc_read(ring)
  BY DEF HInv, SkipByte, BeingParsed
<1>2. 1 <= ring_available(ring)
  BY <1>1, AvailableRange, MaxIdLen DEF SkipByte, EnoughToScan
<1>3. ReadOn(ring, ring', 1, Cell)
  BY <1>1, <1>2, IncReadReadsOn
<1> QED
  BY <1>1, <1>2, <1>3, ReadOnHInv

\* Two readings are one of both lengths.
LEMMA ReadOnTwice ==
  ASSUME NEW r, NEW q, NEW s, NEW a \in Nat, NEW b \in Nat,
         IsRing(r, Cell), IsRing(q, Cell), ReadOn(r, q, a, Cell), ReadOn(q, s, b, Cell)
  PROVE  ReadOn(r, s, a + b, Cell)
<1>1. /\ ring_available(r) \in Nat /\ ring_available(q) = ring_available(r) - a
      /\ ring_available(s) = ring_available(q) - b
  BY AvailableRange DEF ReadOn
<1>2. ring_available(s) = ring_available(r) - (a + b)
  BY <1>1
<1>3. ASSUME NEW k \in Nat, k < ring_available(s) PROVE Peeked(s, k) = Peeked(r, k + (a + b))
  <2>1. Peeked(s, k) = Peeked(q, k + b)
    BY <1>3 DEF ReadOn
  <2>2. k + b \in Nat /\ k + b < ring_available(q) /\ (k + b) + a = k + (a + b)
    BY <1>1, <1>3
  <2>3. Peeked(q, k + b) = Peeked(r, (k + b) + a)
    BY <2>2 DEF ReadOn
  <2> QED
    BY <2>1, <2>2, <2>3
<1> QED
  BY <1>2, <1>3 DEF ReadOn

LEMMA TakeTemplateHInv ==
  ASSUME HInv, NEW e \in Entries, TakeTemplate(e)
  PROVE  HInv'
<1> DEFINE args == ring_advance_read(ring, id_len(e))
<1>1. IsRing(ring, Cell) /\ BeingParsed /\ file' = file /\ given' = given
  BY DEF HInv, TakeTemplate, BeingParsed
<1>2. id_len(e) \in Nat /\ suffix_len \in Nat
  BY TemplatesAssumption, LenProperties DEF id_len, suffix_len
<1>3. id_len(e) <= ring_available(ring)
  BY <1>1, <1>2, AvailableRange DEF TakeTemplate, Matches, ring_memcmp, id_len
<1>4. ReadOn(ring, args, id_len(e), Cell)
  BY <1>1, <1>2, <1>3, AdvanceReadReadsOn
<1>5. IsRing(args, Cell)
  BY <1>4 DEF ReadOn
<1>6. PICK arg_len \in ArgLens(e) :
        IF arg_len > MaxArgLen
        THEN templ' = "failed" /\ UNCHANGED <<ring, filepos, slices>>
        ELSE /\ ring' = ring_advance_read(ring_advance_read(args, arg_len), suffix_len)
             /\ filepos' = filepos + id_len(e) + arg_len + suffix_len
  BY DEF TakeTemplate
<1> DEFINE term == ring_advance_read(args, arg_len)
<1>7. arg_len \in 0..ring_available(args) /\ ring_memcmp(term, Suffix)
  BY <1>6 DEF ArgLens
<1> HIDE DEF args
<1>8. arg_len \in Nat /\ arg_len <= ring_available(args)
  BY <1>5, <1>7, AvailableRange
<1>9. ReadOn(args, term, arg_len, Cell)
  BY <1>5, <1>8, AdvanceReadReadsOn
<1>10. IsRing(term, Cell)
  BY <1>9 DEF ReadOn
<1>11. suffix_len <= ring_available(term)
  BY <1>2, <1>7, <1>10, AvailableRange DEF ring_memcmp, suffix_len
<1> HIDE DEF term
<1>12. CASE arg_len > MaxArgLen
  BY <1>1, <1>6, <1>12 DEF HInv, BeingParsed
<1>13. CASE ~(arg_len > MaxArgLen)
  <2> DEFINE o == id_len(e) + arg_len + suffix_len
  <2>1. ring' = ring_advance_read(term, suffix_len) /\ filepos' = filepos + id_len(e) + arg_len + suffix_len
    BY <1>6, <1>13 DEF term
  <2>2. ReadOn(term, ring', suffix_len, Cell)
    BY <2>1, <1>2, <1>10, <1>11, AdvanceReadReadsOn
  <2>3. ReadOn(ring, term, id_len(e) + arg_len, Cell)
    BY <1>1, <1>2, <1>4, <1>5, <1>8, <1>9, ReadOnTwice
  <2>4. ReadOn(ring, ring', o, Cell)
    BY <1>1, <1>2, <1>8, <1>10, <2>2, <2>3, ReadOnTwice
  <2>5. o \in Nat /\ filepos \in Nat
    BY <1>1, <1>2, <1>8 DEF HInv, Rest
  <2>6. filepos' = filepos + o
    BY <2>1, <2>5, <1>2, <1>8
  <2>7. o <= ring_available(ring)
    <3>1. IsRing(ring', Cell) /\ ring_available(ring') = ring_available(ring) - o
      BY <2>4 DEF ReadOn
    <3>2. ring_available(ring') \in Nat /\ ring_available(ring) \in Nat
      BY <1>1, <3>1, AvailableRange
    <3> QED
      BY <2>5, <3>1, <3>2
  <2> HIDE DEF o
  <2> QED
    BY <1>1, <2>4, <2>5, <2>6, <2>7, ReadOnHInv
<1> QED
  BY <1>12, <1>13

LEMMA NextHInv ==
  HInv /\ [Next]_vars => HInv'
<1> SUFFICES ASSUME HInv, [Next]_vars PROVE HInv'
  OBVIOUS
<1> USE DEF BeingParsed
<1>1. CASE ReadMore
  BY <1>1, ReadMoreHInv
<1>2. CASE SkipByte
  BY <1>2, SkipByteHInv
<1>3. ASSUME NEW e \in Entries, TakeTemplate(e) PROVE HInv'
  BY <1>3, TakeTemplateHInv
<1>4. ASSUME NEW e \in Entries, SeekTerminator(e) PROVE HInv'
  BY <1>4 DEF HInv, SeekTerminator
<1>5. CASE EndOfRing
  BY <1>5 DEF HInv, EndOfRing
<1>6. CASE Registered
  BY <1>6 DEF HInv, Registered, templVars
<1>7. CASE Restart
  <2>1. ring.size \in Nat \ {0} /\ file \in Seq(Bytes)
    BY DEF HInv, IsRing
  <2>2. /\ file' = file /\ given' = 0 /\ filepos' = 0
        /\ ring' = ring_alloc(ring.size, Text)
    BY <1>7 DEF Restart
  <2>3. IsRing(ring', Cell) /\ Rest(file, 0, 0, ring')
    BY <2>1, <2>2, NewRing
  <2> QED
    BY <2>1, <2>2, <2>3 DEF HInv
<1>8. CASE httpd_embedded_template_file_request_handler
  BY <1>8 DEF HInv, httpd_embedded_template_file_request_handler
<1>9. CASE Render
  <2>1. /\ file' = file /\ ring' = ring /\ templ = "render"
        /\ templ' \in {"render", "cut short", "rendered"}
    <3>1. CASE SkipToSlice
      BY <3>1 DEF SkipToSlice, ReadSlice
    <3>2. CASE WriteSlice
      BY <3>2 DEF WriteSlice, ReadSlice
    <3>3. CASE ApplyTemplate
      BY <3>3 DEF ApplyTemplate
    <3>4. CASE NextSlice
      BY <3>4 DEF NextSlice
    <3>5. CASE Rendered
      BY <3>5 DEF Rendered
    <3> QED
      BY <1>9, <3>1, <3>2, <3>3, <3>4, <3>5 DEF Render
  <2> QED
    BY <2>1 DEF HInv
<1>10. CASE UNCHANGED templVars
  BY <1>10 DEF HInv, templVars
<1> QED
  BY <1>1, <1>2, <1>3, <1>4, <1>5, <1>6, <1>7, <1>8, <1>9, <1>10
     DEF Next, Register, PageSent, httpd_request_handler, kvparser_parse_string, Respond, vars

\* While a page is parsed, the ring has what was read of it and not yet passed:
\* for all pages and templates, all lengths of them and of the ring.
THEOREM RingHoldsTheRest == Spec => []RingHoldsRest
<1>1. HInv => RingHoldsRest
  BY RestUnread DEF HInv, BeingParsed, RingHoldsRest
<1> QED
  BY <1>1, InitHInv, NextHInv, PTL DEF Spec

--------------------------------------------------------------------------------
(* Parsing.                                                                     *)

\* Where the arguments of a template begin that begins here.
ArgsAt(e) == filepos + 1 + id_len(e)

\* The lengths that are found are those after which the page has a terminator, as
\* far as the page was read.
LEMMA ArgLensAre ==
  ASSUME HInv, BeingParsed, NEW e \in Entries, Matches(e), NEW n
  PROVE  /\ n \in ArgLens(e) <=> /\ n \in Nat
                                 /\ ArgsAt(e) + n \in Ends(file, ArgsAt(e))
                                 /\ filepos + id_len(e) + n + suffix_len <= given
         /\ n \in ArgLens(e) =>
              ring_read(ring_advance_read(ring, id_len(e)), n) =
                SubSeq(file, ArgsAt(e), (ArgsAt(e) + n) - 1)
<1> DEFINE id == id_len(e)
           args == ring_advance_read(ring, id)
           pos == filepos + id
           term == ring_advance_read(args, n)
<1>1. /\ file \in Seq(Bytes) /\ IsRing(ring, Cell) /\ Rest(file, given, filepos, ring)
      /\ Len(file) \in Nat /\ filepos \in Nat /\ given \in Nat /\ given <= Len(file)
  BY LenProperties DEF HInv, Rest
<1>2. id \in Nat \ {0} /\ suffix_len \in Nat \ {0} /\ Suffix \in Seq(Bytes)
  BY Lengths, TemplatesAssumption
<1>3. id <= ring_available(ring)
  BY <1>1, <1>2, AvailableRange DEF Matches, ring_memcmp, id_len
<1>4. n \in ArgLens(e) <=> n \in 0..ring_available(args) /\ ring_memcmp(term, Suffix)
  BY DEF ArgLens
<1>5. pos \in Nat /\ ArgsAt(e) = pos + 1
  BY <1>1, <1>2 DEF ArgsAt
<1>6. ReadOn(ring, args, id, Cell)
  BY <1>1, <1>2, <1>3, AdvanceReadReadsOn
<1>7. IsRing(args, Cell) /\ Rest(file, given, pos, args)
  <2>1. IsRing(args, Cell)
    BY <1>6 DEF ReadOn
  <2> QED
    BY <1>1, <1>2, <1>3, <1>6, <2>1, RestReadOn
<1> HIDE DEF args
<1>8. ring_available(args) \in Nat /\ given = pos + ring_available(args)
  BY <1>7, AvailableRange DEF Rest
<1>9. ASSUME n \in 0..ring_available(args)
      PROVE  ring_memcmp(term, Suffix) <=> pos + n + suffix_len <= given /\ OccursAt(file, Suffix, pos + n + 1)
  <2>1. n \in Nat /\ n <= ring_available(args)
    BY <1>8, <1>9
  <2>2. ReadOn(args, term, n, Cell)
    BY <1>7, <2>1, AdvanceReadReadsOn
  <2>3. IsRing(term, Cell)
    BY <2>2 DEF ReadOn
  <2>4. Rest(file, given, pos + n, term)
    BY <1>1, <1>7, <2>1, <2>2, RestReadOn
  <2> HIDE DEF term, pos
  <2> QED
    BY <1>1, <1>2, <2>3, <2>4, MemcmpOccurs DEF suffix_len
<1> HIDE DEF term
<1>10. ASSUME n \in Nat PROVE ArgsAt(e) + n \in Ends(file, ArgsAt(e)) <=> OccursAt(file, Suffix, pos + n + 1)
  <2>1. ArgsAt(e) + n = pos + n + 1
    BY <1>5, <1>10
  <2>2. OccursAt(file, Suffix, pos + n + 1) => pos + n + 1 \in (pos + 1)..Len(file)
    <3> SUFFICES ASSUME OccursAt(file, Suffix, pos + n + 1) PROVE pos + n + 1 \in (pos + 1)..Len(file)
      OBVIOUS
    <3> HIDE DEF pos
    <3>1. pos + n + 1 + suffix_len - 1 <= Len(file)
      BY DEF OccursAt, suffix_len
    <3> QED
      BY <1>1, <1>2, <1>5, <1>10, <3>1
  <2> HIDE DEF pos
  <2> QED
    BY <1>5, <2>1, <2>2 DEF Ends
<1>11. n \in ArgLens(e) => ring_read(args, n) = SubSeq(file, ArgsAt(e), (ArgsAt(e) + n) - 1)
  <2> SUFFICES ASSUME n \in ArgLens(e) PROVE ring_read(args, n) = SubSeq(file, ArgsAt(e), (ArgsAt(e) + n) - 1)
    OBVIOUS
  <2>1. n \in Nat /\ n <= ring_available(args)
    BY <1>4, <1>8
  <2>2. ring_read(args, n) = SubSeq(file, pos + 1, pos + n)
    BY <1>1, <1>7, <2>1, ReadIs
  <2>3. (ArgsAt(e) + n) - 1 = pos + n
    BY <1>5, <2>1
  <2> QED
    BY <1>5, <2>2, <2>3
<1>12. ASSUME n \in Nat, pos + n + suffix_len <= given PROVE n \in 0..ring_available(args)
  BY <1>2, <1>5, <1>8, <1>12
<1>13. n \in 0..ring_available(args) => n \in Nat
  BY <1>8
<1> HIDE DEF pos
<1>14. n \in ArgLens(e) <=> n \in Nat /\ ArgsAt(e) + n \in Ends(file, ArgsAt(e)) /\ pos + n + suffix_len <= given
  BY <1>4, <1>9, <1>10, <1>12, <1>13
<1> QED
  BY <1>11, <1>14 DEF args, pos

\* The first terminator that is found is the template's.
LEMMA FirstIsEnd ==
  ASSUME HInv, BeingParsed, NEW e \in Entries, Matches(e),
         NEW n \in ArgLens(e), \A m \in ArgLens(e) : n <= m
  PROVE  /\ n \in Nat /\ Ends(file, ArgsAt(e)) # {} /\ End(file, ArgsAt(e)) = ArgsAt(e) + n
         /\ filepos + id_len(e) + n + suffix_len <= given
<1> DEFINE a == ArgsAt(e)
           q == End(file, a)
<1>1. /\ file \in Seq(Bytes) /\ filepos \in Nat /\ given \in Nat
      /\ id_len(e) \in Nat \ {0} /\ suffix_len \in Nat \ {0} /\ Len(file) \in Nat
  BY Lengths, LenProperties DEF HInv, Rest
<1>2. a \in Nat \ {0} /\ a = filepos + id_len(e) + 1
  BY <1>1 DEF ArgsAt
<1>3. n \in Nat /\ a + n \in Ends(file, a) /\ filepos + id_len(e) + n + suffix_len <= given
  BY ArgLensAre
<1>4. q \in a..Len(file) /\ q <= a + n /\ OccursAt(file, Suffix, q)
  BY <1>1, <1>2, <1>3, EndIs
<1>5. q \in Ends(file, a)
  BY <1>4 DEF Ends
<1> HIDE DEF a, q
<1> DEFINE m == q - a
<1>6. m \in Nat /\ a + m = q /\ m <= n
  <2>1. a \in Nat /\ q \in Nat /\ n \in Nat /\ a <= q /\ q <= a + n
    BY <1>1, <1>2, <1>3, <1>4
  <2> QED
    BY <2>1
<1> HIDE DEF m
<1>7. filepos + id_len(e) + m + suffix_len <= given
  BY <1>1, <1>3, <1>6
<1>8. m \in ArgLens(e)
  BY <1>5, <1>6, <1>7, ArgLensAre DEF a
<1>9. n = m
  BY <1>3, <1>6, <1>8
<1> QED
  BY <1>3, <1>6, <1>9 DEF a, q

\* If none is found although the page was read to its end, or the ring is full, there is
\* none, or too far.
LEMMA NoneIsRefused ==
  ASSUME HInv, BeingParsed, NEW e \in Entries, Matches(e), ArgLens(e) = {},
         given = Len(file) \/ ring_available(ring) >= max_id_len + MaxArgLen + suffix_len
  PROVE  Refused(file, ArgsAt(e))
<1> DEFINE a == ArgsAt(e)
           q == End(file, a)
<1>1. /\ file \in Seq(Bytes) /\ filepos \in Nat /\ given \in Nat /\ given = filepos + ring_available(ring)
      /\ id_len(e) \in Nat \ {0} /\ suffix_len \in Nat \ {0} /\ Len(file) \in Nat
      /\ max_id_len \in Nat /\ id_len(e) + suffix_len <= max_id_len /\ MaxArgLen \in Nat
      /\ ring_available(ring) \in Nat
  BY Lengths, LenProperties, MaxIdLen, TemplatesAssumption, AvailableRange DEF HInv, Rest
<1>2. a \in Nat \ {0} /\ a = filepos + id_len(e) + 1
  BY <1>1 DEF ArgsAt
<1> SUFFICES ASSUME Ends(file, a) # {}, ~(q - a > MaxArgLen) PROVE FALSE
  BY DEF Refused
<1>3. q \in a..Len(file) /\ OccursAt(file, Suffix, q) /\ q + suffix_len \in (a + 1)..(Len(file) + 1)
  BY <1>1, <1>2, EndIs
<1>4. q \in Ends(file, a)
  BY <1>3 DEF Ends
<1>5. ~(q - a > MaxArgLen)
  OBVIOUS
<1> HIDE DEF a, q
<1> DEFINE m == q - a
<1>6. m \in Nat /\ a + m = q /\ m <= MaxArgLen
  <2>1. a \in Nat /\ q \in Nat /\ a <= q /\ MaxArgLen \in Nat
    BY <1>1, <1>2, <1>3
  <2> QED
    BY <1>5, <2>1
<1> HIDE DEF m
<1>7. filepos + id_len(e) + m + suffix_len <= given
  <2>0. m \in Nat /\ a + m = q /\ m <= MaxArgLen /\ q + suffix_len <= Len(file) + 1
    BY <1>3, <1>6
  <2>1. CASE given = Len(file)
    <3> DEFINE id == id_len(e)
               l == Len(file)
    <3>1. /\ id \in Nat /\ suffix_len \in Nat /\ m \in Nat /\ l \in Nat /\ filepos \in Nat /\ a \in Nat
          /\ a = filepos + id + 1 /\ (a + m) + suffix_len <= l + 1 /\ given = l
      BY <1>1, <1>2, <2>0, <2>1
    <3> HIDE DEF id, l
    <3>2. filepos + id + m + suffix_len <= given
      BY <3>1
    <3> QED
      BY <3>2 DEF id
  <2>2. CASE ring_available(ring) >= max_id_len + MaxArgLen + suffix_len
    <3> DEFINE id == id_len(e)
               l == ring_available(ring)
    <3>1. /\ id \in Nat /\ suffix_len \in Nat /\ max_id_len \in Nat /\ m \in Nat /\ MaxArgLen \in Nat
          /\ l \in Nat /\ filepos \in Nat /\ given = filepos + l
          /\ id + suffix_len <= max_id_len /\ m <= MaxArgLen /\ l >= max_id_len + MaxArgLen + suffix_len
      BY <1>1, <2>0, <2>2
    <3> HIDE DEF id, l
    <3>2. id + m + suffix_len <= l
      BY <3>1
    <3>3. filepos + id + m + suffix_len <= given
      BY <3>1, <3>2
    <3> QED
      BY <3>3 DEF id
  <2> QED
    BY <2>1, <2>2
<1>8. m \in ArgLens(e)
  BY <1>4, <1>6, <1>7, ArgLensAre DEF a
<1> QED
  BY <1>8

\* A page with such a template is bad.
LEMMA RefusedHere ==
  ASSUME file \in Seq(Bytes), NEW sl, Parsed(file, sl, filepos), NEW e \in Entries,
         OccursAt(file, e, filepos + 1), Refused(file, ArgsAt(e))
  PROVE  IsBad(Meaning)
<1>1. filepos \in 0..Len(file) /\ Len(file) \in Nat /\ Understood(file, filepos)
  BY LenProperties DEF Parsed
<1>2. id_len(e) \in Nat \ {0} /\ Len(e) = id_len(e)
  BY Lengths DEF id_len
<1>3. filepos + 1 \in 1..Len(file)
  BY <1>1, <1>2 DEF OccursAt
<1>4. Meant(file)[filepos + 1] = <<Bad>>
  <2>1. (filepos + 1) + id_len(e) = ArgsAt(e)
    BY DEF ArgsAt
  <2> QED
    BY <1>3, <2>1, MeantTemplate
<1> QED
  BY <1>1, <1>4, RefusedIsBad DEF Meaning

\* A ring keeps its size.
RecordOf(r, size) == r = [size |-> size, data |-> r.data, read |-> r.read, write |-> r.write]

LEMMA RecordKept ==
  ASSUME NEW size, NEW r, RecordOf(r, size), NEW o
  PROVE  /\ RecordOf(ring_advance_read(r, o), size) /\ RecordOf(ring_advance_write(r, o), size)
         /\ RecordOf(ring_inc_read(r), size) /\ RecordOf(Stored(r, o), size)
<1>1. ASSUME NEW x PROVE RecordOf([r EXCEPT !.read = x], size) /\ RecordOf([r EXCEPT !.write = x], size)
                         /\ RecordOf([r EXCEPT !.data = x], size)
  BY DEF RecordOf
<1> QED
  BY <1>1, Zenon DEF ring_advance_read, ring_advance_write, ring_inc_read, Stored

LEMMA SizeIs ==
  ASSUME NEW size, NEW r, RecordOf(r, size) PROVE r.size = size
  BY DEF RecordOf

LEMMA SizeKept ==
  HInv /\ [Next]_vars => ring'.size = ring.size
<1> SUFFICES ASSUME HInv, [Next]_vars PROVE ring'.size = ring.size
  OBVIOUS
<1> DEFINE size == ring.size
<1>0. RecordOf(ring, size)
  BY DEF HInv, IsRing, RecordOf
<1> HIDE DEF size
<1>1. ASSUME RecordOf(ring', size) PROVE ring'.size = ring.size
  BY <1>1, SizeIs DEF size
<1>2. CASE ReadMore
  BY <1>0, <1>1, <1>2, RecordKept DEF ReadMore
<1>3. CASE SkipByte
  BY <1>0, <1>1, <1>3, RecordKept DEF SkipByte
<1>4. ASSUME NEW e \in Entries, TakeTemplate(e) PROVE ring'.size = ring.size
  <2>1. PICK n : ring' = ring \/ ring' = ring_advance_read(ring_advance_read(ring_advance_read(ring, id_len(e)), n), suffix_len)
    BY <1>4 DEF TakeTemplate
  <2> QED
    BY <1>0, <1>1, <2>1, RecordKept
<1>5. CASE Restart
  BY <1>5 DEF Restart, ring_alloc
<1>6. CASE UNCHANGED ring
  BY <1>6
<1> QED
  BY <1>2, <1>3, <1>4, <1>5, <1>6
     DEF Next, Register, Registered, PageSent, httpd_request_handler, kvparser_parse_string, Respond, vars,
         templVars, SeekTerminator, EndOfRing, Render, SkipToSlice, WriteSlice, ApplyTemplate, NextSlice,
         Rendered, httpd_embedded_template_file_request_handler

\* While the page is parsed: what is parsed of it is understood, there is space
\* in the ring when more is to be read, and a reading that gets nothing is the page's end.
\* A page that is not parsed is bad.
ParseInv ==
  /\ ring.size = MaxArgLen + 2 * max_id_len
  /\ BeingParsed => task = "start" /\ Parsed(file, slices, filepos)
  /\ templ = "read" => ring_available(ring) < ring.size - 1
  /\ templ = "scan" /\ read_len = 0 => given = Len(file)
  /\ templ = "failed" => task = "start" /\ IsBad(Meaning)

\* Then it is in slices, and what was sent is what it means so far.
RenderInv ==
  /\ templ \in {"read", "scan", "failed", "render", "rendered", "cut short"}
  /\ templ \in {"render", "rendered", "cut short"} => Sliced(file, slices, Len(file)) /\ ~IsBad(Meaning)
  /\ task = "page" => /\ templ # "cut short" /\ given = filepos
                      /\ Rendering(file, slices, slice, filepos, out)
                      /\ templ = "rendered" => slice > Len(slices)

PInv == HInv /\ ParseInv /\ RenderInv

\* The ring has space for the arguments, and more than two identifiers.
LEMMA RingSize ==
  ASSUME PInv
  PROVE  /\ IsRing(ring, Cell) /\ ring.size \in Nat \ {0} /\ ring_available(ring) \in Nat
         /\ ring.size = MaxArgLen + 2 * max_id_len
         /\ MaxArgLen \in Nat /\ max_id_len \in Nat \ {0} /\ suffix_len \in Nat \ {0}
         /\ \A e \in Entries : id_len(e) \in Nat \ {0} /\ id_len(e) + suffix_len <= max_id_len
  BY AvailableRange, MaxIdLen, Lengths, TemplatesAssumption DEF PInv, ParseInv, HInv, IsRing

LEMMA InitPInv ==
  Init => PInv
<1> SUFFICES ASSUME Init PROVE PInv
  OBVIOUS
<1>1. /\ file \in Seq(Bytes) /\ filepos = 0 /\ slices = <<Slice(0, 0, Text, <<>>)>>
      /\ templ = "read" /\ task = "start"
      /\ ring = ring_alloc(MaxArgLen + 2 * max_id_len, Text)
  <2>1. CASE TemplInit(Pages)
    BY <2>1, PagesAssumption DEF TemplInit, Init
  <2>2. CASE TemplInit({<<>>})
    BY <2>2, EmptySeq DEF TemplInit, Init
  <2> QED
    BY <2>1, <2>2 DEF Init
<1>2. Parsed(file, slices, filepos)
  BY <1>1, ParsedAtFirst
<1>3. ring.size = MaxArgLen + 2 * max_id_len /\ ring_available(ring) = 0
  BY <1>1 DEF ring_alloc, ring_available
<1>4. 0 < ring.size - 1
  <2>1. MaxArgLen \in Nat /\ max_id_len \in Nat \ {0}
    BY MaxIdLen, TemplatesAssumption
  <2> QED
    BY <1>3, <2>1
<1>5. ParseInv
  BY <1>1, <1>2, <1>3, <1>4 DEF ParseInv
<1>6. RenderInv
  BY <1>1 DEF RenderInv
<1> QED
  BY <1>5, <1>6, InitHInv DEF PInv

\* While the page is parsed, nothing is rendered.
LEMMA StillParsing ==
  ASSUME task' = "start", templ' \in {"read", "scan", "failed"} PROVE RenderInv'
  BY DEF RenderInv

LEMMA ReadMorePInv ==
  ASSUME PInv, ReadMore, task' = task PROVE ParseInv' /\ RenderInv'
<1> DEFINE free == ring_free_space_contig(ring)
<1>1. /\ file \in Seq(Bytes) /\ IsRing(ring, Cell) /\ Rest(file, given, filepos, ring)
      /\ Len(file) \in Nat /\ given \in Nat /\ Len(file) - given \in Nat
      /\ task = "start" /\ Parsed(file, slices, filepos) /\ ring_available(ring) < ring.size - 1
  <2>1. /\ file \in Seq(Bytes) /\ IsRing(ring, Cell) /\ Rest(file, given, filepos, ring)
        /\ task = "start" /\ Parsed(file, slices, filepos) /\ ring_available(ring) < ring.size - 1
    BY DEF PInv, ParseInv, HInv, ReadMore, BeingParsed
  <2>2. Len(file) \in Nat /\ given \in Nat /\ given <= Len(file)
    BY <2>1, LenProperties DEF Rest
  <2> QED
    BY <2>1, <2>2
<1>2. free \in Nat \ {0}
  <2> DEFINE size == ring.size
             read == ring.read
             write == ring.write
  <2>1. size \in Nat \ {0} /\ read \in 0..(size - 1) /\ write \in 0..(size - 1)
    BY <1>1 DEF IsRing
  <2>2. free = IF read > write THEN read - write - 1 ELSE size - write - (IF read = 0 THEN 1 ELSE 0)
    BY DEF ring_free_space_contig
  <2>3. (IF write >= read THEN write - read ELSE size - (read - write)) < size - 1
    BY <1>1 DEF ring_available
  <2> HIDE DEF size, read, write, free
  <2> QED
    BY <2>1, <2>2, <2>3
<1>3. read_len' = ReadLen(free) /\ given' = given + read_len' /\ templ' = "scan"
      /\ file' = file /\ filepos' = filepos /\ slices' = slices
  BY DEF ReadMore
<1> HIDE DEF free
<1>4. read_len' = 0 => given' = Len(file)
  <2> DEFINE left == Len(file) - given
  <2>1. left \in Nat /\ read_len' = Min({free, left})
    BY <1>1, <1>3 DEF ReadLen
  <2> HIDE DEF left
  <2>2. read_len' = 0 => left = 0
    BY <1>2, <2>1, MinPair
  <2> QED
    BY <1>1, <1>3, <2>2 DEF left
<1>5. ring'.size = ring.size
  <2>1. RecordOf(ring, ring.size)
    BY <1>1 DEF IsRing, RecordOf
  <2> QED
    BY <2>1, RecordKept, SizeIs DEF ReadMore
<1>6. ParseInv'
  BY <1>1, <1>3, <1>4, <1>5 DEF PInv, ParseInv, BeingParsed
<1>7. RenderInv'
  BY <1>1, <1>3, StillParsing
<1> QED
  BY <1>6, <1>7

\* There is enough in the ring to see whether a template begins.
LEMMA Scanned ==
  ASSUME PInv, templ = "scan", EnoughToScan
  PROVE  /\ filepos < Len(file) /\ filepos \in Nat /\ Len(file) \in Nat /\ given \in Nat
         /\ \A e \in Entries : Matches(e) <=> OccursAt(file, e, filepos + 1)
<1>1. /\ file \in Seq(Bytes) /\ IsRing(ring, Cell) /\ Rest(file, given, filepos, ring)
      /\ Len(file) \in Nat /\ given \in Nat /\ filepos \in Nat /\ given <= Len(file)
      /\ given = filepos + ring_available(ring)
      /\ read_len = 0 => given = Len(file)
  BY LenProperties DEF PInv, ParseInv, HInv, BeingParsed, Rest
<1>2. /\ ring_available(ring) \in Nat /\ max_id_len \in Nat \ {0} /\ suffix_len \in Nat \ {0}
      /\ \A e \in Entries : id_len(e) \in Nat \ {0} /\ id_len(e) + suffix_len <= max_id_len
  BY RingSize
<1>3. ring_available(ring) >= IF read_len = 0 THEN 1 ELSE max_id_len
  BY DEF EnoughToScan
<1>4. filepos < Len(file)
  BY <1>1, <1>2, <1>3
<1>5. ASSUME NEW e \in Entries PROVE Matches(e) <=> OccursAt(file, e, filepos + 1)
  <2>1. e \in Seq(Bytes) /\ Len(e) = id_len(e)
    BY TemplatesAssumption DEF id_len
  <2>2. Matches(e) <=> filepos + Len(e) <= given /\ OccursAt(file, e, filepos + 1)
    BY <1>1, <2>1, MemcmpOccurs DEF Matches
  <2>3. ASSUME OccursAt(file, e, filepos + 1) PROVE filepos + Len(e) <= given
    <3>1. CASE read_len = 0
      <4>1. filepos + 1 + Len(e) - 1 <= Len(file)
        BY <2>3 DEF OccursAt
      <4> QED
        BY <1>1, <1>2, <2>1, <3>1, <4>1
    <3>2. CASE read_len # 0
      <4> DEFINE l == ring_available(ring)
                 id == id_len(e)
      <4>1. /\ id \in Nat /\ suffix_len \in Nat /\ id + suffix_len <= max_id_len /\ max_id_len \in Nat
            /\ l \in Nat /\ l >= max_id_len /\ given = filepos + l /\ filepos \in Nat
        BY <1>1, <1>2, <1>3, <3>2
      <4> HIDE DEF l, id
      <4>2. filepos + id <= given
        BY <4>1
      <4> QED
        BY <2>1, <4>2 DEF id
    <3> QED
      BY <3>1, <3>2
  <2> QED
    BY <2>2, <2>3
<1> QED
  BY <1>1, <1>4, <1>5

LEMMA SkipBytePInv ==
  ASSUME PInv, SkipByte, task' = task PROVE ParseInv' /\ RenderInv'
<1>1. /\ file \in Seq(Bytes) /\ RecordOf(ring, ring.size)
      /\ task = "start" /\ Parsed(file, slices, filepos) /\ (read_len = 0 => given = Len(file))
      /\ templ = "scan" /\ EnoughToScan
  BY DEF PInv, ParseInv, HInv, SkipByte, BeingParsed, IsRing, RecordOf
<1>2. /\ templ' = templ /\ filepos' = filepos + 1 /\ file' = file /\ given' = given
      /\ read_len' = read_len /\ slices' = slices /\ ring' = ring_inc_read(ring)
      /\ \A e \in Entries : ~Matches(e)
  BY DEF SkipByte
<1>3. filepos < Len(file) /\ Begins(file, filepos + 1) = {}
  BY <1>1, <1>2, Scanned DEF Begins
<1>4. Parsed(file, slices, filepos + 1)
  BY <1>1, <1>3, ParsedByte
<1>5. ring'.size = ring.size
  BY <1>1, <1>2, RecordKept, SizeIs
<1>6. ParseInv'
  BY <1>1, <1>2, <1>4, <1>5 DEF PInv, ParseInv, BeingParsed
<1>7. RenderInv'
  BY <1>1, <1>2, StillParsing
<1> QED
  BY <1>6, <1>7

LEMMA TakeTemplatePInv ==
  ASSUME PInv, NEW e \in Entries, TakeTemplate(e), task' = task PROVE ParseInv' /\ RenderInv'
<1> DEFINE a == ArgsAt(e)
<1>1. /\ file \in Seq(Bytes) /\ RecordOf(ring, ring.size) /\ HInv
      /\ task = "start" /\ Parsed(file, slices, filepos) /\ (read_len = 0 => given = Len(file))
      /\ templ = "scan" /\ EnoughToScan /\ Matches(e) /\ BeingParsed
  BY DEF PInv, ParseInv, HInv, TakeTemplate, BeingParsed, IsRing, RecordOf
<1>2. OccursAt(file, e, filepos + 1) /\ filepos \in Nat
  BY <1>1, Scanned
<1>3. PICK n \in ArgLens(e) :
        /\ \A m \in ArgLens(e) : n <= m
        /\ IF n > MaxArgLen
           THEN templ' = "failed" /\ ring' = ring /\ filepos' = filepos /\ slices' = slices
           ELSE /\ ring' = ring_advance_read(ring_advance_read(ring_advance_read(ring, id_len(e)), n), suffix_len)
                /\ filepos' = filepos + id_len(e) + n + suffix_len
                /\ slices' = [slices EXCEPT ![Len(slices)].end = filepos]
                     \o <<Slice(filepos, filepos + id_len(e) + n + suffix_len, e,
                                ring_read(ring_advance_read(ring, id_len(e)), n)),
                          Slice(filepos + id_len(e) + n + suffix_len, 0, Text, <<>>)>>
                /\ templ' = templ
  BY DEF TakeTemplate
<1>4. file' = file /\ given' = given /\ read_len' = read_len
  BY DEF TakeTemplate
<1>5. n \in Nat /\ Ends(file, a) # {} /\ End(file, a) = a + n
  BY <1>1, <1>3, FirstIsEnd
<1>6. /\ id_len(e) \in Nat /\ suffix_len \in Nat /\ MaxArgLen \in Nat
      /\ a = filepos + 1 + id_len(e) /\ a \in Nat
  BY <1>2, Lengths, TemplatesAssumption DEF ArgsAt
<1>7. CASE n > MaxArgLen
  <2>1. Refused(file, a)
    <3>1. End(file, a) - a > MaxArgLen
      BY <1>5, <1>6, <1>7
    <3> QED
      BY <3>1 DEF Refused
  <2>2. IsBad(Meaning)
    BY <1>1, <1>2, <2>1, RefusedHere
  <2>3. templ' = "failed" /\ ring' = ring /\ Meaning' = Meaning
    BY <1>3, <1>4, <1>7 DEF Meaning
  <2>4. ParseInv'
    BY <1>1, <2>2, <2>3 DEF PInv, ParseInv, BeingParsed
  <2>5. RenderInv'
    BY <1>1, <2>3, StillParsing
  <2> QED
    BY <2>4, <2>5
<1>8. CASE ~(n > MaxArgLen)
  <2> DEFINE next == filepos + id_len(e) + n + suffix_len
  <2>1. ~Refused(file, a)
    <3>1. ~(End(file, a) - a > MaxArgLen)
      BY <1>5, <1>6, <1>8
    <3> QED
      BY <1>5, <3>1 DEF Refused
  <2>2. next = End(file, a) - 1 + suffix_len
    BY <1>2, <1>5, <1>6
  <2>3. ring_read(ring_advance_read(ring, id_len(e)), n) = SubSeq(file, a, End(file, a) - 1)
    BY <1>1, <1>3, <1>5, ArgLensAre
  <2>4. slices' = Closed(slices, filepos)
                    \o <<Slice(filepos, next, e, SubSeq(file, a, End(file, a) - 1)), Slice(next, 0, Text, <<>>)>>
    BY <1>3, <1>8, <2>3 DEF Closed
  <2>5. filepos' = next /\ templ' = templ
    BY <1>3, <1>8
  <2>6. a = filepos + 1 + id_len(e)
    BY <1>6
  <2> HIDE DEF a, next
  <2>7. Parsed(file, slices', next)
    <3>1. Parsed(file, Closed(slices, filepos)
                         \o <<Slice(filepos, next, e, SubSeq(file, a, End(file, a) - 1)), Slice(next, 0, Text, <<>>)>>,
                 next)
      BY <1>1, <1>2, <2>1, <2>2, <2>6, ParsedTemplate
    <3> QED
      BY <2>4, <3>1
  <2>8. ring'.size = ring.size
    <3>1. ring' = ring_advance_read(ring_advance_read(ring_advance_read(ring, id_len(e)), n), suffix_len)
      BY <1>3, <1>8
    <3>2. RecordOf(ring', ring.size)
      BY <1>1, <3>1, RecordKept
    <3> QED
      BY <3>2, SizeIs
  <2>9. ParseInv'
    BY <1>1, <1>4, <2>5, <2>7, <2>8 DEF PInv, ParseInv, BeingParsed
  <2>10. RenderInv'
    BY <1>1, <2>5, StillParsing
  <2> QED
    BY <2>9, <2>10
<1> QED
  BY <1>7, <1>8

LEMMA SeekTerminatorPInv ==
  ASSUME PInv, NEW e \in Entries, SeekTerminator(e), task' = task PROVE ParseInv' /\ RenderInv'
<1> DEFINE full == ring_available(ring) >= max_id_len + MaxArgLen + suffix_len
<1>1. /\ file \in Seq(Bytes) /\ HInv
      /\ task = "start" /\ Parsed(file, slices, filepos) /\ (read_len = 0 => given = Len(file))
      /\ templ = "scan" /\ EnoughToScan /\ Matches(e) /\ ArgLens(e) = {} /\ BeingParsed
  BY DEF PInv, ParseInv, HInv, SeekTerminator, BeingParsed
<1>2. /\ file' = file /\ filepos' = filepos /\ slices' = slices /\ ring' = ring
      /\ templ' = IF read_len = 0 \/ full THEN "failed" ELSE "read"
  BY DEF SeekTerminator
<1>3. OccursAt(file, e, filepos + 1)
  BY <1>1, Scanned
<1>4. ASSUME read_len = 0 \/ full PROVE IsBad(Meaning)
  <2>1. Refused(file, ArgsAt(e))
    BY <1>1, <1>4, NoneIsRefused
  <2> QED
    BY <1>1, <1>3, <2>1, RefusedHere
<1>5. ASSUME ~full PROVE ring_available(ring) < ring.size - 1
  <2> DEFINE id == id_len(e)
             l == ring_available(ring)
             max == max_id_len
  <2>1. /\ id \in Nat \ {0} /\ suffix_len \in Nat /\ id + suffix_len <= max /\ max \in Nat /\ MaxArgLen \in Nat
        /\ l \in Nat /\ ring.size = MaxArgLen + 2 * max /\ ~(l >= max + MaxArgLen + suffix_len)
    BY <1>5, RingSize
  <2> HIDE DEF id, l, max
  <2>2. suffix_len + 1 <= max /\ l < max + MaxArgLen + suffix_len
    BY <2>1
  <2>3. l < ring.size - 1
    BY <2>1, <2>2
  <2> QED
    BY <2>3 DEF l
<1>6. Meaning' = Meaning
  BY <1>2 DEF Meaning
<1> HIDE DEF full
<1>7. ParseInv'
  BY <1>1, <1>2, <1>4, <1>5, <1>6 DEF PInv, ParseInv, BeingParsed
<1>8. RenderInv'
  BY <1>1, <1>2, StillParsing
<1> QED
  BY <1>7, <1>8

LEMMA EndOfRingPInv ==
  ASSUME PInv, EndOfRing, task' = task PROVE ParseInv' /\ RenderInv'
<1>1. /\ file \in Seq(Bytes) /\ Rest(file, given, filepos, ring)
      /\ task = "start" /\ Parsed(file, slices, filepos) /\ (read_len = 0 => given = Len(file))
      /\ templ = "scan" /\ ~EnoughToScan
      /\ given = filepos + ring_available(ring) /\ filepos \in Nat /\ given \in Nat
  BY DEF PInv, ParseInv, HInv, EndOfRing, BeingParsed, Rest
<1>2. file' = file /\ ring' = ring /\ read_len' = read_len
  BY DEF EndOfRing
<1>3. /\ ring_available(ring) \in Nat /\ MaxArgLen \in Nat /\ max_id_len \in Nat \ {0}
      /\ ring.size = MaxArgLen + 2 * max_id_len
  BY RingSize
<1>4. CASE read_len # 0
  <2>1. templ' = "read" /\ slices' = slices /\ filepos' = filepos
    BY <1>4 DEF EndOfRing
  <2>2. ring_available(ring) < ring.size - 1
    BY <1>1, <1>3, <1>4 DEF EnoughToScan
  <2>3. ParseInv'
    BY <1>1, <1>2, <2>1, <2>2 DEF PInv, ParseInv, BeingParsed
  <2> QED
    BY <1>1, <2>1, <2>3, StillParsing
<1>5. CASE read_len = 0
  <2>1. /\ slices' = Closed(slices, filepos) /\ templ' = "render" /\ filepos' = 0 /\ given' = 0
    BY <1>5 DEF EndOfRing, Closed
  <2>2. filepos = Len(file)
    BY <1>1, <1>3, <1>5 DEF EnoughToScan
  <2>3. Sliced(file, slices', Len(file)) /\ ~IsBad(Meaning)
    BY <1>1, <2>1, <2>2, ParsedAll DEF Meaning
  <2>4. Meaning' = Meaning
    BY <1>2 DEF Meaning
  <2>5. ParseInv'
    BY <1>1, <1>2, <2>1 DEF PInv, ParseInv, BeingParsed
  <2>6. RenderInv'
    BY <1>1, <1>2, <2>1, <2>3, <2>4 DEF RenderInv
  <2> QED
    BY <2>5, <2>6
<1> QED
  BY <1>4, <1>5

LEMMA RestartPInv ==
  ASSUME PInv, Restart PROVE ParseInv' /\ RenderInv'
<1>1. file \in Seq(Bytes) /\ ring.size \in Nat /\ ring.size = MaxArgLen + 2 * max_id_len
      /\ MaxArgLen \in Nat /\ max_id_len \in Nat \ {0}
  BY RingSize DEF PInv, HInv
<1>2. /\ file' = file /\ task' = "start" /\ templ' = "read" /\ filepos' = 0
      /\ slices' = <<Slice(0, 0, Text, <<>>)>> /\ ring' = ring_alloc(ring.size, Text)
  BY DEF Restart
<1>3. Parsed(file', slices', filepos')
  BY <1>1, <1>2, ParsedAtFirst
<1>4. ring'.size = ring.size /\ ring_available(ring') = 0
  BY <1>2 DEF ring_alloc, ring_available
<1>5. 0 < ring'.size - 1
  BY <1>1, <1>4
<1>6. ParseInv'
  BY <1>1, <1>2, <1>3, <1>4, <1>5 DEF ParseInv
<1> QED
  BY <1>2, <1>6, StillParsing

--------------------------------------------------------------------------------
(* Rendering: the program.                                                      *)

\* Up to a limit on the page, a reading gets all it asks for.
LEMMA ReadingTo ==
  ASSUME file \in Seq(Bytes), given = filepos, filepos \in Nat,
         NEW limit \in Nat, filepos < limit, limit <= Len(file),
         NEW n, n = Min({BuffSize, limit - filepos})
  PROVE  /\ n \in Nat \ {0} /\ filepos + n <= limit /\ ReadLen(n) = n
         /\ Sent(ReadBytes(n)) = SentSpan(file, filepos, n)
<1>1. /\ BuffSize \in Nat \ {0} /\ limit - filepos \in Nat \ {0} /\ Len(file) - given \in Nat
      /\ Len(file) - given >= limit - filepos
  BY LenProperties, TemplatesAssumption
<1>2. n \in Nat \ {0} /\ n <= limit - filepos
  BY <1>1, MinPair
<1>3. ReadLen(n) = n
  BY <1>1, <1>2, MinPair DEF ReadLen
<1>4. Sent(ReadBytes(n)) = SentSpan(file, filepos, n)
  BY <1>3 DEF ReadBytes, SentSpan
<1> QED
  BY <1>2, <1>3, <1>4

LEMMA ReadSliceReads ==
  ASSUME file \in Seq(Bytes), given = filepos, filepos \in Nat,
         NEW limit \in Nat, filepos < limit, limit <= Len(file), NEW sends \in BOOLEAN,
         ReadSlice(limit, sends)
  PROVE  \E n \in Nat : /\ filepos + n <= limit /\ filepos' = filepos + n /\ given' = filepos' /\ templ' = templ
                        /\ out' = IF sends THEN out \o SentSpan(file, filepos, n) ELSE out
<1> DEFINE n == Min({BuffSize, limit - filepos})
<1>1. /\ n \in Nat \ {0} /\ filepos + n <= limit /\ ReadLen(n) = n
      /\ Sent(ReadBytes(n)) = SentSpan(file, filepos, n)
  BY ReadingTo
<1>2. /\ IF ReadLen(n) = 0 THEN templ' = "cut short" /\ UNCHANGED out
         ELSE templ' = templ /\ out' = IF sends THEN out \o Sent(ReadBytes(n)) ELSE out
      /\ given' = given + ReadLen(n) /\ filepos' = filepos + ReadLen(n)
  BY DEF ReadSlice
<1> HIDE DEF n
<1>3. templ' = templ /\ out' = IF sends THEN out \o SentSpan(file, filepos, n) ELSE out
  BY <1>1, <1>2
<1> QED
  BY <1>1, <1>2, <1>3

LEMMA RenderPInv ==
  ASSUME PInv, Render PROVE ParseInv' /\ RenderInv'
<1>1. /\ file \in Seq(Bytes) /\ task = "page" /\ task' = task /\ given = filepos
      /\ Rendering(file, slices, slice, filepos, out)
      /\ templ # "cut short" /\ (templ = "rendered" => slice > Len(slices))
  BY DEF PInv, HInv, RenderInv, Render
<1>2. /\ templ = "render" /\ file' = file /\ slices' = slices /\ ring' = ring
  BY DEF Render, SkipToSlice, WriteSlice, ApplyTemplate, NextSlice, Rendered
<1>3. Sliced(file, slices, Len(file)) /\ ~IsBad(Meaning) /\ filepos \in 0..Len(file) /\ slice \in 1..(Len(slices) + 1)
  BY <1>1, <1>2 DEF PInv, RenderInv, Rendering
<1>4. Len(file) \in Nat /\ filepos \in Nat /\ Len(slices) \in Nat
  <2>1. Len(slices) \in Nat \ {0} /\ Len(file) \in Nat
    BY <1>1, <1>3, SlicedFacts
  <2> QED
    BY <1>3, <2>1
<1>5. slice <= Len(slices) => /\ slices[slice].start \in Nat /\ slices[slice].end \in Nat
                              /\ slices[slice].start <= Len(file) /\ slices[slice].end <= Len(file)
  <2> SUFFICES ASSUME slice <= Len(slices)
               PROVE  /\ slices[slice].start \in Nat /\ slices[slice].end \in Nat
                      /\ slices[slice].start <= Len(file) /\ slices[slice].end <= Len(file)
    OBVIOUS
  <2>1. slice \in 1..Len(slices)
    BY <1>3, <1>4
  <2>2. /\ slices[slice].start \in Nat /\ slices[slice].end \in Nat
        /\ slices[slice].start <= slices[slice].end /\ slices[slice].end <= Len(file)
    BY <1>1, <1>3, <2>1, SlicedFacts
  <2> QED
    BY <1>4, <2>2
<1>6. /\ given' = filepos' /\ Rendering(file, slices, slice', filepos', out')
      /\ \/ templ' = "render"
         \/ templ' = "rendered" /\ slice' > Len(slices)
  <2>1. CASE SkipToSlice
    <3> DEFINE limit == slices[slice].start
    <3>1. slice <= Len(slices) /\ filepos < limit /\ ReadSlice(limit, FALSE) /\ slice' = slice
      BY <2>1 DEF SkipToSlice
    <3>2. limit \in Nat /\ limit <= Len(file)
      BY <1>5, <3>1
    <3>3. PICK n \in Nat : /\ filepos + n <= limit /\ filepos' = filepos + n /\ given' = filepos' /\ templ' = templ
                           /\ out' = out
      BY <1>1, <1>4, <3>1, <3>2, ReadSliceReads
    <3>4. Rendering(file, slices, slice, filepos + n, out)
      BY <1>1, <3>1, <3>3, RenderingSkips
    <3> QED
      BY <1>2, <3>1, <3>3, <3>4
  <2>2. CASE WriteSlice
    <3> DEFINE limit == slices[slice].end
    <3>1. /\ slice <= Len(slices) /\ filepos < limit /\ ReadSlice(limit, TRUE) /\ slice' = slice
          /\ slices[slice].start <= filepos /\ slices[slice].entry = Text
      BY <1>4, <1>5, <2>2 DEF WriteSlice
    <3>2. limit \in Nat /\ limit <= Len(file)
      BY <1>5, <3>1
    <3>3. PICK n \in Nat : /\ filepos + n <= limit /\ filepos' = filepos + n /\ given' = filepos' /\ templ' = templ
                           /\ out' = out \o SentSpan(file, filepos, n)
      BY <1>1, <1>4, <3>1, <3>2, ReadSliceReads
    <3>4. Rendering(file, slices, slice, filepos + n, out \o SentSpan(file, filepos, n))
      BY <1>1, <3>1, <3>3, RenderingSends
    <3> QED
      BY <1>2, <3>1, <3>3, <3>4
  <2>3. CASE ApplyTemplate
    <3>1. /\ slice <= Len(slices) /\ slices[slice].start <= filepos /\ slices[slice].entry # Text
          /\ slice' = slice + 1 /\ filepos' = filepos /\ given' = given /\ templ' = templ
          /\ out' = Append(out, <<slices[slice].entry, slices[slice].args>>)
      BY <1>4, <1>5, <2>3 DEF ApplyTemplate
    <3>2. Rendering(file, slices, slice + 1, filepos, out')
      BY <1>1, <3>1, RenderingApplies
    <3> QED
      BY <1>1, <1>2, <3>1, <3>2
  <2>4. CASE NextSlice
    <3>1. /\ slice <= Len(slices) /\ slices[slice].start <= filepos /\ slices[slice].entry = Text
          /\ slices[slice].end <= filepos
          /\ slice' = slice + 1 /\ filepos' = filepos /\ given' = given /\ templ' = templ /\ out' = out
      BY <1>4, <1>5, <2>4 DEF NextSlice
    <3>2. Rendering(file, slices, slice + 1, filepos, out)
      BY <1>1, <3>1, RenderingNext
    <3> QED
      BY <1>1, <1>2, <3>1, <3>2
  <2>5. CASE Rendered
    BY <1>1, <2>5 DEF Rendered
  <2> QED
    BY <2>1, <2>2, <2>3, <2>4, <2>5 DEF Render
<1>7. Meaning' = Meaning
  BY <1>2 DEF Meaning
<1>8. ParseInv'
  BY <1>1, <1>2, <1>6 DEF PInv, ParseInv, BeingParsed
<1>9. RenderInv'
  BY <1>1, <1>2, <1>3, <1>6, <1>7 DEF RenderInv
<1> QED
  BY <1>8, <1>9

LEMMA RequestPInv ==
  ASSUME PInv, httpd_embedded_template_file_request_handler PROVE ParseInv' /\ RenderInv'
<1>1. /\ file' = file /\ slices' = slices /\ ring' = ring
      /\ task' = "page" /\ templ' = "render" /\ given' = 0 /\ filepos' = 0 /\ slice' = 1 /\ out' = <<>>
      /\ task = "idle"
  BY DEF httpd_embedded_template_file_request_handler
<1>2. file \in Seq(Bytes) /\ Sliced(file, slices, Len(file)) /\ ~IsBad(Meaning)
  BY <1>1 DEF PInv, HInv, ParseInv, RenderInv, BeingParsed
<1>3. Rendering(file, slices, 1, 0, <<>>)
  BY <1>2, RenderingAtFirst
<1>4. Meaning' = Meaning
  BY <1>1 DEF Meaning
<1>5. ParseInv'
  BY <1>1 DEF PInv, ParseInv, BeingParsed
<1>6. RenderInv'
  BY <1>1, <1>2, <1>3, <1>4 DEF RenderInv
<1> QED
  BY <1>5, <1>6

\* The other steps: the page is not being rendered, and is left as it is.
LEMMA OtherPInv ==
  ASSUME PInv, UNCHANGED templVars, task' # "page",
         BeingParsed \/ templ = "failed" => task' = task
  PROVE  ParseInv' /\ RenderInv'
<1>1. /\ file' = file /\ slices' = slices /\ ring' = ring /\ templ' = templ /\ given' = given
      /\ filepos' = filepos /\ read_len' = read_len
  BY DEF templVars
<1>2. Meaning' = Meaning
  BY <1>1 DEF Meaning
<1> QED
  BY <1>1, <1>2 DEF PInv, ParseInv, RenderInv, BeingParsed

LEMMA NextPInv ==
  PInv /\ [Next]_vars => PInv'
<1> SUFFICES ASSUME PInv, [Next]_vars PROVE ParseInv' /\ RenderInv'
  BY NextHInv DEF PInv
<1>1. CASE Register
  BY <1>1, ReadMorePInv, SkipBytePInv, EndOfRingPInv, TakeTemplatePInv, SeekTerminatorPInv DEF Register
<1>2. CASE Registered
  BY <1>2, OtherPInv DEF Registered, BeingParsed
<1>3. CASE Restart
  BY <1>3, RestartPInv
<1>4. CASE httpd_embedded_template_file_request_handler
  BY <1>4, RequestPInv
<1>5. CASE Render
  BY <1>5, RenderPInv
<1>6. CASE PageSent
  BY <1>6, OtherPInv DEF PageSent, BeingParsed
<1>7. CASE httpd_request_handler
  BY <1>7, OtherPInv DEF httpd_request_handler, PInv, ParseInv, BeingParsed
<1>8. CASE kvparser_parse_string
  BY <1>8, OtherPInv DEF kvparser_parse_string
<1>9. CASE Respond
  BY <1>9, OtherPInv DEF Respond, PInv, ParseInv, BeingParsed
<1>10. CASE UNCHANGED vars
  <2>1. task' = task /\ UNCHANGED templVars
    BY <1>10 DEF vars
  <2>2. /\ file' = file /\ slices' = slices /\ ring' = ring /\ templ' = templ /\ given' = given
        /\ filepos' = filepos /\ read_len' = read_len /\ slice' = slice /\ out' = out
    BY <2>1 DEF templVars
  <2>3. Meaning' = Meaning
    BY <2>2 DEF Meaning
  <2> QED
    BY <2>1, <2>2, <2>3 DEF PInv, ParseInv, RenderInv, BeingParsed
<1> QED
  BY <1>1, <1>2, <1>3, <1>4, <1>5, <1>6, <1>7, <1>8, <1>9, <1>10 DEF Next

\* For all pages and templates: a page is refused only if it is bad; else what is sent
\* is the page with each template expanded.
THEOREM PagesAreRendered == Spec => []PageIsRendered
<1>1. PInv => PageIsRendered
  <2> SUFFICES ASSUME PInv PROVE PageIsRendered
    OBVIOUS
  <2>1. templ = "failed" => IsBad(Meaning)
    BY DEF PInv, ParseInv
  <2>2. task = "idle" => ~IsBad(Meaning)
    BY DEF PInv, ParseInv, RenderInv, BeingParsed
  <2>3. ASSUME task = "page", templ \in {"rendered", "cut short"} PROVE templ = "rendered" /\ out = Meaning
    <3>1. /\ templ = "rendered" /\ slice > Len(slices)
          /\ Rendering(file, slices, slice, filepos, out)
      BY <2>3 DEF PInv, RenderInv
    <3> QED
      BY <3>1 DEF Rendering, Meaning
  <2> QED
    BY <2>1, <2>2, <2>3 DEF PageIsRendered
<1> QED
  BY <1>1, InitPInv, NextPInv, PTL DEF Spec
================================================================================
