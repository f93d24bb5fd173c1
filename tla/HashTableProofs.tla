----------------------------- MODULE HashTableProofs -----------------------------
(***************************************************************************)
(* Proofs about HashTable, for every set of keys and values, every hash    *)
(* function, and chains of any length.                                     *)
(*                                                                         *)
(* The argument: a table is as good as the set of entries it holds         *)
(* (Member), as long as every entry is in its own chain and no key is      *)
(* there twice (TableOK).  Each operation on chains is shown once to keep  *)
(* TableOK and to do to the set what the operation is for; the invariants  *)
(* then hardly look into chains again.                                     *)
(***************************************************************************)
EXTENDS HashTable, SharedLemmas

-------------------------------------------------------------------------------
(* Tables as sets of entries                                               *)

Has(c, e) == \E i \in DOMAIN c : c[i] = e

ChainOK(c, b, n) ==
  /\ c \in Seq(Entry)
  /\ \A i \in DOMAIN c :
       /\ Index(c[i].key, n) = b
       /\ \A j \in DOMAIN c : c[i].key = c[j].key => i = j

TableOK(t, n) ==
  /\ n \in Nat \ {0}
  /\ t \in [0..(n - 1) -> Seq(Entry)]
  /\ \A b \in 0..(n - 1) : ChainOK(t[b], b, n)

Member(t, n, e) == Has(t[Index(e.key, n)], e)

\* A hash has a bucket in every table.
LEMMA IndexType ==
  ASSUME NEW k \in Keys, NEW n \in Nat \ {0}
  PROVE  Index(k, n) \in 0..(n - 1)
<1>1. PICK h \in Nat : h = Hash[k]
  BY HashTableAssumption
<1>2. h % n \in 0..(n - 1)
  OBVIOUS
<1> QED
  BY <1>1, <1>2 DEF Index

LEMMA EntryType ==
  ASSUME NEW e \in Entry
  PROVE  e.key \in Keys /\ e.val \in Values /\ e = [key |-> e.key, val |-> e.val] /\ e # NULL
<1>1. e.key \in Keys /\ e.val \in Values /\ e = [key |-> e.key, val |-> e.val]
  BY DEF Entry
<1>2. e # NULL
  BY <1>1, HashTableAssumption DEF NULL
<1> QED
  BY <1>1, <1>2

\* Two entries of a table with the same key are one.
LEMMA OneEntry ==
  ASSUME NEW t, NEW n, TableOK(t, n), NEW e \in Entry, NEW x \in Entry,
         Member(t, n, e), Member(t, n, x), e.key = x.key
  PROVE  e = x
<1>1. PICK b : b = Index(e.key, n)
  OBVIOUS
<1>2. b \in 0..(n - 1) /\ b = Index(x.key, n)
  BY <1>1, IndexType, EntryType DEF TableOK
<1>3. ChainOK(t[b], b, n)
  BY <1>2 DEF TableOK
<1>4. Has(t[b], e) /\ Has(t[b], x)
  BY <1>1, <1>2 DEF Member
<1> QED
  BY <1>3, <1>4 DEF ChainOK, Has

\* Where a chain has a key.
LEMMA PositionIs ==
  ASSUME NEW c, NEW b, NEW n, ChainOK(c, b, n), NEW i \in DOMAIN c
  PROVE  At(c, c[i].key) = {i} /\ Position(c, c[i].key) = i
<1>1. At(c, c[i].key) = {i}
  BY DEF At, ChainOK
<1>2. i \in Int
  BY DEF ChainOK
<1>3. \A j \in {i} : i <= j
  BY <1>2
<1> QED
  BY <1>1, <1>3 DEF Position

-------------------------------------------------------------------------------
(* Operations on chains                                                    *)

\* A table differs in one chain, which is in order.
LEMMA OneChain ==
  ASSUME NEW t, NEW n, TableOK(t, n), NEW b \in 0..(n - 1), NEW d, ChainOK(d, b, n)
  PROVE  LET u == [t EXCEPT ![b] = d]
         IN  /\ TableOK(u, n)
             /\ \A x \in Entry : Index(x.key, n) = b => (Member(u, n, x) <=> Has(d, x))
             /\ \A x \in Entry : Index(x.key, n) # b => (Member(u, n, x) <=> Member(t, n, x))
<1> DEFINE u == [t EXCEPT ![b] = d]
<1>1. d \in Seq(Entry) /\ t \in [0..(n - 1) -> Seq(Entry)]
  BY DEF ChainOK, TableOK
<1>2. u \in [0..(n - 1) -> Seq(Entry)] /\ u[b] = d /\ \A a \in 0..(n - 1) : a # b => u[a] = t[a]
  BY <1>1
<1> HIDE DEF u
<1>3. TableOK(u, n)
  BY <1>2 DEF TableOK
<1>4. ASSUME NEW x \in Entry PROVE Index(x.key, n) \in 0..(n - 1)
  BY EntryType, IndexType DEF TableOK
<1>5. /\ \A x \in Entry : Index(x.key, n) = b => (Member(u, n, x) <=> Has(d, x))
      /\ \A x \in Entry : Index(x.key, n) # b => (Member(u, n, x) <=> Member(t, n, x))
  BY <1>2, <1>4 DEF Member
<1> QED
  BY <1>3, <1>5 DEF u

\* An entry becomes the head of a chain.
LEMMA Cons ==
  ASSUME NEW c \in Seq(Entry), NEW e \in Entry
  PROVE  LET d == <<e>> \o c
         IN  /\ d \in Seq(Entry) /\ DOMAIN d = 1..(Len(c) + 1) /\ d[1] = e
             /\ \A i \in 1..(Len(c) + 1) : i # 1 => i - 1 \in 1..Len(c) /\ d[i] = c[i - 1]
             /\ \A i \in 1..Len(c) : i + 1 \in 1..(Len(c) + 1) /\ d[i + 1] = c[i]
<1> DEFINE one == <<e>>
           d == one \o c
<1>1. one \in Seq(Entry) /\ Len(one) = 1 /\ one[1] = e
  OBVIOUS
<1> HIDE DEF one
<1>2. /\ d \in Seq(Entry) /\ Len(d) = Len(one) + Len(c)
      /\ \A i \in 1..(Len(one) + Len(c)) : d[i] = IF i <= Len(one) THEN one[i] ELSE c[i - Len(one)]
  BY <1>1, ConcatProperties
<1> HIDE DEF d
<1>3. Len(c) \in Nat /\ Len(d) = Len(c) + 1 /\ DOMAIN d = 1..Len(d)
  BY <1>1, <1>2, LenProperties
<1>4. \A i \in 1..(Len(c) + 1) : d[i] = IF i <= 1 THEN one[i] ELSE c[i - 1]
  BY <1>1, <1>2, <1>3
<1>5. d[1] = e
  BY <1>1, <1>3, <1>4
<1>6. \A i \in 1..(Len(c) + 1) : i # 1 => i - 1 \in 1..Len(c) /\ d[i] = c[i - 1]
  BY <1>3, <1>4
<1>7. \A i \in 1..Len(c) : i + 1 \in 1..(Len(c) + 1) /\ d[i + 1] = c[i]
  BY <1>3, <1>4
<1> QED
  BY <1>2, <1>3, <1>5, <1>6, <1>7 DEF d, one

\* An entry with a new key is put into a table.
LEMMA Push ==
  ASSUME NEW t, NEW n, TableOK(t, n), NEW e \in Entry,
         \A x \in Entry : Member(t, n, x) => x.key # e.key
  PROVE  LET u == [t EXCEPT ![Index(e.key, n)] = <<e>> \o @]
         IN  TableOK(u, n) /\ \A x \in Entry : Member(u, n, x) <=> (x = e \/ Member(t, n, x))
<1>0. PICK b, c, d : b = Index(e.key, n) /\ c = t[b] /\ d = <<e>> \o c
  OBVIOUS
<1>1. b \in 0..(n - 1) /\ n \in Nat \ {0}
  BY <1>0, EntryType, IndexType DEF TableOK
<1>2. ChainOK(c, b, n) /\ c \in Seq(Entry)
  BY <1>0, <1>1 DEF TableOK, ChainOK
<1>3. /\ d \in Seq(Entry) /\ DOMAIN d = 1..(Len(c) + 1) /\ d[1] = e
      /\ \A i \in 1..(Len(c) + 1) : i # 1 => i - 1 \in 1..Len(c) /\ d[i] = c[i - 1]
      /\ \A i \in 1..Len(c) : i + 1 \in 1..(Len(c) + 1) /\ d[i + 1] = c[i]
  BY <1>0, <1>2, Cons
<1>4. DOMAIN c = 1..Len(c) /\ Len(c) \in Nat
  BY <1>2
<1>5. ASSUME NEW i \in 1..Len(c) PROVE c[i] \in Entry /\ Index(c[i].key, n) = b /\ c[i].key # e.key
  <2>1. c[i] \in Entry /\ Index(c[i].key, n) = b
    BY <1>2, <1>4, ElementOfSeq DEF ChainOK
  <2>2. Member(t, n, c[i])
    BY <1>0, <1>4, <2>1 DEF Member, Has
  <2> QED
    BY <2>1, <2>2
<1>6. ChainOK(d, b, n)
  <2> SUFFICES ASSUME NEW i \in 1..(Len(c) + 1)
               PROVE  /\ Index(d[i].key, n) = b
                      /\ \A j \in 1..(Len(c) + 1) : d[i].key = d[j].key => i = j
    BY <1>3 DEF ChainOK
  <2>1. Index(d[i].key, n) = b
    <3>1. CASE i = 1
      BY <1>0, <1>3, <3>1
    <3>2. CASE i # 1
      BY <1>3, <1>5, <3>2
    <3> QED
      BY <3>1, <3>2
  <2>2. ASSUME NEW j \in 1..(Len(c) + 1), d[i].key = d[j].key PROVE i = j
    <3>1. CASE i = 1
      BY <1>3, <1>5, <2>2, <3>1
    <3>2. CASE j = 1
      BY <1>3, <1>5, <2>2, <3>2
    <3>3. CASE i # 1 /\ j # 1
      <4>1. i - 1 \in 1..Len(c) /\ j - 1 \in 1..Len(c) /\ c[i - 1].key = c[j - 1].key
        BY <1>3, <2>2, <3>3
      <4>2. i - 1 = j - 1
        BY <1>2, <1>4, <4>1 DEF ChainOK
      <4> QED
        BY <4>2
    <3> QED
      BY <3>1, <3>2, <3>3
  <2> QED
    BY <2>1, <2>2
<1>7. \A x : Has(d, x) <=> (x = e \/ Has(c, x))
  <2>1. ASSUME NEW x, Has(d, x) PROVE x = e \/ Has(c, x)
    BY <1>3, <1>4, <2>1 DEF Has
  <2>2. Has(d, e)
    <3>1. 1 \in 1..(Len(c) + 1)
      BY <1>4
    <3> QED
      BY <1>3, <3>1 DEF Has
  <2>3. ASSUME NEW x, Has(c, x) PROVE Has(d, x)
    BY <1>3, <1>4, <2>3 DEF Has
  <2> QED
    BY <2>1, <2>2, <2>3
<1> DEFINE u == [t EXCEPT ![b] = d]
<1>8. u = [t EXCEPT ![Index(e.key, n)] = <<e>> \o @]
  BY <1>0
<1>9. /\ TableOK(u, n)
      /\ \A x \in Entry : Index(x.key, n) = b => (Member(u, n, x) <=> Has(d, x))
      /\ \A x \in Entry : Index(x.key, n) # b => (Member(u, n, x) <=> Member(t, n, x))
  BY <1>1, <1>6, OneChain
<1> HIDE DEF u
<1>10. ASSUME NEW x \in Entry PROVE Member(u, n, x) <=> (x = e \/ Member(t, n, x))
  <2>1. CASE Index(x.key, n) = b
    <3>1. Member(t, n, x) <=> Has(c, x)
      BY <1>0, <2>1 DEF Member
    <3> QED
      BY <1>7, <1>9, <2>1, <3>1
  <2>2. CASE Index(x.key, n) # b
    BY <1>0, <1>9, <2>2
  <2> QED
    BY <2>1, <2>2
<1> QED
  BY <1>8, <1>9, <1>10

\* A key is in a table exactly if a walk down its chain meets it.
LEMMA AtMember ==
  ASSUME NEW t, NEW n, TableOK(t, n), NEW k \in Keys
  PROVE  /\ At(t[Index(k, n)], k) # {} <=> \E x \in Entry : Member(t, n, x) /\ x.key = k
         /\ \A x \in Entry : Member(t, n, x) /\ x.key = k =>
              LET c == t[Index(k, n)]
                  p == Position(c, k)
              IN  p \in 1..Len(c) /\ At(c, k) = {p} /\ c[p] = x
<1>0. PICK b, c : b = Index(k, n) /\ c = t[b]
  OBVIOUS
<1>1. b \in 0..(n - 1)
  BY <1>0, IndexType DEF TableOK
<1>2. ChainOK(c, b, n) /\ c \in Seq(Entry) /\ DOMAIN c = 1..Len(c)
  BY <1>0, <1>1 DEF TableOK, ChainOK
<1>3. ASSUME NEW i \in At(c, k) PROVE \E x \in Entry : Member(t, n, x) /\ x.key = k
  <2>1. i \in DOMAIN c /\ c[i].key = k
    BY <1>3 DEF At
  <2>2. c[i] \in Entry
    BY <1>2, <2>1, ElementOfSeq
  <2>3. Member(t, n, c[i])
    BY <1>0, <2>1 DEF Member, Has
  <2> QED
    BY <2>1, <2>2, <2>3
<1>4. ASSUME NEW x \in Entry, Member(t, n, x), x.key = k
      PROVE  Position(c, k) \in 1..Len(c) /\ At(c, k) = {Position(c, k)} /\ c[Position(c, k)] = x
  <2>1. PICK i \in DOMAIN c : c[i] = x
    BY <1>0, <1>4 DEF Member, Has
  <2>2. At(c, k) = {i} /\ Position(c, k) = i
    BY <1>2, <1>4, <2>1, PositionIs
  <2> QED
    BY <1>2, <2>1, <2>2
<1> QED
  BY <1>0, <1>3, <1>4

\* An entry is taken out of a table.
LEMMA TakeOut ==
  ASSUME NEW t, NEW n, TableOK(t, n), NEW e \in Entry, Member(t, n, e)
  PROVE  LET u == [t EXCEPT ![Index(e.key, n)] = Without(@, Position(@, e.key))]
         IN  TableOK(u, n) /\ \A x \in Entry : Member(u, n, x) <=> (x # e /\ Member(t, n, x))
<1>0. PICK b, c, p, d : b = Index(e.key, n) /\ c = t[b] /\ p = Position(c, e.key) /\ d = Without(c, p)
  OBVIOUS
<1>1. b \in 0..(n - 1) /\ n \in Nat \ {0} /\ e.key \in Keys
  BY <1>0, EntryType, IndexType DEF TableOK
<1>2. ChainOK(c, b, n) /\ c \in Seq(Entry) /\ DOMAIN c = 1..Len(c) /\ Len(c) \in Nat
  BY <1>0, <1>1 DEF TableOK, ChainOK
<1>3. p \in 1..Len(c) /\ c[p] = e
  BY <1>0, <1>1, AtMember
<1>4. /\ d \in Seq(Entry) /\ Len(d) = Len(c) - 1
      /\ \A i \in 1..(Len(c) - 1) : d[i] = c[IF i < p THEN i ELSE i + 1]
  <2>1. d = SubSeq(c, 1, p - 1) \o SubSeq(c, p + 1, Len(c))
    BY <1>0 DEF Without
  <2> QED
    BY <1>2, <1>3, <2>1, CutOut, Zenon
<1>5. DOMAIN d = 1..(Len(c) - 1)
  BY <1>4, LenProperties
<1>6. ASSUME NEW i \in 1..(Len(c) - 1)
      PROVE  \E m \in 1..Len(c) : d[i] = c[m] /\ m # p /\ (i < p => m = i) /\ (~(i < p) => m = i + 1)
  <2>1. CASE i < p
    BY <1>3, <1>4, <2>1
  <2>2. CASE ~(i < p)
    <3>1. i + 1 \in 1..Len(c) /\ i + 1 # p /\ d[i] = c[i + 1]
      BY <1>2, <1>3, <1>4, <2>2
    <3> QED
      BY <2>2, <3>1
  <2> QED
    BY <2>1, <2>2
<1>7. ASSUME NEW m \in 1..Len(c), m # p PROVE \E i \in 1..(Len(c) - 1) : d[i] = c[m]
  <2>1. CASE m < p
    <3>1. m \in 1..(Len(c) - 1)
      BY <1>2, <1>3, <2>1
    <3>2. d[m] = c[m]
      BY <1>4, <2>1, <3>1
    <3> QED
      BY <3>1, <3>2
  <2>2. CASE p < m
    <3>1. m - 1 \in 1..(Len(c) - 1) /\ ~(m - 1 < p) /\ (m - 1) + 1 = m
      BY <1>2, <1>3, <2>2
    <3>2. d[m - 1] = c[m]
      BY <1>4, <3>1
    <3> QED
      BY <3>1, <3>2
  <2> QED
    BY <1>2, <1>3, <1>7, <2>1, <2>2
<1>8. ChainOK(d, b, n)
  <2> SUFFICES ASSUME NEW i \in 1..(Len(c) - 1)
               PROVE  /\ Index(d[i].key, n) = b
                      /\ \A j \in 1..(Len(c) - 1) : d[i].key = d[j].key => i = j
    BY <1>4, <1>5 DEF ChainOK
  <2>1. PICK m \in 1..Len(c) : d[i] = c[m] /\ (i < p => m = i) /\ (~(i < p) => m = i + 1)
    BY <1>6
  <2>2. Index(d[i].key, n) = b
    BY <1>2, <2>1 DEF ChainOK
  <2>3. ASSUME NEW j \in 1..(Len(c) - 1), d[i].key = d[j].key PROVE i = j
    <3>1. PICK l \in 1..Len(c) : d[j] = c[l] /\ (j < p => l = j) /\ (~(j < p) => l = j + 1)
      BY <1>6
    <3>2. m = l
      BY <1>2, <2>1, <2>3, <3>1 DEF ChainOK
    <3> QED
      BY <1>2, <1>3, <2>1, <3>1, <3>2
  <2> QED
    BY <2>2, <2>3
<1>9. \A x : Has(d, x) <=> (x # e /\ Has(c, x))
  <2>1. ASSUME NEW x, Has(d, x) PROVE x # e /\ Has(c, x)
    <3>1. PICK i \in 1..(Len(c) - 1) : d[i] = x
      BY <1>5, <2>1 DEF Has
    <3>2. PICK m \in 1..Len(c) : x = c[m] /\ m # p
      BY <1>6, <3>1
    <3>3. x # e
      BY <1>2, <1>3, <3>2 DEF ChainOK
    <3> QED
      BY <1>2, <3>2, <3>3 DEF Has
  <2>2. ASSUME NEW x, Has(c, x), x # e PROVE Has(d, x)
    <3>1. PICK m \in 1..Len(c) : x = c[m] /\ m # p
      BY <1>2, <1>3, <2>2 DEF Has
    <3> QED
      BY <1>5, <1>7, <3>1 DEF Has
  <2> QED
    BY <2>1, <2>2
<1> DEFINE u == [t EXCEPT ![b] = d]
<1>10. u = [t EXCEPT ![Index(e.key, n)] = Without(@, Position(@, e.key))]
  BY <1>0
<1>11. /\ TableOK(u, n)
       /\ \A x \in Entry : Index(x.key, n) = b => (Member(u, n, x) <=> Has(d, x))
       /\ \A x \in Entry : Index(x.key, n) # b => (Member(u, n, x) <=> Member(t, n, x))
  BY <1>1, <1>8, OneChain
<1> HIDE DEF u
<1>12. ASSUME NEW x \in Entry PROVE Member(u, n, x) <=> (x # e /\ Member(t, n, x))
  <2>1. CASE Index(x.key, n) = b
    <3>1. Member(t, n, x) <=> Has(c, x)
      BY <1>0, <2>1 DEF Member
    <3> QED
      BY <1>9, <1>11, <2>1, <3>1
  <2>2. CASE Index(x.key, n) # b
    BY <1>0, <1>11, <2>2
  <2> QED
    BY <2>1, <2>2
<1> QED
  BY <1>10, <1>11, <1>12

\* The value of an entry is replaced where it is.
LEMMA Replace ==
  ASSUME NEW t, NEW n, TableOK(t, n), NEW e \in Entry, Member(t, n, e), NEW v \in Values
  PROVE  LET u == [t EXCEPT ![Index(e.key, n)][Position(t[Index(e.key, n)], e.key)].val = v]
             f == [key |-> e.key, val |-> v]
         IN  TableOK(u, n) /\ \A x \in Entry : Member(u, n, x) <=> (x = f \/ (x # e /\ Member(t, n, x)))
<1>0. PICK b, c, p, f, d : /\ b = Index(e.key, n) /\ c = t[b] /\ p = Position(c, e.key)
                           /\ f = [key |-> e.key, val |-> v] /\ d = [c EXCEPT ![p] = f]
  OBVIOUS
<1>1. b \in 0..(n - 1) /\ n \in Nat \ {0} /\ e.key \in Keys /\ f \in Entry /\ f.key = e.key
  BY <1>0, EntryType, IndexType DEF TableOK, Entry
<1>2. ChainOK(c, b, n) /\ c \in Seq(Entry) /\ DOMAIN c = 1..Len(c) /\ Len(c) \in Nat
  BY <1>0, <1>1 DEF TableOK, ChainOK
<1>3. p \in 1..Len(c) /\ c[p] = e
  BY <1>0, <1>1, AtMember
<1>4. d \in Seq(Entry) /\ DOMAIN d = 1..Len(c) /\ d[p] = f /\ \A i \in 1..Len(c) : i # p => d[i] = c[i]
  BY <1>0, <1>1, <1>2, <1>3, ExceptSeq
<1>5. \A i \in 1..Len(c) : d[i].key = c[i].key
  BY <1>1, <1>3, <1>4
<1>6. ChainOK(d, b, n)
  BY <1>2, <1>4, <1>5 DEF ChainOK
<1>7. \A x : Has(d, x) <=> (x = f \/ (x # e /\ Has(c, x)))
  <2>1. ASSUME NEW x, Has(d, x) PROVE x = f \/ (x # e /\ Has(c, x))
    <3>1. PICK i \in 1..Len(c) : d[i] = x
      BY <1>4, <2>1 DEF Has
    <3>2. i # p => c[i].key # e.key
      BY <1>2, <1>3, <3>1 DEF ChainOK
    <3> QED
      BY <1>2, <1>4, <3>1, <3>2 DEF Has
  <2>2. Has(d, f)
    BY <1>3, <1>4 DEF Has
  <2>3. ASSUME NEW x, x # e, Has(c, x) PROVE Has(d, x)
    BY <1>2, <1>3, <1>4, <2>3 DEF Has
  <2> QED
    BY <2>1, <2>2, <2>3
<1> DEFINE u == [t EXCEPT ![b] = d]
<1>8. u = [t EXCEPT ![Index(e.key, n)][Position(t[Index(e.key, n)], e.key)].val = v]
  <2>1. [c[p] EXCEPT !.val = v] = f
    BY <1>0, <1>3, EntryType
  <2> QED
    BY <1>0, <2>1
<1>9. /\ TableOK(u, n)
      /\ \A x \in Entry : Index(x.key, n) = b => (Member(u, n, x) <=> Has(d, x))
      /\ \A x \in Entry : Index(x.key, n) # b => (Member(u, n, x) <=> Member(t, n, x))
  BY <1>1, <1>6, OneChain
<1> HIDE DEF u
<1>10. ASSUME NEW x \in Entry PROVE Member(u, n, x) <=> (x = f \/ (x # e /\ Member(t, n, x)))
  <2>1. CASE Index(x.key, n) = b
    <3>1. Member(t, n, x) <=> Has(c, x)
      BY <1>0, <2>1 DEF Member
    <3> QED
      BY <1>7, <1>9, <2>1, <3>1
  <2>2. CASE Index(x.key, n) # b
    BY <1>0, <1>1, <1>9, <2>2
  <2> QED
    BY <2>1, <2>2
<1> QED
  BY <1>0, <1>8, <1>9, <1>10

-------------------------------------------------------------------------------
(* Growing                                                                 *)

Tables(n) == [0..(n - 1) -> Seq(Entry)]

Pushed(t, e, n) == [t EXCEPT ![Index(e.key, n)] = <<e>> \o @]

LEMMA PushedType ==
  ASSUME NEW n \in Nat \ {0}, NEW t \in Tables(n), NEW e \in Entry
  PROVE  Pushed(t, e, n) \in Tables(n)
<1>0. PICK b : b = Index(e.key, n)
  OBVIOUS
<1>1. b \in 0..(n - 1)
  BY <1>0, EntryType, IndexType
<1>2. t[b] \in Seq(Entry)
  BY <1>1 DEF Tables
<1>3. PICK d : d = <<e>> \o t[b]
  OBVIOUS
<1>4. d \in Seq(Entry)
  BY <1>2, <1>3, Cons
<1>5. [t EXCEPT ![b] = d] \in Tables(n)
  BY <1>1, <1>4 DEF Tables
<1> QED
  BY <1>0, <1>3, <1>5 DEF Pushed

\* The rounds of the inner loop of ht_resize.
Puts(f, c, t, n) == f = [i \in 0..Len(c) |-> IF i = 0 THEN t ELSE Pushed(f[i - 1], c[i], n)]

LEMMA PutsRun ==
  ASSUME NEW n \in Nat \ {0}, NEW t \in Tables(n), NEW c \in Seq(Entry)
  PROVE  \E f : Puts(f, c, t, n)
<1>0. PICK m \in Nat : m = Len(c)
  OBVIOUS
<1> DEFINE T == Tables(n)
           g == [i \in 1..m |-> [x \in T |-> Pushed(x, c[i], n)]]
<1>1. \A i \in 1..m : c[i] \in Entry
  BY <1>0, ElementOfSeq
<1>2. \A i \in 1..m, x \in T : Pushed(x, c[i], n) \in T
  BY <1>1, PushedType
<1> HIDE DEF T
<1>3. g \in [1..m -> [T -> T]]
  BY <1>2
<1>4. \A i \in 1..m, x \in T : g[i][x] = Pushed(x, c[i], n)
  OBVIOUS
<1>5. t \in T
  BY DEF T
<1> HIDE DEF g
<1>6. PICK f : f \in [0..m -> T] /\ f[0] = t /\ \A i \in 1..m : f[i] = g[i][f[i - 1]]
  <2>1. Rounds(g, m, T) /\ m \in Nat
    BY <1>0, <1>3 DEF Rounds
  <2>2. \E f : Trace(f, g, m, T, t)
    BY <1>5, <2>1, LoopRuns
  <2> QED
    BY <2>2 DEF Trace
<1>7. ASSUME NEW i \in 1..m PROVE f[i] = Pushed(f[i - 1], c[i], n)
  <2>1. f[i - 1] \in T
    BY <1>6
  <2> QED
    BY <1>4, <1>6, <2>1
<1>8. \A i \in 0..m : f[i] = IF i = 0 THEN t ELSE Pushed(f[i - 1], c[i], n)
  BY <1>6, <1>7
<1>9. f = [i \in 0..m |-> IF i = 0 THEN t ELSE Pushed(f[i - 1], c[i], n)]
  BY <1>6, <1>8
<1> QED
  BY <1>0, <1>9 DEF Puts

\* The inner loop puts the entries of a chain into a table that has none of
\* their keys.
LEMMA RehashOK ==
  ASSUME NEW n, NEW t, TableOK(t, n), NEW c \in Seq(Entry),
         \A i, j \in DOMAIN c : c[i].key = c[j].key => i = j,
         \A x \in Entry : Member(t, n, x) => \A i \in DOMAIN c : c[i].key # x.key
  PROVE  LET u == Rehash(c, t, n)
         IN  TableOK(u, n) /\ \A x \in Entry : Member(u, n, x) <=> (Member(t, n, x) \/ Has(c, x))
<1>0. PICK m : m = Len(c)
  OBVIOUS
<1>1. m \in Nat /\ DOMAIN c = 1..m /\ (\A i \in 1..m : c[i] \in Entry) /\ n \in Nat \ {0} /\ t \in Tables(n)
  BY <1>0, ElementOfSeq DEF TableOK, Tables
<1> DEFINE f == CHOOSE e : Puts(e, c, t, n)
<1>2. Rehash(c, t, n) = f[m]
  BY <1>0 DEF Rehash, Puts, Pushed
<1>3. Puts(f, c, t, n)
  BY <1>1, PutsRun
<1> HIDE DEF f
<1>4. f[0] = t /\ \A i \in 1..m : f[i] = Pushed(f[i - 1], c[i], n)
  BY <1>0, <1>1, <1>3 DEF Puts
<1> DEFINE Good(k) == /\ TableOK(f[k], n)
                      /\ \A x \in Entry : Member(f[k], n, x) <=> (Member(t, n, x) \/ \E i \in 1..k : c[i] = x)
           P == {k \in Nat : k <= m => Good(k)}
<1>5. 0 \in P
  BY <1>4
<1>6. ASSUME NEW k \in Nat, k \in P PROVE k + 1 \in P
  <2> SUFFICES ASSUME k + 1 <= m PROVE Good(k + 1)
    OBVIOUS
  <2>0. PICK e, s, u : e = c[k + 1] /\ s = f[k] /\ u = f[k + 1]
    OBVIOUS
  <2>1. Good(k) /\ k + 1 \in 1..m /\ (k + 1) - 1 = k
    BY <1>1, <1>6
  <2>2. e \in Entry /\ u = Pushed(s, e, n)
    BY <1>1, <1>4, <2>0, <2>1
  <2>3. TableOK(s, n) /\ \A x \in Entry : Member(s, n, x) <=> (Member(t, n, x) \/ \E i \in 1..k : c[i] = x)
    BY <2>0, <2>1
  <2>4. ASSUME NEW x \in Entry, Member(s, n, x) PROVE x.key # e.key
    <3>1. CASE Member(t, n, x)
      BY <1>1, <2>0, <2>1, <3>1
    <3>2. ASSUME NEW i \in 1..k, c[i] = x PROVE x.key # e.key
      <4>1. i \in 1..m /\ i # k + 1
        BY <1>1, <2>1
      <4> QED
        BY <1>1, <2>0, <2>1, <3>2, <4>1
    <3> QED
      BY <2>3, <2>4, <3>1, <3>2
  <2>5. TableOK(u, n) /\ \A x \in Entry : Member(u, n, x) <=> (x = e \/ Member(s, n, x))
    BY <2>2, <2>3, <2>4, Push DEF Pushed
  <2>6. \A x : (\E i \in 1..(k + 1) : c[i] = x) <=> (x = e \/ \E i \in 1..k : c[i] = x)
    BY <2>0
  <2> QED
    BY <2>0, <2>3, <2>5, <2>6
<1> HIDE DEF P
<1>7. m \in P
  BY <1>1, <1>5, <1>6, NatInductionSet
<1>8. Good(m)
  BY <1>1, <1>7 DEF P
<1> QED
  BY <1>1, <1>2, <1>8 DEF Has

LEMMA RehashType ==
  ASSUME NEW n \in Nat \ {0}, NEW t \in Tables(n), NEW c \in Seq(Entry)
  PROVE  Rehash(c, t, n) \in Tables(n)
<1>0. PICK m : m = Len(c)
  OBVIOUS
<1>1. m \in Nat /\ \A i \in 1..m : c[i] \in Entry
  BY <1>0, ElementOfSeq
<1> DEFINE f == CHOOSE e : Puts(e, c, t, n)
<1>2. Rehash(c, t, n) = f[m]
  BY <1>0 DEF Rehash, Puts, Pushed
<1>3. Puts(f, c, t, n)
  BY PutsRun
<1> HIDE DEF f
<1>4. f[0] = t /\ \A i \in 1..m : f[i] = Pushed(f[i - 1], c[i], n)
  BY <1>0, <1>1, <1>3 DEF Puts
<1> DEFINE P == {k \in Nat : k <= m => f[k] \in Tables(n)}
<1>5. 0 \in P
  BY <1>4
<1>6. ASSUME NEW k \in Nat, k \in P PROVE k + 1 \in P
  <2> SUFFICES ASSUME k + 1 <= m PROVE f[k + 1] \in Tables(n)
    OBVIOUS
  <2>1. f[k] \in Tables(n) /\ k + 1 \in 1..m /\ (k + 1) - 1 = k
    BY <1>1, <1>6
  <2>2. f[k + 1] = Pushed(f[k], c[k + 1], n) /\ c[k + 1] \in Entry
    BY <1>1, <1>4, <2>1
  <2> QED
    BY <2>1, <2>2, PushedType
<1> HIDE DEF P
<1>7. m \in P
  BY <1>1, <1>5, <1>6, NatInductionSet
<1> QED
  BY <1>1, <1>2, <1>7 DEF P

\* The rounds of the outer loop of ht_resize.
EmptyTable(n) == [j \in 0..(n - 1) |-> <<>>]

Moves(f, t, old, n) == f = [i \in 0..old |-> IF i = 0 THEN EmptyTable(n) ELSE Rehash(t[i - 1], f[i - 1], n)]

LEMMA EmptyOK ==
  ASSUME NEW n \in Nat \ {0}
  PROVE  TableOK(EmptyTable(n), n) /\ EmptyTable(n) \in Tables(n) /\ \A x \in Entry : ~Member(EmptyTable(n), n, x)
<1>1. EmptyTable(n) \in Tables(n) /\ \A b \in 0..(n - 1) : EmptyTable(n)[b] = <<>>
  BY DEF EmptyTable, Tables
<1>2. \A b : ChainOK(<<>>, b, n)
  BY DEF ChainOK
<1>3. TableOK(EmptyTable(n), n)
  BY <1>1, <1>2 DEF TableOK, Tables
<1>4. ASSUME NEW x \in Entry PROVE ~Member(EmptyTable(n), n, x)
  <2>1. Index(x.key, n) \in 0..(n - 1)
    BY EntryType, IndexType
  <2>2. \A e : ~Has(<<>>, e)
    BY DEF Has
  <2> QED
    BY <1>1, <2>1, <2>2 DEF Member
<1> QED
  BY <1>1, <1>3, <1>4

LEMMA MovesRun ==
  ASSUME NEW n \in Nat \ {0}, NEW old \in Nat, NEW t \in Tables(old)
  PROVE  \E f : Moves(f, t, old, n)
<1> DEFINE T == Tables(n)
           g == [i \in 1..old |-> [x \in T |-> Rehash(t[i - 1], x, n)]]
<1>1. \A i \in 1..old : t[i - 1] \in Seq(Entry)
  BY DEF Tables
<1>2. \A i \in 1..old, x \in T : Rehash(t[i - 1], x, n) \in T
  BY <1>1, RehashType
<1>3. EmptyTable(n) \in T
  BY EmptyOK
<1> HIDE DEF T
<1>4. g \in [1..old -> [T -> T]]
  BY <1>2
<1>5. \A i \in 1..old, x \in T : g[i][x] = Rehash(t[i - 1], x, n)
  OBVIOUS
<1> HIDE DEF g
<1>6. PICK f : f \in [0..old -> T] /\ f[0] = EmptyTable(n) /\ \A i \in 1..old : f[i] = g[i][f[i - 1]]
  <2>1. Rounds(g, old, T)
    BY <1>4 DEF Rounds
  <2>2. \E f : Trace(f, g, old, T, EmptyTable(n))
    BY <1>3, <2>1, LoopRuns
  <2> QED
    BY <2>2 DEF Trace
<1>7. ASSUME NEW i \in 1..old PROVE f[i] = Rehash(t[i - 1], f[i - 1], n)
  <2>1. f[i - 1] \in T
    BY <1>6
  <2> QED
    BY <1>5, <1>6, <2>1
<1>8. \A i \in 0..old : f[i] = IF i = 0 THEN EmptyTable(n) ELSE Rehash(t[i - 1], f[i - 1], n)
  BY <1>6, <1>7
<1>9. f = [i \in 0..old |-> IF i = 0 THEN EmptyTable(n) ELSE Rehash(t[i - 1], f[i - 1], n)]
  BY <1>6, <1>8
<1> QED
  BY <1>9 DEF Moves

\* ht_resize: the new table has the entries of the old one, each in the chain
\* where a lookup will search for it.
LEMMA ResizeOK ==
  ASSUME NEW n \in Nat \ {0}, NEW old, NEW t, TableOK(t, old)
  PROVE  LET u == ht_resize(t, old, n)
         IN  TableOK(u, n) /\ \A x \in Entry : Member(u, n, x) <=> Member(t, old, x)
<1>1. old \in Nat \ {0} /\ t \in Tables(old)
  BY DEF TableOK, Tables
<1> DEFINE f == CHOOSE e : Moves(e, t, old, n)
<1>2. ht_resize(t, old, n) = f[old]
  BY DEF ht_resize, Moves, EmptyTable
<1>3. Moves(f, t, old, n)
  BY <1>1, MovesRun
<1> HIDE DEF f
<1>4. f[0] = EmptyTable(n) /\ \A i \in 1..old : f[i] = Rehash(t[i - 1], f[i - 1], n)
  BY <1>1, <1>3 DEF Moves
<1> DEFINE Good(k) == /\ TableOK(f[k], n)
                      /\ \A x \in Entry : Member(f[k], n, x) <=> (Member(t, old, x) /\ Index(x.key, old) < k)
           P == {k \in Nat : k <= old => Good(k)}
<1>5. ASSUME NEW x \in Entry PROVE Index(x.key, old) \in 0..(old - 1)
  BY <1>1, EntryType, IndexType
<1>6. 0 \in P
  <2>1. \A x \in Entry : ~(Index(x.key, old) < 0)
    BY <1>5
  <2> QED
    BY <1>4, <2>1, EmptyOK
<1>7. ASSUME NEW k \in Nat, k \in P PROVE k + 1 \in P
  <2> SUFFICES ASSUME k + 1 <= old PROVE Good(k + 1)
    OBVIOUS
  <2>0. PICK c, s, u : c = t[k] /\ s = f[k] /\ u = f[k + 1]
    OBVIOUS
  <2>1. Good(k) /\ k + 1 \in 1..old /\ (k + 1) - 1 = k /\ k \in 0..(old - 1)
    BY <1>1, <1>7
  <2>2. u = Rehash(c, s, n)
    BY <1>4, <2>0, <2>1
  <2>3. ChainOK(c, k, old) /\ c \in Seq(Entry)
    BY <2>0, <2>1 DEF TableOK, ChainOK
  <2>4. TableOK(s, n) /\ \A x \in Entry : Member(s, n, x) <=> (Member(t, old, x) /\ Index(x.key, old) < k)
    BY <2>0, <2>1
  <2>5. \A i, j \in DOMAIN c : c[i].key = c[j].key => i = j
    BY <2>3 DEF ChainOK
  <2>6. ASSUME NEW x \in Entry, Member(s, n, x), NEW i \in DOMAIN c PROVE c[i].key # x.key
    <3>1. Index(c[i].key, old) = k
      BY <2>3 DEF ChainOK
    <3>2. Index(x.key, old) < k /\ Index(x.key, old) \in Int
      BY <1>5, <2>4, <2>6
    <3> QED
      BY <3>1, <3>2
  <2>7. TableOK(u, n) /\ \A x \in Entry : Member(u, n, x) <=> (Member(s, n, x) \/ Has(c, x))
    BY <2>2, <2>3, <2>4, <2>5, <2>6, RehashOK
  <2>8. ASSUME NEW x \in Entry PROVE Has(c, x) <=> (Member(t, old, x) /\ Index(x.key, old) = k)
    BY <2>0, <2>3 DEF Member, Has, ChainOK
  <2>9. ASSUME NEW x \in Entry PROVE Index(x.key, old) < k + 1 <=> (Index(x.key, old) < k \/ Index(x.key, old) = k)
    BY <1>5
  <2> QED
    BY <2>0, <2>4, <2>7, <2>8, <2>9
<1> HIDE DEF P
<1>8. old \in P
  BY <1>1, <1>6, <1>7, NatInductionSet
<1>9. Good(old)
  BY <1>1, <1>8 DEF P
<1>10. \A x \in Entry : Index(x.key, old) < old
  BY <1>1, <1>5
<1> QED
  BY <1>2, <1>9, <1>10

-------------------------------------------------------------------------------
(* The store: the table, its count and its size                            *)

\* The keys of a table.
Held(t, n) == {k \in Keys : \E x \in Entry : Member(t, n, x) /\ x.key = k}

\* The count is right, and the table has grown by doubling, no further than
\* the keys there are can make it.
StoreOK ==
  /\ TableOK(table, size) /\ size >= 2
  /\ IsFiniteSet(Held(table, size)) /\ used = Cardinality(Held(table, size))
  /\ 4 * used <= 3 * size
  /\ \E n \in Nat : /\ size = InitialSize * 2 ^ n
                    /\ n = 0 \/ (IsFiniteSet(Keys) => 8 * Cardinality(Keys) > 3 * size)

LEMMA StoreInit == Init => StoreOK
<1> SUFFICES ASSUME Init PROVE StoreOK
  OBVIOUS
<1>1. table = EmptyTable(size) /\ size = InitialSize /\ used = 0
  BY DEF Init, ht_create, EmptyTable
<1>2. size \in Nat \ {0} /\ size >= 2
  BY <1>1, HashTableAssumption
<1>3. TableOK(table, size) /\ Held(table, size) = {}
  BY <1>1, <1>2, EmptyOK DEF Held
<1>4. IsFiniteSet(Held(table, size)) /\ used = Cardinality(Held(table, size))
  BY <1>1, <1>3, FS_EmptySet
<1>5. 0 \in Nat /\ size = InitialSize * 2 ^ 0
  BY <1>1, <1>2
<1>6. 4 * used <= 3 * size
  BY <1>1, <1>2
<1> QED
  BY <1>2, <1>3, <1>4, <1>5, <1>6 DEF StoreOK

\* The count of a store, and what it means for the numbers of buckets.
LEMMA StoreTypes ==
  ASSUME StoreOK
  PROVE  TableOK(table, size) /\ size \in Nat /\ size >= 2 /\ used \in Nat /\ table \in [0..(size - 1) -> Seq(Entry)]
BY FS_CardinalityType DEF StoreOK, TableOK

\* An existing entry gets a new value: the count and the size stay.
LEMMA SetFound ==
  ASSUME StoreOK, NEW k \in Keys, NEW v \in Values, At(Chain(k), k) # {},
         table' = [table EXCEPT ![Index(k, size)][Position(Chain(k), k)].val = v], UNCHANGED <<size, used>>
  PROVE  /\ StoreOK'
         /\ \A x \in Entry : Member(table', size', x) <=>
              (x = [key |-> k, val |-> v] \/ (x.key # k /\ Member(table, size, x)))
<1>1. PICK e \in Entry : Member(table, size, e) /\ e.key = k
  BY AtMember DEF StoreOK, Chain
<1>2. PICK t, n, u, f : t = table /\ n = size /\ u = table' /\ f = [key |-> k, val |-> v]
  OBVIOUS
<1>3. TableOK(u, n) /\ \A x \in Entry : Member(u, n, x) <=> (x = f \/ (x # e /\ Member(t, n, x)))
  <2>1. u = [t EXCEPT ![Index(e.key, n)][Position(t[Index(e.key, n)], e.key)].val = v]
    BY <1>1, <1>2 DEF Chain
  <2>2. TableOK(t, n) /\ Member(t, n, e) /\ f = [key |-> e.key, val |-> v]
    BY <1>1, <1>2 DEF StoreOK
  <2> QED
    BY <2>1, <2>2, Replace
<1>4. ASSUME NEW x \in Entry PROVE Member(u, n, x) <=> (x = f \/ (x.key # k /\ Member(t, n, x)))
  <2>1. Member(t, n, x) => (x # e <=> x.key # k)
    BY <1>1, <1>2, OneEntry DEF StoreOK
  <2> QED
    BY <1>3, <2>1
<1>5. f \in Entry /\ f.key = k
  BY <1>2 DEF Entry
<1>6. Held(u, n) = Held(t, n)
  <2>1. ASSUME NEW a \in Keys PROVE a \in Held(u, n) <=> a \in Held(t, n)
    BY <1>1, <1>2, <1>4, <1>5 DEF Held
  <2> QED
    BY <2>1 DEF Held
<1>7. StoreOK'
  BY <1>2, <1>3, <1>6 DEF StoreOK
<1> QED
  BY <1>2, <1>4, <1>7

\* The numbers of a store with one more key, after it has grown if need be.
LEMMA Grows ==
  ASSUME StoreOK, NEW k \in Keys, k \notin Held(table, size), used' = used + 1,
         size' = (IF NeedsResize(used') THEN 2 * size ELSE size),
         TableOK(table', size'), Held(table', size') = Held(table, size) \cup {k}
  PROVE  StoreOK'
<1>1. used \in Nat /\ size \in Nat /\ size >= 2 /\ 4 * used <= 3 * size
  BY StoreTypes DEF StoreOK
<1>2. IsFiniteSet(Held(table', size')) /\ used' = Cardinality(Held(table', size'))
  BY FS_AddElement DEF StoreOK
<1>3. size' >= 2 /\ 4 * used' <= 3 * size'
  <2>1. CASE 4 * (used + 1) > 3 * size
    BY <1>1, <2>1 DEF NeedsResize
  <2>2. CASE ~(4 * (used + 1) > 3 * size)
    BY <1>1, <2>2 DEF NeedsResize
  <2> QED
    BY <2>1, <2>2
<1>4. PICK n \in Nat : /\ size = InitialSize * 2 ^ n
                       /\ n = 0 \/ (IsFiniteSet(Keys) => 8 * Cardinality(Keys) > 3 * size)
  BY DEF StoreOK
<1>5. CASE NeedsResize(used')
  <2>1. size' = InitialSize * 2 ^ (n + 1)
    <3>1. PICK p : p = 2 ^ n
      OBVIOUS
    <3>2. p \in Nat /\ 2 ^ (n + 1) = 2 * p
      BY <1>4, <3>1, Doubling
    <3> QED
      BY <1>4, <1>5, <3>1, <3>2, HashTableAssumption
  <2>2. ASSUME IsFiniteSet(Keys) PROVE 8 * Cardinality(Keys) > 3 * size'
    <3>1. Cardinality(Keys) \in Nat /\ used' <= Cardinality(Keys)
      <4>1. Held(table', size') \subseteq Keys
        BY DEF Held
      <4> QED
        BY <1>2, <2>2, <4>1, FS_Subset, FS_CardinalityType
    <3>2. 4 * used' > 3 * size /\ size' = 2 * size /\ used' \in Nat
      BY <1>1, <1>5 DEF NeedsResize
    <3> QED
      BY <1>1, <3>1, <3>2
  <2>3. n + 1 \in Nat
    BY <1>4
  <2> QED
    BY <1>2, <1>3, <2>1, <2>2, <2>3 DEF StoreOK
<1>6. CASE ~NeedsResize(used')
  <2>1. size' = size
    BY <1>6
  <2> QED
    BY <1>2, <1>3, <1>4, <2>1 DEF StoreOK
<1> QED
  BY <1>5, <1>6

\* A new entry is added, and the table grows if need be.
LEMMA SetNew ==
  ASSUME StoreOK, NEW k \in Keys, NEW v \in Values, At(Chain(k), k) = {}, used' = used + 1,
         NEW grown, grown = [table EXCEPT ![Index(k, size)] = <<[key |-> k, val |-> v]>> \o @],
         IF NeedsResize(used') THEN size' = 2 * size /\ table' = ht_resize(grown, size, 2 * size)
                               ELSE size' = size /\ table' = grown
  PROVE  /\ StoreOK'
         /\ \A x \in Entry : Member(table', size', x) <=>
              (x = [key |-> k, val |-> v] \/ (x.key # k /\ Member(table, size, x)))
<1>1. PICK t, n, f : t = table /\ n = size /\ f = [key |-> k, val |-> v]
  OBVIOUS
<1>2. TableOK(t, n) /\ n \in Nat /\ n >= 2 /\ f \in Entry /\ f.key = k
  BY <1>1, StoreTypes DEF Entry
<1>3. \A x \in Entry : Member(t, n, x) => x.key # k
  <2>1. At(t[Index(k, n)], k) = {}
    BY <1>1 DEF Chain
  <2> QED
    BY <1>2, <2>1, AtMember
<1>4. TableOK(grown, n) /\ \A x \in Entry : Member(grown, n, x) <=> (x = f \/ Member(t, n, x))
  <2>1. grown = Pushed(t, f, n)
    BY <1>1, <1>2 DEF Pushed
  <2>2. \A x \in Entry : Member(t, n, x) => x.key # f.key
    BY <1>2, <1>3
  <2>3. /\ TableOK(Pushed(t, f, n), n)
        /\ \A x \in Entry : Member(Pushed(t, f, n), n, x) <=> (x = f \/ Member(t, n, x))
    BY <1>2, <2>2, Push DEF Pushed
  <2> QED
    BY <2>1, <2>3
<1>5. TableOK(table', size') /\ \A x \in Entry : Member(table', size', x) <=> (x = f \/ Member(t, n, x))
  <2>1. CASE NeedsResize(used')
    <3>1. 2 * n \in Nat \ {0}
      BY <1>2
    <3>2. size' = 2 * n /\ table' = ht_resize(grown, n, 2 * n)
      BY <1>1, <2>1
    <3>3. PICK m, u : m = 2 * n /\ u = ht_resize(grown, n, m)
      OBVIOUS
    <3>4. TableOK(u, m) /\ \A x \in Entry : Member(u, m, x) <=> Member(grown, n, x)
      <4>1. m \in Nat \ {0} /\ TableOK(grown, n)
        BY <1>4, <3>1, <3>3
      <4> QED
        BY <3>3, <4>1, ResizeOK, Zenon
    <3> QED
      BY <1>4, <3>2, <3>3, <3>4
  <2>2. CASE ~NeedsResize(used')
    BY <1>1, <1>4, <2>2
  <2> QED
    BY <2>1, <2>2
<1>6. k \notin Held(table, size)
  BY <1>1, <1>3 DEF Held
<1>7. Held(table', size') = Held(table, size) \cup {k}
  <2>1. ASSUME NEW a \in Keys PROVE a \in Held(table', size') <=> (a = k \/ a \in Held(t, n))
    BY <1>2, <1>5 DEF Held
  <2> QED
    BY <1>1, <2>1 DEF Held
<1>8. StoreOK'
  BY <1>5, <1>6, <1>7, Grows
<1> QED
  BY <1>1, <1>3, <1>5, <1>8

\* An entry is unlinked.
LEMMA UnlinkOK ==
  ASSUME StoreOK, NEW e \in Entry, Member(table, size, e), Unlink(e.key), size' = size
  PROVE  StoreOK' /\ \A x \in Entry : Member(table', size', x) <=> (x # e /\ Member(table, size, x))
<1>1. PICK t, n, u : t = table /\ n = size /\ u = table'
  OBVIOUS
<1>2. TableOK(u, n) /\ \A x \in Entry : Member(u, n, x) <=> (x # e /\ Member(t, n, x))
  <2>1. u = [t EXCEPT ![Index(e.key, n)] = Without(@, Position(@, e.key))]
    BY <1>1 DEF Unlink
  <2>2. TableOK(t, n) /\ Member(t, n, e)
    BY <1>1 DEF StoreOK
  <2> QED
    BY <2>1, <2>2, TakeOut
<1>3. e.key \in Held(t, n)
  BY <1>1, EntryType DEF Held
<1>4. Held(u, n) = Held(t, n) \ {e.key}
  <2>1. ASSUME NEW a \in Keys PROVE a \in Held(u, n) <=> (a # e.key /\ a \in Held(t, n))
    <3>1. \A x \in Entry : Member(t, n, x) => (x # e <=> x.key # e.key)
      BY <1>1, OneEntry DEF StoreOK
    <3> QED
      BY <1>2, <3>1 DEF Held
  <2> QED
    BY <2>1 DEF Held
<1>5. IsFiniteSet(Held(u, n)) /\ used' = Cardinality(Held(u, n))
  <2>1. IsFiniteSet(Held(t, n)) /\ used = Cardinality(Held(t, n)) /\ used' = used - 1
    BY <1>1 DEF StoreOK, Unlink
  <2> QED
    BY <1>3, <1>4, <2>1, FS_RemoveElement
<1>6. 4 * used' <= 3 * size
  <2>1. used \in Nat /\ size \in Nat /\ 4 * used <= 3 * size /\ used' = used - 1
    BY StoreTypes DEF StoreOK, Unlink
  <2> QED
    BY <2>1
<1>7. StoreOK'
  BY <1>1, <1>2, <1>5, <1>6 DEF StoreOK
<1> QED
  BY <1>1, <1>2, <1>7

-------------------------------------------------------------------------------
(* The pointers of the walks                                               *)

\* Where a key is in its chain.
Where(k) == Position(Chain(k), k)

LEMMA WhereIs ==
  ASSUME TableOK(table, size), NEW e \in Entry, Member(table, size, e)
  PROVE  /\ Where(e.key) \in 1..Len(Chain(e.key)) /\ Chain(e.key)[Where(e.key)] = e
         /\ Chain(e.key) \in Seq(Entry) /\ Index(e.key, size) \in 0..(size - 1)
<1>1. e.key \in Keys /\ size \in Nat \ {0}
  BY EntryType DEF TableOK
<1>2. Index(e.key, size) \in 0..(size - 1)
  BY <1>1, IndexType
<1>3. Chain(e.key) \in Seq(Entry)
  BY <1>2 DEF TableOK, Chain
<1>4. Where(e.key) \in 1..Len(Chain(e.key)) /\ Chain(e.key)[Where(e.key)] = e
  BY <1>1, AtMember DEF Where, Chain
<1> QED
  BY <1>2, <1>3, <1>4

\* An entry of a chain is in the table, and is where it is.
LEMMA InChain ==
  ASSUME TableOK(table, size), NEW b \in 0..(size - 1), NEW i \in 1..Len(table[b])
  PROVE  LET x == table[b][i]
         IN  /\ x \in Entry /\ Member(table, size, x)
             /\ Index(x.key, size) = b /\ Where(x.key) = i
<1>0. PICK c, x : c = table[b] /\ x = c[i]
  OBVIOUS
<1>1. ChainOK(c, b, size) /\ c \in Seq(Entry) /\ DOMAIN c = 1..Len(c)
  BY <1>0 DEF TableOK, ChainOK
<1>2. x \in Entry /\ Index(x.key, size) = b
  BY <1>0, <1>1, ElementOfSeq DEF ChainOK
<1>3. Member(table, size, x)
  BY <1>0, <1>1, <1>2 DEF Member, Has
<1>4. Position(c, x.key) = i
  BY <1>0, <1>1, PositionIs
<1>5. Where(x.key) = i
  BY <1>0, <1>2, <1>4 DEF Where, Chain
<1> QED
  BY <1>0, <1>2, <1>3, <1>5

\* The entry behind an entry.
LEMMA NextIs ==
  ASSUME TableOK(table, size), NEW e \in Entry, Member(table, size, e)
  PROVE  /\ NextOf(e) = NULL <=> Where(e.key) = Len(Chain(e.key))
         /\ NextOf(e) # NULL => /\ NextOf(e) \in Entry /\ Member(table, size, NextOf(e))
                                /\ Index(NextOf(e).key, size) = Index(e.key, size)
                                /\ Where(NextOf(e).key) = Where(e.key) + 1
<1>0. PICK b, c, p : b = Index(e.key, size) /\ c = Chain(e.key) /\ p = Where(e.key)
  OBVIOUS
<1>1. p \in 1..Len(c) /\ c \in Seq(Entry) /\ b \in 0..(size - 1) /\ c = table[b] /\ Len(c) \in Nat
  BY <1>0, WhereIs DEF Chain
<1>2. CASE p = Len(c)
  <2>1. NextOf(e) = NULL
    BY <1>0, <1>1, <1>2 DEF NextOf, Where
  <2> QED
    BY <1>0, <1>2, <2>1
<1>3. CASE p < Len(c)
  <2>1. NextOf(e) = c[p + 1] /\ p + 1 \in 1..Len(c)
    BY <1>0, <1>1, <1>3 DEF NextOf, Where
  <2>2. PICK x : x = c[p + 1]
    OBVIOUS
  <2>3. x \in Entry /\ Member(table, size, x) /\ Index(x.key, size) = b /\ Where(x.key) = p + 1
    BY <1>1, <2>1, <2>2, InChain
  <2>4. x # NULL
    BY <2>3, EntryType
  <2> QED
    BY <1>0, <1>1, <1>3, <2>1, <2>2, <2>3, <2>4
<1> QED
  BY <1>1, <1>2, <1>3

\* The head of a chain.
LEMMA HeadIs ==
  ASSUME TableOK(table, size), NEW b \in 0..(size - 1)
  PROVE  /\ table[b] = <<>> => HeadOf(b) = NULL
         /\ table[b] # <<>> => /\ HeadOf(b) \in Entry /\ Member(table, size, HeadOf(b)) /\ HeadOf(b) # NULL
                               /\ Index(HeadOf(b).key, size) = b /\ Where(HeadOf(b).key) = 1
                               /\ Head(table[b]) = HeadOf(b)
<1>1. table[b] \in Seq(Entry)
  BY DEF TableOK
<1>2. ASSUME table[b] # <<>>
      PROVE  /\ HeadOf(b) \in Entry /\ Member(table, size, HeadOf(b)) /\ HeadOf(b) # NULL
             /\ Index(HeadOf(b).key, size) = b /\ Where(HeadOf(b).key) = 1
             /\ Head(table[b]) = HeadOf(b)
  <2>1. 1 \in 1..Len(table[b]) /\ Head(table[b]) = table[b][1]
    BY <1>1, <1>2
  <2>2. HeadOf(b) = table[b][1]
    BY <1>2 DEF HeadOf
  <2>3. /\ HeadOf(b) \in Entry /\ Member(table, size, HeadOf(b))
        /\ Index(HeadOf(b).key, size) = b /\ Where(HeadOf(b).key) = 1
    BY <2>1, <2>2, InChain
  <2> QED
    BY <2>1, <2>2, <2>3, EntryType
<1> QED
  BY <1>2 DEF HeadOf

\* The keys of the buckets before i, and of bucket i down to place p.
Before(i)  == {k \in Held(table, size) : Index(k, size) < i}
DownTo(i, p) == {k \in Held(table, size) : Index(k, size) = i /\ Where(k) <= p}

Listed(s) == {s[n] : n \in DOMAIN s}
Once(s)   == \A m, n \in DOMAIN s : s[m] = s[n] => m = n

\* The iterator: it is at an entry of the table, knows the next one, and has
\* returned every key up to there once.
Walks(it) ==
  /\ it \in [on : BOOLEAN, index : -1..(size - 1), entry : Entry \cup {NULL},
             next : Entry \cup {NULL}, seen : Seq(Keys)]
  /\ ~it.on => it = NoIter
  /\ it.on => sweep = NoSweep
  /\ Once(it.seen)
  /\ it.entry = NULL => it.next = NULL /\ Listed(it.seen) = Before(it.index + 1)
  /\ it.entry # NULL =>
       /\ Member(table, size, it.entry) /\ Index(it.entry.key, size) = it.index
       /\ it.next = NextOf(it.entry)
       /\ Listed(it.seen) = Before(it.index) \cup DownTo(it.index, Where(it.entry.key))

IterOK == Walks(iter)

\* The sweep: it is at an entry of the bucket it has picked, and no entry that
\* it has passed is lapsed.
Clean(b, p) == \A i \in DOMAIN table[b] : i < p => table[b][i].val \notin Lapsed

SweepOK ==
  /\ sweep \in [picks : Seq(0..(size - 1)), e : Entry \cup {NULL}]
  /\ sweep.picks = <<>> => sweep = NoSweep
  /\ sweep.picks # <<>> /\ sweep.e # NULL =>
       /\ Member(table, size, sweep.e) /\ Index(sweep.e.key, size) = sweep.picks[1]
       /\ Clean(sweep.picks[1], Where(sweep.e.key))
  /\ sweep.picks # <<>> /\ sweep.e = NULL =>
       \A i \in DOMAIN table[sweep.picks[1]] : table[sweep.picks[1]][i].val \notin Lapsed

\* Without a walk there is nothing to say about its pointers.
LEMMA NoWalk ==
  ASSUME StoreOK', iter' = NoIter
  PROVE  IterOK'
<1>1. size' \in Nat /\ size' >= 2
  BY DEF StoreOK, TableOK
<1>2. Once(<<>>) /\ Listed(<<>>) = {}
  BY DEF Once, Listed
<1>3. Before(0)' = {}
  <2>1. \A k \in Keys : Index(k, size') \in 0..(size' - 1)
    BY <1>1, IndexType
  <2>2. \A k \in Keys : ~(Index(k, size') < 0)
    BY <1>1, <2>1
  <2> QED
    BY <2>2 DEF Before, Held
<1>4. -1 \in -1..(size' - 1) /\ (-1) + 1 = 0
  <2>1. PICK n : n = size'
    OBVIOUS
  <2>2. n \in Nat /\ n >= 2
    BY <1>1, <2>1
  <2>3. -1 \in -1..(n - 1) /\ (-1) + 1 = 0
    BY <2>2
  <2> QED
    BY <2>1, <2>3
<1>5. iter'.on = FALSE /\ iter'.index = -1 /\ iter'.entry = NULL /\ iter'.next = NULL /\ iter'.seen = <<>>
  BY DEF NoIter
<1>6. iter' \in [on : BOOLEAN, index : -1..(size' - 1), entry : Entry \cup {NULL},
                 next : Entry \cup {NULL}, seen : Seq(Keys)]
  BY <1>4 DEF NoIter
<1>7. Listed(iter'.seen) = Before(iter.index + 1)'
  BY <1>2, <1>3, <1>4, <1>5
<1> QED
  BY <1>2, <1>5, <1>6, <1>7 DEF IterOK, Walks

LEMMA AtRest ==
  ASSUME StoreOK', iter' = NoIter, sweep' = NoSweep
  PROVE  IterOK' /\ SweepOK'
<1>1. SweepOK'
  BY DEF SweepOK, NoSweep
<1> QED
  BY <1>1, NoWalk

LEMMA WalksInit == Init => IterOK /\ SweepOK
<1> SUFFICES ASSUME Init PROVE IterOK /\ SweepOK
  OBVIOUS
<1>1. size \in Nat /\ size >= 2 /\ iter = NoIter /\ sweep = NoSweep
  BY HashTableAssumption DEF Init, ht_create
<1>2. Once(<<>>) /\ Listed(<<>>) = {}
  BY DEF Once, Listed
<1>3. Before(0) = {}
  <2>1. \A k \in Keys : Index(k, size) \in 0..(size - 1)
    BY <1>1, IndexType
  <2>2. \A k \in Keys : ~(Index(k, size) < 0)
    BY <1>1, <2>1
  <2> QED
    BY <2>2 DEF Before, Held
<1>4. -1 \in -1..(size - 1) /\ (-1) + 1 = 0
  BY <1>1
<1>5. IterOK
  <2>1. iter.on = FALSE /\ iter.index = -1 /\ iter.entry = NULL /\ iter.next = NULL /\ iter.seen = <<>>
    BY <1>1 DEF NoIter
  <2>2. iter \in [on : BOOLEAN, index : -1..(size - 1), entry : Entry \cup {NULL},
                  next : Entry \cup {NULL}, seen : Seq(Keys)]
    BY <1>1, <1>4 DEF NoIter
  <2>3. Listed(iter.seen) = Before(iter.index + 1)
    BY <1>2, <1>3, <1>4, <2>1
  <2> QED
    BY <1>1, <1>2, <2>1, <2>2, <2>3 DEF IterOK, Walks
<1>6. SweepOK
  BY <1>1 DEF SweepOK, NoSweep
<1> QED
  BY <1>5, <1>6

\* The walk returns a key that it has not returned before.
LEMMA SeenGrows ==
  ASSUME NEW s \in Seq(Keys), Once(s), NEW k \in Keys, k \notin Listed(s)
  PROVE  LET a == Append(s, k) IN a \in Seq(Keys) /\ Once(a) /\ Listed(a) = Listed(s) \cup {k}
<1> DEFINE a == Append(s, k)
<1>1. /\ a \in Seq(Keys) /\ Len(a) = Len(s) + 1 /\ a[Len(s) + 1] = k
      /\ \A i \in 1..Len(s) : a[i] = s[i]
  BY AppendProperties
<1>2. Len(s) \in Nat /\ DOMAIN s = 1..Len(s) /\ DOMAIN a = 1..(Len(s) + 1)
  BY <1>1, LenProperties
<1> HIDE DEF a
<1>3. \A i \in 1..(Len(s) + 1) : i \in 1..Len(s) \/ i = Len(s) + 1
  BY <1>2
<1>4. \A i \in 1..Len(s) : i \in 1..(Len(s) + 1) /\ s[i] # k
  BY <1>2 DEF Listed
<1>5. Len(s) + 1 \in 1..(Len(s) + 1)
  BY <1>2
<1>6. Once(a)
  BY <1>1, <1>2, <1>3, <1>4 DEF Once
<1>7. Listed(a) = Listed(s) \cup {k}
  BY <1>1, <1>2, <1>3, <1>4, <1>5 DEF Listed
<1> QED
  BY <1>1, <1>6, <1>7 DEF a

\* A key that is held has a place; no two have the same.
LEMMA HeldPlace ==
  ASSUME TableOK(table, size), NEW k \in Held(table, size)
  PROVE  /\ k \in Keys /\ Index(k, size) \in 0..(size - 1)
         /\ Where(k) \in 1..Len(Chain(k)) /\ Chain(k)[Where(k)].key = k
         /\ Chain(k) = table[Index(k, size)]
<1>1. PICK e \in Entry : Member(table, size, e) /\ e.key = k
  BY DEF Held
<1> QED
  BY <1>1, WhereIs, EntryType DEF Chain

LEMMA HeldEntry ==
  ASSUME NEW e \in Entry, Member(table, size, e)
  PROVE  e.key \in Held(table, size)
BY EntryType DEF Held

\* The keys of a bucket, one place further down.
LEMMA OneFurther ==
  ASSUME TableOK(table, size), NEW e \in Entry, Member(table, size, e), NEW p \in Nat, Where(e.key) = p + 1
  PROVE  /\ e.key \notin Before(Index(e.key, size)) \cup DownTo(Index(e.key, size), p)
         /\ DownTo(Index(e.key, size), p + 1) = DownTo(Index(e.key, size), p) \cup {e.key}
<1>0. PICK b, c : b = Index(e.key, size) /\ c = Chain(e.key)
  OBVIOUS
<1>1. e.key \in Held(table, size) /\ b \in 0..(size - 1) /\ c = table[b] /\ size \in Nat
  BY <1>0, WhereIs, HeldEntry DEF Chain, TableOK
<1>2. \A k \in Held(table, size) : Where(k) \in Int
  BY HeldPlace
<1>3. e.key \notin Before(b) \cup DownTo(b, p)
  BY <1>0, <1>1 DEF Before, DownTo
<1>4. ASSUME NEW k \in Held(table, size), Index(k, size) = b, Where(k) = p + 1 PROVE k = e.key
  <2>1. Chain(k) = c /\ Chain(k)[Where(k)].key = k
    BY <1>0, <1>1, <1>4, HeldPlace
  <2>2. c[p + 1] = e
    BY <1>0, WhereIs
  <2> QED
    BY <1>4, <2>1, <2>2
<1>5. \A k \in Held(table, size) : Where(k) <= p + 1 <=> (Where(k) <= p \/ Where(k) = p + 1)
  BY <1>2
<1>6. DownTo(b, p + 1) = DownTo(b, p) \cup {e.key}
  BY <1>0, <1>1, <1>4, <1>5 DEF DownTo
<1> QED
  BY <1>0, <1>3, <1>6

LEMMA IterRecord ==
  ASSUME NEW I, NEW E, NEW S, NEW i \in I, NEW e \in E, NEW n \in E, NEW s \in S
  PROVE  [on |-> TRUE, index |-> i, entry |-> e, next |-> n, seen |-> s]
           \in [on : BOOLEAN, index : I, entry : E, next : E, seen : S]
OBVIOUS

\* The walk comes to the next entry: its key is the one that is new.
LEMMA ReturnOK ==
  ASSUME StoreOK, Walks(iter), iter.on, NEW it, NEW e \in Entry, NEW b, NEW p \in Nat,
         it = Returned([iter EXCEPT !.index = b], e),
         b \in 0..(size - 1), b = Index(e.key, size), Member(table, size, e), Where(e.key) = p + 1,
         Listed(iter.seen) = Before(b) \cup DownTo(b, p)
  PROVE  Walks(it)
<1>1. TableOK(table, size) /\ size \in Nat /\ e.key \in Keys /\ e # NULL
  BY StoreTypes, EntryType
<1>2. iter.seen \in Seq(Keys) /\ Once(iter.seen) /\ sweep = NoSweep
  BY DEF Walks
<1>3. e.key \notin Listed(iter.seen)
  BY <1>1, OneFurther
<1>4. PICK s : s = Append(iter.seen, e.key)
  OBVIOUS
<1>5. s \in Seq(Keys) /\ Once(s) /\ Listed(s) = Listed(iter.seen) \cup {e.key}
  BY <1>1, <1>2, <1>3, <1>4, SeenGrows
<1>6. Listed(s) = Before(b) \cup DownTo(b, Where(e.key))
  BY <1>1, <1>5, OneFurther
<1>7. PICK nx : nx = NextOf(e)
  OBVIOUS
<1>8. nx \in Entry \cup {NULL}
  BY <1>1, <1>7, NextIs
<1>9. it = [on |-> TRUE, index |-> b, entry |-> e, next |-> nx, seen |-> s]
  <2>1. iter = [on |-> TRUE, index |-> iter.index, entry |-> iter.entry, next |-> iter.next, seen |-> iter.seen]
    BY DEF Walks
  <2> QED
    BY <1>4, <1>7, <2>1 DEF Returned
<1>10. b \in -1..(size - 1)
  BY <1>1
<1>11. it \in [on : BOOLEAN, index : -1..(size - 1), entry : Entry \cup {NULL},
               next : Entry \cup {NULL}, seen : Seq(Keys)]
  <2>1. PICK I, E, S : I = -1..(size - 1) /\ E = Entry \cup {NULL} /\ S = Seq(Keys)
    OBVIOUS
  <2>2. e \in E /\ nx \in E /\ b \in I /\ s \in S
    BY <1>5, <1>8, <1>10, <2>1
  <2>3. PICK r : r = [on |-> TRUE, index |-> b, entry |-> e, next |-> nx, seen |-> s]
    OBVIOUS
  <2>4. r \in [on : BOOLEAN, index : I, entry : E, next : E, seen : S]
    BY <2>2, <2>3, IterRecord
  <2>5. it \in [on : BOOLEAN, index : I, entry : E, next : E, seen : S]
    BY <1>9, <2>3, <2>4
  <2> QED
    BY <2>1, <2>5
<1>12. it.on = TRUE /\ it.index = b /\ it.entry = e /\ it.next = nx /\ it.seen = s
  BY <1>9
<1> QED
  BY <1>1, <1>2, <1>5, <1>6, <1>7, <1>11, <1>12 DEF Walks

LEMMA IterStep ==
  ASSUME StoreOK, IterOK, SweepOK, ht_iter_next
  PROVE  IterOK' /\ SweepOK'
<1>1. TableOK(table, size) /\ size \in Nat /\ size >= 2
  BY StoreTypes
<1>2. iter.on /\ Walks(iter) /\ sweep = NoSweep /\ UNCHANGED <<table, size, used, sweep>>
  BY DEF ht_iter_next, IterOK, Walks
<1>3. StoreOK'
  BY <1>2 DEF StoreOK
<1>4. SweepOK'
  BY <1>2 DEF SweepOK, Clean, Where, Chain
<1>5. /\ iter.index \in -1..(size - 1) /\ iter.seen \in Seq(Keys) /\ Once(iter.seen)
      /\ iter.entry \in Entry \cup {NULL} /\ iter.next \in Entry \cup {NULL}
      /\ iter = [on |-> TRUE, index |-> iter.index, entry |-> iter.entry, next |-> iter.next, seen |-> iter.seen]
  BY <1>2 DEF Walks
<1>6. ASSUME Walks(iter') PROVE IterOK'
  BY <1>2, <1>6 DEF IterOK, Walks, Before, DownTo, Where, Chain, NextOf
<1>7. PICK i : i = iter.index + 1
  OBVIOUS
<1>8. i \in Nat /\ i - 1 = iter.index
  BY <1>5, <1>7
<1>9. ASSUME iter.entry = NULL, i < size, table[i] = <<>>, iter' = [iter EXCEPT !.index = i]
      PROVE  Walks(iter')
  <2>1. i \in 0..(size - 1) /\ i \in -1..(size - 1)
    BY <1>1, <1>8, <1>9
  <2>2. Before(i + 1) = Before(i)
    <3>1. ASSUME NEW k \in Held(table, size) PROVE Index(k, size) \in Int /\ Index(k, size) # i
      <4>1. Where(k) \in 1..Len(Chain(k)) /\ Chain(k) = table[Index(k, size)] /\ Index(k, size) \in 0..(size - 1)
        BY <1>1, HeldPlace
      <4>2. Len(<<>>) = 0
        OBVIOUS
      <4> QED
        BY <1>1, <1>9, <4>1, <4>2
    <3>2. \A k \in Held(table, size) : Index(k, size) < i + 1 <=> Index(k, size) < i
      BY <1>8, <3>1
    <3> QED
      BY <3>2 DEF Before
  <2>3. iter' = [on |-> TRUE, index |-> i, entry |-> NULL, next |-> iter.next, seen |-> iter.seen]
    <3>1. PICK j, e, x, s : /\ iter = [on |-> TRUE, index |-> j, entry |-> e, next |-> x, seen |-> s]
                            /\ e = iter.entry /\ x = iter.next /\ s = iter.seen
      BY <1>5
    <3>2. iter' = [on |-> TRUE, index |-> i, entry |-> e, next |-> x, seen |-> s]
      BY <1>9, <3>1
    <3> QED
      BY <1>9, <3>1, <3>2
  <2>4. iter' \in [on : BOOLEAN, index : -1..(size - 1), entry : Entry \cup {NULL},
                   next : Entry \cup {NULL}, seen : Seq(Keys)]
    BY <1>5, <2>1, <2>3
  <2>5. iter.next = NULL /\ Listed(iter.seen) = Before(i)
    BY <1>2, <1>7, <1>9 DEF Walks
  <2>6. /\ iter'.on = TRUE /\ iter'.index = i /\ iter'.entry = NULL
        /\ iter'.next = iter.next /\ iter'.seen = iter.seen
    BY <2>3
  <2> QED
    BY <1>2, <1>5, <2>2, <2>4, <2>5, <2>6 DEF Walks
<1>10. ASSUME iter.entry = NULL, i < size, table[i] # <<>>,
              iter' = Returned([iter EXCEPT !.index = i], Head(table[i]))
       PROVE  Walks(iter')
  <2>1. i \in 0..(size - 1)
    BY <1>1, <1>8, <1>10
  <2>2. PICK e : e = HeadOf(i)
    OBVIOUS
  <2>3. /\ e \in Entry /\ Member(table, size, e) /\ i = Index(e.key, size) /\ Where(e.key) = 0 + 1
        /\ Head(table[i]) = e
    BY <1>1, <1>10, <2>1, <2>2, HeadIs
  <2>4. Listed(iter.seen) = Before(i) \cup DownTo(i, 0)
    <3>1. \A k \in Held(table, size) : Where(k) \in Int /\ Where(k) >= 1
      BY <1>1, HeldPlace
    <3>2. \A k \in Held(table, size) : ~(Where(k) <= 0)
      BY <3>1
    <3>3. DownTo(i, 0) = {}
      BY <3>2 DEF DownTo
    <3> QED
      BY <1>2, <1>7, <1>10, <3>3 DEF Walks
  <2>5. iter' = Returned([iter EXCEPT !.index = i], e)
    BY <1>10, <2>3
  <2> QED
    BY <1>2, <2>1, <2>3, <2>4, <2>5, ReturnOK
<1>11. ASSUME iter.entry # NULL PROVE
         /\ iter.entry \in Entry /\ Member(table, size, iter.entry) /\ Index(iter.entry.key, size) = iter.index
         /\ iter.next = NextOf(iter.entry) /\ iter.index \in 0..(size - 1)
         /\ Listed(iter.seen) = Before(iter.index) \cup DownTo(iter.index, Where(iter.entry.key))
  <2>1. /\ iter.entry \in Entry /\ Member(table, size, iter.entry) /\ Index(iter.entry.key, size) = iter.index
        /\ iter.next = NextOf(iter.entry)
        /\ Listed(iter.seen) = Before(iter.index) \cup DownTo(iter.index, Where(iter.entry.key))
    BY <1>2, <1>5, <1>11 DEF Walks
  <2> QED
    BY <1>1, <2>1, WhereIs
<1>12. ASSUME iter.entry # NULL, iter.next = NULL, iter' = [iter EXCEPT !.entry = NULL]
       PROVE  Walks(iter')
  <2>0. PICK e, b, p : e = iter.entry /\ b = iter.index /\ p = Where(e.key)
    OBVIOUS
  <2>1. p = Len(Chain(e.key)) /\ Chain(e.key) = table[b] /\ b \in Int
    BY <1>1, <1>11, <1>12, <2>0, NextIs DEF Chain
  <2>2. Before(b + 1) = Before(b) \cup DownTo(b, p)
    <3>1. ASSUME NEW k \in Held(table, size)
          PROVE  Index(k, size) < b + 1 <=> (Index(k, size) < b \/ (Index(k, size) = b /\ Where(k) <= p))
      <4>1. /\ Index(k, size) \in Int /\ Where(k) \in 1..Len(Chain(k)) /\ Chain(k) = table[Index(k, size)]
        BY <1>1, HeldPlace
      <4>2. Index(k, size) = b => Where(k) <= p
        BY <2>1, <4>1
      <4> QED
        BY <2>1, <4>1, <4>2
    <3> QED
      BY <3>1 DEF Before, DownTo
  <2>3. iter' = [on |-> TRUE, index |-> b, entry |-> NULL, next |-> NULL, seen |-> iter.seen]
    <3>1. PICK j, x, s : /\ iter = [on |-> TRUE, index |-> j, entry |-> e, next |-> x, seen |-> s]
                         /\ j = iter.index /\ x = iter.next /\ s = iter.seen
      BY <1>5, <2>0
    <3>2. iter' = [on |-> TRUE, index |-> j, entry |-> NULL, next |-> x, seen |-> s]
      BY <1>12, <3>1
    <3> QED
      BY <1>12, <2>0, <3>1, <3>2
  <2>4. iter' \in [on : BOOLEAN, index : -1..(size - 1), entry : Entry \cup {NULL},
                   next : Entry \cup {NULL}, seen : Seq(Keys)]
    BY <1>5, <2>0, <2>3
  <2>5. Listed(iter.seen) = Before(b + 1)
    BY <1>11, <1>12, <2>0, <2>2
  <2>6. /\ iter'.on = TRUE /\ iter'.index = b /\ iter'.entry = NULL
        /\ iter'.next = NULL /\ iter'.seen = iter.seen
    BY <2>3
  <2> QED
    BY <1>2, <1>5, <2>4, <2>5, <2>6 DEF Walks
<1>13. ASSUME iter.entry # NULL, iter.next # NULL, iter' = Returned(iter, iter.next)
       PROVE  Walks(iter')
  <2>0. PICK e, x, b, p : e = iter.entry /\ x = iter.next /\ b = iter.index /\ p = Where(e.key)
    OBVIOUS
  <2>1. p \in Nat
    BY <1>1, <1>11, <1>13, <2>0, WhereIs
  <2>2. x \in Entry /\ Member(table, size, x) /\ b = Index(x.key, size) /\ Where(x.key) = p + 1
    BY <1>1, <1>11, <1>13, <2>0, NextIs
  <2>3. b \in 0..(size - 1) /\ Listed(iter.seen) = Before(b) \cup DownTo(b, p)
    BY <1>11, <1>13, <2>0
  <2>4. iter = [iter EXCEPT !.index = b]
    BY <1>5, <2>0
  <2>5. iter' = Returned([iter EXCEPT !.index = b], x)
    BY <1>13, <2>0, <2>4
  <2> QED
    BY <1>2, <2>1, <2>2, <2>3, <2>5, ReturnOK
<1>14. ASSUME iter' = NoIter PROVE IterOK'
  BY <1>2, <1>3, <1>14, AtRest
<1> QED
  BY <1>4, <1>6, <1>7, <1>9, <1>10, <1>12, <1>13, <1>14 DEF ht_iter_next

LEMMA IterStart ==
  ASSUME StoreOK, IterOK, SweepOK, ht_iter_create
  PROVE  IterOK' /\ SweepOK'
<1>1. iter = NoIter /\ sweep = NoSweep /\ UNCHANGED <<table, size, used, sweep>>
  BY DEF ht_iter_create, Idle, IterOK, Walks
<1>2. SweepOK'
  BY <1>1 DEF SweepOK, Clean, Where, Chain
<1>3. iter' = [on |-> TRUE, index |-> -1, entry |-> NULL, next |-> NULL, seen |-> <<>>]
  BY DEF ht_iter_create, NoIter
<1>4. /\ iter'.on = TRUE /\ iter'.index = iter.index /\ iter'.entry = NULL
      /\ iter'.next = NULL /\ iter'.seen = iter.seen /\ iter.entry = NULL
  BY <1>1, <1>3 DEF NoIter
<1>5. iter' \in [on : BOOLEAN, index : -1..(size - 1), entry : Entry \cup {NULL},
                 next : Entry \cup {NULL}, seen : Seq(Keys)]
  <2>1. PICK I, E, S : I = -1..(size - 1) /\ E = Entry \cup {NULL} /\ S = Seq(Keys)
    OBVIOUS
  <2>2. size \in Nat /\ size >= 2
    BY StoreTypes
  <2>3. NULL \in E /\ -1 \in I /\ <<>> \in S
    BY <2>1, <2>2
  <2>4. iter' \in [on : BOOLEAN, index : I, entry : E, next : E, seen : S]
    BY <1>3, <2>3, IterRecord
  <2> QED
    BY <2>1, <2>4
<1>6. Once(iter.seen) /\ Listed(iter.seen) = Before(iter.index + 1)
  BY <1>4 DEF IterOK, Walks
<1>7. Walks(iter')
  BY <1>1, <1>4, <1>5, <1>6 DEF Walks
<1>8. IterOK'
  BY <1>1, <1>7 DEF IterOK, Walks, Before, DownTo, Where, Chain, NextOf
<1> QED
  BY <1>2, <1>8

\* A sweep comes to the head of a bucket.
LEMMA SweepAtHead ==
  ASSUME StoreOK, UNCHANGED <<table, size>>, NEW picks \in Seq(0..(size - 1)), picks # <<>>,
         sweep' = [picks |-> picks, e |-> HeadOf(picks[1])]
  PROVE  SweepOK'
<1>1. TableOK(table, size)
  BY StoreTypes
<1>2. PICK b : b = picks[1]
  OBVIOUS
<1>3. b \in 0..(size - 1)
  <2>1. 1 \in 1..Len(picks)
    OBVIOUS
  <2> QED
    BY <1>2, <2>1, ElementOfSeq
<1>4. PICK h : h = HeadOf(b)
  OBVIOUS
<1>5. table[b] \in Seq(Entry)
  BY <1>1, <1>3 DEF TableOK
<1>6. sweep'.picks = picks /\ sweep'.e = h /\ sweep' = [picks |-> picks, e |-> h]
  BY <1>2, <1>4
<1>7. CASE table[b] = <<>>
  <2>1. h = NULL /\ DOMAIN table[b] = {}
    BY <1>1, <1>3, <1>4, <1>7, HeadIs
  <2>2. sweep' \in [picks : Seq(0..(size - 1)), e : Entry \cup {NULL}]
    BY <1>6, <2>1
  <2> QED
    BY <1>2, <1>6, <2>1, <2>2 DEF SweepOK
<1>8. CASE table[b] # <<>>
  <2>1. h \in Entry /\ Member(table, size, h) /\ h # NULL /\ Index(h.key, size) = b /\ Where(h.key) = 1
    BY <1>1, <1>3, <1>4, <1>8, HeadIs
  <2>2. sweep' \in [picks : Seq(0..(size - 1)), e : Entry \cup {NULL}]
    BY <1>6, <2>1
  <2>3. Clean(b, Where(h.key))
    <3>1. \A i \in DOMAIN table[b] : ~(i < 1)
      BY <1>5
    <3> QED
      BY <2>1, <3>1 DEF Clean
  <2>4. Clean(b, Where(h.key))'
    BY <2>3 DEF Clean, Where, Chain
  <2>5. Member(table', size', h) /\ Index(h.key, size') = b /\ sweep'.picks[1] = b
    BY <1>2, <1>6, <2>1
  <2> QED
    BY <1>6, <2>1, <2>2, <2>4, <2>5 DEF SweepOK
<1> QED
  BY <1>7, <1>8

\* The chain without the entry the sweep has looked at.
LEMMA UnlinkedChain ==
  ASSUME StoreOK, NEW e \in Entry, Member(table, size, e), Unlink(e.key), size' = size,
         NEW b, b = Index(e.key, size), NEW p, p = Where(e.key)
  PROVE  /\ table'[b] \in Seq(Entry) /\ Len(table'[b]) = Len(table[b]) - 1
         /\ \A i \in 1..(Len(table[b]) - 1) : table'[b][i] = table[b][IF i < p THEN i ELSE i + 1]
<1>1. PICK c, d : c = table[b] /\ d = table'[b]
  OBVIOUS
<1>2. /\ p \in 1..Len(c) /\ c \in Seq(Entry) /\ b \in 0..(size - 1) /\ c = Chain(e.key)
      /\ table \in [0..(size - 1) -> Seq(Entry)]
  BY <1>1, StoreTypes, WhereIs DEF Chain
<1>3. d = SubSeq(c, 1, p - 1) \o SubSeq(c, p + 1, Len(c))
  <2>1. d = Without(c, p)
    BY <1>1, <1>2 DEF Unlink, Where
  <2> QED
    BY <2>1 DEF Without
<1>4. d \in Seq(Entry) /\ Len(d) = Len(c) - 1 /\ \A i \in 1..(Len(c) - 1) : d[i] = c[IF i < p THEN i ELSE i + 1]
  <2>1. c \in Seq(Entry) /\ p \in 1..Len(c)
    BY <1>2
  <2> QED
    BY <1>3, <2>1, CutOut, Zenon
<1> QED
  BY <1>1, <1>4

LEMMA SweepStep ==
  ASSUME StoreOK, IterOK, SweepOK, sweep_entry
  PROVE  StoreOK' /\ IterOK' /\ SweepOK'
<1>0. PICK e, b, c, p, x, picks :
        /\ e = sweep.e /\ b = sweep.picks[1] /\ c = table[b] /\ p = Where(e.key)
        /\ x = NextOf(e) /\ picks = sweep.picks
  OBVIOUS
<1>1. e # NULL /\ picks # <<>> /\ size' = size /\ iter' = iter
  BY <1>0 DEF sweep_entry
<1>2. /\ e \in Entry /\ Member(table, size, e) /\ b = Index(e.key, size) /\ Clean(b, p)
      /\ picks \in Seq(0..(size - 1)) /\ sweep = [picks |-> picks, e |-> e]
  BY <1>0, <1>1 DEF SweepOK
<1>3. TableOK(table, size) /\ size \in Nat /\ size >= 2
  BY StoreTypes
<1>4. p \in 1..Len(c) /\ c \in Seq(Entry) /\ b \in 0..(size - 1) /\ c = Chain(e.key) /\ c[p] = e /\ DOMAIN c = 1..Len(c)
  BY <1>0, <1>2, <1>3, WhereIs DEF Chain
<1>5. sweep' = [picks |-> picks, e |-> x] /\ sweep'.picks = picks /\ sweep'.e = x
  <2>1. sweep' = [sweep EXCEPT !.e = NextOf(e)]
    BY <1>0 DEF sweep_entry, SweepNext
  <2> QED
    BY <1>0, <1>2, <2>1
<1>6. /\ x = NULL <=> p = Len(c)
      /\ x # NULL => x \in Entry /\ Member(table, size, x) /\ Index(x.key, size) = b /\ Where(x.key) = p + 1
  BY <1>0, <1>2, <1>3, <1>4, NextIs
<1>7. sweep' \in [picks : Seq(0..(size' - 1)), e : Entry \cup {NULL}]
  BY <1>1, <1>2, <1>5, <1>6
<1>8. iter = NoIter
  <2>1. sweep # NoSweep
    BY <1>1, <1>2 DEF NoSweep
  <2> QED
    BY <2>1 DEF IterOK, Walks
<1>9. \A i \in 1..Len(c) : i < p => c[i].val \notin Lapsed
  BY <1>0, <1>2, <1>4 DEF Clean
<1>10. CASE e.val \notin Lapsed
  <2>1. UNCHANGED <<table, used>>
    BY <1>0, <1>10 DEF sweep_entry
  <2>2. StoreOK'
    BY <1>1, <2>1 DEF StoreOK
  <2>3. ASSUME x = NULL PROVE \A i \in DOMAIN table'[b] : table'[b][i].val \notin Lapsed
    <3>1. \A i \in 1..Len(c) : i < p \/ i = p
      BY <1>4, <1>6, <2>3
    <3> QED
      BY <1>0, <1>4, <1>9, <1>10, <2>1, <3>1
  <2>4. ASSUME x # NULL PROVE Clean(b, Where(x.key))'
    <3>1. \A i \in 1..Len(c) : i < p + 1 => i < p \/ i = p
      BY <1>4
    <3>2. Clean(b, p + 1)
      BY <1>0, <1>4, <1>9, <1>10, <3>1 DEF Clean
    <3>3. Clean(b, Where(x.key))
      BY <1>6, <2>4, <3>2
    <3> QED
      BY <1>1, <2>1, <3>3 DEF Clean, Where, Chain
  <2>5. x # NULL => Member(table', size', x) /\ Index(x.key, size') = b
    BY <1>1, <1>6, <2>1
  <2>6. SweepOK'
    BY <1>0, <1>1, <1>5, <1>7, <2>3, <2>4, <2>5 DEF SweepOK
  <2> QED
    BY <1>1, <1>8, <2>2, <2>6, NoWalk
<1>11. CASE e.val \in Lapsed
  <2>1. Unlink(e.key)
    BY <1>0, <1>11 DEF sweep_entry
  <2>2. StoreOK' /\ \A y \in Entry : Member(table', size', y) <=> (y # e /\ Member(table, size, y))
    BY <1>1, <1>2, <2>1, UnlinkOK
  <2>3. PICK d : d = table'[b]
    OBVIOUS
  <2>4. d \in Seq(Entry) /\ Len(d) = Len(c) - 1 /\ \A i \in 1..(Len(c) - 1) : d[i] = c[IF i < p THEN i ELSE i + 1]
    BY <1>0, <1>1, <1>2, <2>1, <2>3, UnlinkedChain
  <2>5. DOMAIN d = 1..(Len(c) - 1) /\ Len(c) \in Nat
    BY <1>4, <2>4, LenProperties
  <2>6. \A i \in 1..(Len(c) - 1) : i < p => d[i].val \notin Lapsed
    <3>1. \A i \in 1..(Len(c) - 1) : i \in 1..Len(c) /\ (i < p => d[i] = c[i])
      BY <2>4, <2>5
    <3> QED
      BY <1>9, <3>1
  <2>7. ASSUME x = NULL PROVE \A i \in DOMAIN table'[b] : table'[b][i].val \notin Lapsed
    <3>1. \A i \in 1..(Len(c) - 1) : i < p
      BY <1>6, <2>5, <2>7
    <3> QED
      BY <2>3, <2>5, <2>6, <3>1
  <2>8. ASSUME x # NULL PROVE /\ Member(table', size', x) /\ Index(x.key, size') = b
                              /\ Clean(b, Where(x.key))'
    <3>1. x \in Entry /\ Member(table, size, x) /\ Index(x.key, size) = b /\ Where(x.key) = p + 1 /\ p # Len(c)
      BY <1>6, <2>8
    <3>2. c[p + 1] = x
      BY <1>0, <1>3, <1>4, <3>1, WhereIs DEF Chain
    <3>3. p \in 1..(Len(c) - 1) /\ ~(p < p)
      BY <1>4, <2>5, <3>1
    <3>4. d[p] = x
      BY <2>4, <3>2, <3>3
    <3>5. ChainOK(d, b, size')
      BY <1>1, <1>4, <2>2, <2>3 DEF StoreOK, TableOK
    <3>6. Position(d, x.key) = p
      BY <2>5, <3>3, <3>4, <3>5, PositionIs
    <3>7. Where(x.key)' = p
      BY <1>1, <2>3, <3>1, <3>6 DEF Where, Chain
    <3>8. Clean(b, p)'
      BY <2>3, <2>5, <2>6 DEF Clean
    <3>9. x # e
      <4>1. p # p + 1
        BY <3>3
      <4> QED
        BY <1>0, <3>1, <4>1
    <3>10. Clean(b, Where(x.key))'
      BY <3>7, <3>8 DEF Clean
    <3> QED
      BY <1>1, <2>2, <3>1, <3>9, <3>10
  <2>9. SweepOK'
    BY <1>0, <1>1, <1>5, <1>7, <2>7, <2>8 DEF SweepOK
  <2> QED
    BY <1>1, <1>8, <2>2, <2>9, NoWalk
<1> QED
  BY <1>10, <1>11

LEMMA SweepBucket ==
  ASSUME StoreOK, IterOK, SweepOK, sweep_bucket
  PROVE  StoreOK' /\ IterOK' /\ SweepOK'
<1>1. sweep.picks # <<>> /\ UNCHANGED <<table, size, used, iter>>
  BY DEF sweep_bucket
<1>2. StoreOK'
  BY <1>1 DEF StoreOK
<1>3. iter = NoIter
  <2>1. sweep # NoSweep
    BY <1>1 DEF NoSweep
  <2> QED
    BY <2>1 DEF IterOK, Walks
<1>4. CASE Len(sweep.picks) = 1
  BY <1>1, <1>2, <1>3, <1>4, AtRest DEF sweep_bucket
<1>5. CASE Len(sweep.picks) # 1
  <2>0. PICK s, t : s = sweep.picks /\ t = Tail(s)
    OBVIOUS
  <2>1. sweep' = [picks |-> Tail(sweep.picks), e |-> HeadOf(sweep.picks[2])]
    BY <1>5 DEF sweep_bucket
  <2>2. s \in Seq(0..(size - 1)) /\ s # <<>> /\ Len(s) # 1
    BY <1>1, <1>5, <2>0 DEF SweepOK
  <2>3. t \in Seq(0..(size - 1)) /\ t # <<>> /\ t[1] = s[2]
    <3>1. Len(s) \in Nat /\ Len(s) >= 2
      <4>1. Len(s) \in Nat /\ Len(s) # 0
        BY <2>2, EmptySeq, LenProperties
      <4>2. PICK n : n = Len(s)
        OBVIOUS
      <4>3. n \in Nat /\ n # 0 /\ n # 1
        BY <2>2, <4>1, <4>2
      <4> QED
        BY <4>2, <4>3
    <3>2. t \in Seq(0..(size - 1)) /\ Len(t) = Len(s) - 1 /\ \A i \in 1..(Len(s) - 1) : t[i] = s[i + 1]
      BY <2>0, <2>2, HeadTailProperties
    <3> QED
      BY <3>1, <3>2
  <2>4. SweepOK'
    BY <1>1, <2>0, <2>1, <2>3, SweepAtHead
  <2> QED
    BY <1>1, <1>2, <1>3, <2>4, NoWalk
<1> QED
  BY <1>4, <1>5

LEMMA SweepStart ==
  ASSUME StoreOK, IterOK, SweepOK, sweep_pick
  PROVE  StoreOK' /\ IterOK' /\ SweepOK'
<1>1. Idle /\ used > 0 /\ UNCHANGED <<table, size, used, iter>>
  BY DEF sweep_pick
<1>2. StoreOK'
  BY <1>1 DEF StoreOK
<1>3. iter = NoIter
  BY <1>1 DEF Idle, IterOK, Walks
<1>4. PICK n : n = IF Sample > used THEN used ELSE Sample
  OBVIOUS
<1>5. n \in Nat /\ n >= 1
  BY <1>1, <1>4, StoreTypes, HashTableAssumption
<1>6. PICK picks \in [1..n -> {i \in 0..(size - 1) : table[i] # <<>>}] :
        sweep' = [picks |-> picks, e |-> HeadOf(picks[1])]
  BY <1>4 DEF sweep_pick
<1>7. picks \in Seq(0..(size - 1)) /\ picks # <<>>
  <2>1. picks \in [1..n -> 0..(size - 1)]
    BY <1>6
  <2>2. picks \in Seq(0..(size - 1)) /\ Len(picks) = n
    <3>1. PICK S : S = 0..(size - 1)
      OBVIOUS
    <3>2. picks \in [1..n -> S]
      BY <2>1, <3>1
    <3>3. picks \in Seq(S) /\ Len(picks) = n
      BY <1>5, <3>2
    <3> QED
      BY <3>1, <3>3
  <2> QED
    BY <1>5, <2>2
<1>8. SweepOK'
  BY <1>1, <1>6, <1>7, SweepAtHead
<1> QED
  BY <1>1, <1>2, <1>3, <1>8, NoWalk

-------------------------------------------------------------------------------
(* The invariant                                                           *)

HtOK == StoreOK /\ IterOK /\ SweepOK

\* What a set does to the entries.
LEMMA SetOK ==
  ASSUME StoreOK, NEW k \in Keys, NEW v \in Values, ht_set(k, v)
  PROVE  /\ StoreOK'
         /\ \/ /\ ret' = <<"set", k, v>>
               /\ \A x \in Entry : Member(table', size', x) <=>
                    (x = [key |-> k, val |-> v] \/ (x.key # k /\ Member(table, size, x)))
            \/ /\ ret' = <<"set", k, Absent>> /\ k \notin Held(table, size)
               /\ UNCHANGED <<table, size>>
<1>1. PICK grown : grown = [table EXCEPT ![Index(k, size)] = <<[key |-> k, val |-> v]>> \o @]
  OBVIOUS
<1>2. CASE /\ At(Chain(k), k) # {} /\ UNCHANGED <<size, used>> /\ ret' = <<"set", k, v>>
           /\ table' = [table EXCEPT ![Index(k, size)][Position(Chain(k), k)].val = v]
  BY <1>2, SetFound
<1>3. CASE /\ At(Chain(k), k) = {} /\ used' = used + 1 /\ ret' = <<"set", k, v>>
           /\ IF NeedsResize(used') THEN size' = 2 * size /\ table' = ht_resize(grown, size, 2 * size)
                                    ELSE size' = size /\ table' = grown
  BY <1>1, <1>3, SetNew
<1>4. CASE At(Chain(k), k) = {} /\ ret' = <<"set", k, Absent>> /\ UNCHANGED <<table, size, used>>
  <2>1. StoreOK'
    BY <1>4 DEF StoreOK
  <2>2. At(table[Index(k, size)], k) = {}
    BY <1>4 DEF Chain
  <2>3. k \notin Held(table, size)
    BY <2>2, AtMember, StoreTypes DEF Held
  <2> QED
    BY <1>4, <2>1, <2>3
<1> QED
  BY <1>1, <1>2, <1>3, <1>4 DEF ht_set

\* What a deletion does to them.
LEMMA DelOK ==
  ASSUME StoreOK, NEW k \in Keys, ht_del(k)
  PROVE  /\ StoreOK' /\ size' = size
         /\ \/ \E e \in Entry : /\ Member(table, size, e) /\ e.key = k /\ ret' = <<"del", k, TRUE>>
                                /\ \A x \in Entry : Member(table', size', x) <=> (x # e /\ Member(table, size, x))
            \/ k \notin Held(table, size) /\ ret' = <<"del", k, FALSE>> /\ UNCHANGED table
<1>1. size' = size /\ TableOK(table, size)
  BY StoreTypes DEF ht_del
<1>2. CASE At(Chain(k), k) # {} /\ Unlink(k) /\ ret' = <<"del", k, TRUE>>
  <2>1. At(table[Index(k, size)], k) # {}
    BY <1>2 DEF Chain
  <2>2. PICK e \in Entry : Member(table, size, e) /\ e.key = k
    BY <1>1, <2>1, AtMember
  <2>3. StoreOK' /\ \A x \in Entry : Member(table', size', x) <=> (x # e /\ Member(table, size, x))
    BY <1>1, <1>2, <2>2, UnlinkOK
  <2> QED
    BY <1>1, <1>2, <2>2, <2>3
<1>3. CASE At(Chain(k), k) = {} /\ ret' = <<"del", k, FALSE>> /\ UNCHANGED <<table, used>>
  <2>1. At(table[Index(k, size)], k) = {}
    BY <1>3 DEF Chain
  <2>2. k \notin Held(table, size)
    BY <1>1, <2>1, AtMember DEF Held
  <2>3. StoreOK'
    BY <1>1, <1>3 DEF StoreOK
  <2> QED
    BY <1>1, <1>3, <2>2, <2>3
<1> QED
  BY <1>2, <1>3 DEF ht_del

LEMMA HtStep ==
  ASSUME HtOK, [Next]_vars
  PROVE  HtOK'
<1> USE DEF HtOK
<1>1. Idle => iter = NoIter /\ sweep = NoSweep
  BY DEF Idle, IterOK, Walks
<1>2. ASSUME NEW k \in Keys, NEW v \in Values, ht_set(k, v) PROVE HtOK'
  <2>1. StoreOK'
    BY <1>2, SetOK
  <2>2. iter' = NoIter /\ sweep' = NoSweep
    BY <1>1, <1>2 DEF ht_set
  <2> QED
    BY <2>1, <2>2, AtRest
<1>3. ASSUME NEW k \in Keys, ht_get(k) PROVE HtOK'
  <2>1. UNCHANGED <<table, size, used, iter, sweep>> /\ Idle
    BY <1>3 DEF ht_get
  <2>2. StoreOK'
    BY <2>1 DEF StoreOK
  <2> QED
    BY <1>1, <2>1, <2>2, AtRest
<1>4. ASSUME NEW k \in Keys, ht_del(k) PROVE HtOK'
  <2>1. StoreOK'
    BY <1>4, DelOK
  <2>2. iter' = NoIter /\ sweep' = NoSweep
    BY <1>1, <1>4 DEF ht_del
  <2> QED
    BY <2>1, <2>2, AtRest
<1>5. ASSUME ht_iter_create PROVE HtOK'
  <2>1. StoreOK'
    BY <1>5 DEF StoreOK, ht_iter_create
  <2> QED
    BY <1>5, <2>1, IterStart
<1>6. ASSUME ht_iter_next PROVE HtOK'
  <2>1. StoreOK'
    BY <1>6 DEF StoreOK, ht_iter_next
  <2> QED
    BY <1>6, <2>1, IterStep
<1>7. ASSUME UNCHANGED vars PROVE HtOK'
  <2>1. UNCHANGED <<table, size, used, iter, sweep>>
    BY <1>7 DEF vars
  <2>2. StoreOK'
    BY <2>1 DEF StoreOK
  <2>3. IterOK'
    BY <2>1 DEF IterOK, Walks, Before, DownTo, Where, Chain, NextOf
  <2>4. SweepOK'
    BY <2>1 DEF SweepOK, Clean, Where, Chain
  <2> QED
    BY <2>2, <2>3, <2>4
<1>8. ASSUME sweep_pick \/ sweep_entry \/ sweep_bucket PROVE HtOK'
  BY <1>8, SweepStart, SweepStep, SweepBucket
<1> QED
  BY <1>2, <1>3, <1>4, <1>5, <1>6, <1>7, <1>8 DEF Next

LEMMA AlwaysHtOK == Spec => []HtOK
<1>1. Init => HtOK
  BY StoreInit, WalksInit DEF HtOK
<1>2. HtOK /\ [Next]_vars => HtOK'
  BY HtStep
<1> QED
  BY <1>1, <1>2, PTL DEF Spec

-------------------------------------------------------------------------------
(* The theorems                                                            *)

\* The table is an array of chains of entries, and the pointers of the
\* iterator and of the sweep are to entries or NULL.
THEOREM HashTableTypeCorrect == Spec => []TypeOK
<1>1. HtOK => TypeOK
  <2> SUFFICES ASSUME HtOK PROVE TypeOK
    OBVIOUS
  <2>1. size \in Nat \ {0} /\ used \in Nat /\ table \in [0..(size - 1) -> Seq(Entry)]
    BY StoreTypes DEF HtOK, TableOK
  <2>2. iter \in [on : BOOLEAN, index : -1..(size - 1), entry : Entry \cup {NULL},
                  next : Entry \cup {NULL}, seen : Seq(Keys)]
    BY DEF HtOK, IterOK, Walks
  <2>3. sweep \in [picks : Seq(0..(size - 1)), e : Entry \cup {NULL}]
    BY DEF HtOK, SweepOK
  <2> QED
    BY <2>1, <2>2, <2>3 DEF TypeOK
<1> QED
  BY <1>1, AlwaysHtOK, PTL

\* As many entries as keys.
LEMMA CountEntries ==
  ASSUME StoreOK
  PROVE  Cardinality(Entries) = Cardinality(Held(table, size))
<1>1. TableOK(table, size) /\ table \in [0..(size - 1) -> Seq(Entry)] /\ IsFiniteSet(Held(table, size))
  BY StoreTypes DEF StoreOK
<1> DEFINE S == Held(table, size)
           f == [k \in S |-> <<Index(k, size), Where(k)>>]
<1>2. ASSUME NEW k \in S
      PROVE  /\ Index(k, size) \in DOMAIN table /\ Where(k) \in DOMAIN table[Index(k, size)]
             /\ table[Index(k, size)][Where(k)].key = k
  <2>1. /\ Index(k, size) \in 0..(size - 1) /\ Where(k) \in 1..Len(Chain(k)) /\ Chain(k)[Where(k)].key = k
        /\ Chain(k) = table[Index(k, size)]
    BY <1>1, HeldPlace
  <2>2. Chain(k) \in Seq(Entry)
    BY <1>1, <2>1
  <2> QED
    BY <1>1, <2>1, <2>2
<1>3. \A k \in S : f[k] \in Entries
  BY <1>2 DEF Entries
<1>4. \A k, l \in S : f[k] = f[l] => k = l
  BY <1>2
<1>5. ASSUME NEW q \in Entries PROVE \E k \in S : f[k] = q
  <2>1. PICK b \in DOMAIN table : q \in {<<b, i>> : i \in DOMAIN table[b]}
    BY DEF Entries
  <2>2. PICK i \in DOMAIN table[b] : q = <<b, i>>
    BY <2>1
  <2>3. PICK x : x = table[b][i]
    OBVIOUS
  <2>4. b \in 0..(size - 1) /\ i \in 1..Len(table[b])
    BY <1>1, <2>1, <2>2
  <2>5. x \in Entry /\ Member(table, size, x) /\ Index(x.key, size) = b /\ Where(x.key) = i
    BY <1>1, <2>3, <2>4, InChain
  <2>6. x.key \in S
    BY <2>5, HeldEntry
  <2> QED
    BY <2>2, <2>5, <2>6
<1>6. f \in Bijection(S, Entries)
  <2>1. f \in [S -> Entries]
    BY <1>3
  <2> HIDE DEF f, S
  <2> QED
    BY <1>4, <1>5, <2>1, Fun_IsBij
<1> HIDE DEF f
<1> QED
  BY <1>1, <1>6, FS_Bijection DEF ExistsBijection

\* Every entry is where a lookup searches for it, however often the table has
\* grown, no key has two, and used counts them: ht_upsert, ht_del and ht_find
\* walk the right chain, and the loop of db_active_sweep that draws buckets
\* finds some that are not empty as long as used says so.
THEOREM AlwaysPlaced == Spec => []Placed
<1>1. HtOK => Placed
  <2> SUFFICES ASSUME HtOK PROVE Placed
    OBVIOUS
  <2>1. StoreOK /\ TableOK(table, size) /\ DOMAIN table = 0..(size - 1)
    BY StoreTypes DEF HtOK
  <2>2. \A b \in DOMAIN table : \A i \in DOMAIN table[b] :
          /\ Index(table[b][i].key, size) = b
          /\ \A j \in DOMAIN table[b] : table[b][i].key = table[b][j].key => i = j
    BY <2>1 DEF TableOK, ChainOK
  <2>3. used = Cardinality(Entries)
    BY <2>1, CountEntries DEF StoreOK
  <2> QED
    BY <2>2, <2>3 DEF Placed
<1> QED
  BY <1>1, AlwaysHtOK, PTL

\* Neither the iterator nor the sweep, which frees entries of the chain it is
\* walking down, ever holds a pointer to an entry that is not in the table.
THEOREM NeverDangling == Spec => []NoDanglingPointer
<1>1. HtOK => NoDanglingPointer
  <2> SUFFICES ASSUME HtOK PROVE NoDanglingPointer
    OBVIOUS
  <2>1. TableOK(table, size) /\ Walks(iter) /\ SweepOK
    BY StoreTypes DEF HtOK, IterOK
  <2>2. ASSUME NEW e \in Entry, Member(table, size, e) PROVE InTable(e)
    BY <2>2 DEF InTable, Member, Has, Chain
  <2>3. InTable(NULL)
    BY DEF InTable
  <2>4. InTable(iter.entry) /\ InTable(iter.next)
    <3>1. CASE iter.entry = NULL
      BY <2>1, <2>3, <3>1 DEF Walks
    <3>2. CASE iter.entry # NULL
      <4>1. iter.entry \in Entry /\ Member(table, size, iter.entry) /\ iter.next = NextOf(iter.entry)
        BY <2>1, <3>2 DEF Walks
      <4>2. iter.next = NULL \/ (iter.next \in Entry /\ Member(table, size, iter.next))
        BY <2>1, <4>1, NextIs
      <4> QED
        BY <2>2, <2>3, <4>1, <4>2
    <3> QED
      BY <3>1, <3>2
  <2>5. InTable(sweep.e)
    <3>1. CASE sweep.e = NULL
      BY <2>3, <3>1
    <3>2. CASE sweep.e # NULL
      <4>1. sweep.picks # <<>>
        BY <2>1, <3>2 DEF SweepOK, NoSweep
      <4>2. sweep.e \in Entry /\ Member(table, size, sweep.e)
        BY <2>1, <3>2, <4>1 DEF SweepOK
      <4> QED
        BY <2>2, <4>2
    <3> QED
      BY <3>1, <3>2
  <2> QED
    BY <2>4, <2>5 DEF NoDanglingPointer
<1> QED
  BY <1>1, AlwaysHtOK, PTL

\* When db_active_sweep leaves a bucket, no entry of it is lapsed: removing
\* the one it is at never makes it miss the one behind.
THEOREM AlwaysSweptClean == Spec => []SweptClean
<1>1. HtOK => SweptClean
  BY DEF HtOK, SweepOK, SweptClean
<1> QED
  BY <1>1, AlwaysHtOK, PTL

\* Powers of two outgrow the doubles.
LEMMA PowerBound ==
  ASSUME NEW n \in Nat
  PROVE  2 * n <= 2 ^ n \/ n = 0
<1> DEFINE P == {k \in Nat : 2 * k <= 2 ^ k \/ k = 0}
<1>1. 0 \in P
  OBVIOUS
<1>2. ASSUME NEW k \in Nat, k \in P PROVE k + 1 \in P
  <2>1. PICK p : p = 2 ^ k
    OBVIOUS
  <2>2. p \in Nat /\ 2 ^ (k + 1) = 2 * p
    BY <2>1, Doubling
  <2>3. CASE k = 0
    <3>1. p = 1
      BY <2>1, <2>3
    <3> QED
      BY <2>2, <2>3, <3>1
  <2>4. CASE k # 0
    <3>1. 2 * k <= p
      BY <1>2, <2>1, <2>4
    <3>2. 2 * (k + 1) <= 2 * p
      BY <2>2, <2>4, <3>1
    <3> QED
      BY <2>2, <3>2
  <2> QED
    BY <2>3, <2>4
<1> HIDE DEF P
<1>3. n \in P
  BY <1>1, <1>2, NatInductionSet
<1> QED
  BY <1>3 DEF P

\* The load factor holds after every call, and the size is the initial one
\* doubled at most as often as there are keys (of which a server that accepts
\* requests of bounded length has finitely many).
THEOREM LoadAlwaysBounded ==
  ASSUME IsFiniteSet(Keys)
  PROVE  Spec => []LoadBounded
<1>1. HtOK => LoadBounded
  <2> SUFFICES ASSUME HtOK PROVE LoadBounded
    OBVIOUS
  <2>1. 4 * used <= 3 * size /\ size \in Nat
    BY StoreTypes DEF HtOK, StoreOK
  <2>2. PICK n \in Nat : /\ size = InitialSize * 2 ^ n
                         /\ n = 0 \/ 8 * Cardinality(Keys) > 3 * size
    BY DEF HtOK, StoreOK
  <2>3. n \in 0..Cardinality(Keys)
    <3>1. PICK c, p : c = Cardinality(Keys) /\ p = 2 ^ n
      OBVIOUS
    <3>2. c \in Nat /\ p \in Nat
      BY <2>2, <3>1, FS_CardinalityType, Doubling
    <3>3. CASE n = 0
      BY <3>1, <3>2, <3>3
    <3>4. CASE n # 0
      <4>1. 2 * n <= p /\ 8 * c > 3 * size
        BY <2>2, <3>1, <3>4, PowerBound
      <4>2. size >= 2 * p
        <5>1. InitialSize \in Nat /\ InitialSize >= 2
          BY HashTableAssumption
        <5>2. size = InitialSize * p
          BY <2>2, <3>1
        <5>3. PICK d \in Nat : InitialSize = 2 + d
          BY <5>1
        <5>4. InitialSize * p = 2 * p + d * p /\ d * p \in Nat
          BY <3>2, <5>3
        <5> QED
          BY <3>2, <5>2, <5>4
      <4>3. 8 * c > 6 * p
        BY <2>1, <3>2, <4>1, <4>2
      <4>4. n <= c
        BY <2>2, <3>2, <4>1, <4>3
      <4> QED
        BY <2>2, <3>1, <3>2, <4>4
    <3> QED
      BY <3>3, <3>4
  <2> QED
    BY <2>1, <2>2, <2>3 DEF LoadBounded
<1> QED
  BY <1>1, AlwaysHtOK, PTL

-------------------------------------------------------------------------------
(* The finite map                                                          *)

\* The map that a table stands for.
EntryOf(t, n, k) == CHOOSE x \in Entry : Member(t, n, x) /\ x.key = k

MapOf(t, n) == [k \in Held(t, n) |-> EntryOf(t, n, k).val]

LEMMA MapIs ==
  ASSUME NEW t, NEW n, TableOK(t, n)
  PROVE  /\ DOMAIN MapOf(t, n) = Held(t, n)
         /\ \A x \in Entry : Member(t, n, x) => x.key \in Held(t, n) /\ MapOf(t, n)[x.key] = x.val
<1>1. DOMAIN MapOf(t, n) = Held(t, n)
  BY DEF MapOf
<1>2. ASSUME NEW x \in Entry, Member(t, n, x)
      PROVE  x.key \in Held(t, n) /\ MapOf(t, n)[x.key] = x.val
  <2>1. x.key \in Held(t, n)
    BY <1>2, EntryType DEF Held
  <2>2. PICK y : y = EntryOf(t, n, x.key)
    OBVIOUS
  <2>3. y \in Entry /\ Member(t, n, y) /\ y.key = x.key
    BY <1>2, <2>2 DEF EntryOf
  <2>4. y = x
    BY <1>2, <2>3, OneEntry
  <2> QED
    BY <2>1, <2>2, <2>4 DEF MapOf
<1> QED
  BY <1>1, <1>2

\* Two tables with the same entries stand for the same map.
LEMMA SameMap ==
  ASSUME NEW t, NEW n, NEW u, NEW m, TableOK(t, n), TableOK(u, m),
         \A x \in Entry : Member(u, m, x) <=> Member(t, n, x)
  PROVE  MapOf(u, m) = MapOf(t, n)
<1>1. Held(u, m) = Held(t, n)
  BY DEF Held
<1>2. ASSUME NEW k \in Held(t, n) PROVE MapOf(u, m)[k] = MapOf(t, n)[k]
  <2>1. PICK x \in Entry : Member(t, n, x) /\ x.key = k
    BY <1>2 DEF Held
  <2> QED
    BY <2>1, MapIs
<1> QED
  BY <1>1, <1>2 DEF MapOf

LEMMA MapAfterSet ==
  ASSUME NEW t, NEW n, NEW u, NEW m, TableOK(t, n), TableOK(u, m), NEW k \in Keys, NEW v \in Values,
         \A x \in Entry : Member(u, m, x) <=> (x = [key |-> k, val |-> v] \/ (x.key # k /\ Member(t, n, x)))
  PROVE  MapOf(u, m) = [a \in DOMAIN MapOf(t, n) \cup {k} |-> IF a = k THEN v ELSE MapOf(t, n)[a]]
<1>1. PICK f : f = [key |-> k, val |-> v]
  OBVIOUS
<1>2. f \in Entry /\ f.key = k /\ f.val = v
  BY <1>1 DEF Entry
<1>3. \A x \in Entry : Member(u, m, x) <=> (x = f \/ (x.key # k /\ Member(t, n, x)))
  BY <1>1
<1>4. ASSUME NEW a \in Keys PROVE a \in Held(u, m) <=> (a = k \/ a \in Held(t, n))
  BY <1>2, <1>3 DEF Held
<1>5. DOMAIN MapOf(u, m) = DOMAIN MapOf(t, n) \cup {k}
  BY <1>4 DEF Held, MapOf
<1>6. MapOf(u, m)[k] = v
  BY <1>2, <1>3, MapIs
<1>7. ASSUME NEW a \in Held(t, n), a # k PROVE MapOf(u, m)[a] = MapOf(t, n)[a]
  <2>1. PICK x \in Entry : Member(t, n, x) /\ x.key = a
    BY DEF Held
  <2>2. Member(u, m, x)
    BY <1>3, <1>7, <2>1
  <2> QED
    BY <2>1, <2>2, MapIs
<1>8. MapOf(u, m) = [a \in DOMAIN MapOf(u, m) |-> MapOf(u, m)[a]]
  BY DEF MapOf
<1>9. DOMAIN MapOf(t, n) = Held(t, n)
  BY DEF MapOf
<1> QED
  BY <1>5, <1>6, <1>7, <1>8, <1>9

LEMMA MapAfterRemoval ==
  ASSUME NEW t, NEW n, NEW u, NEW m, TableOK(t, n), TableOK(u, m), NEW e \in Entry, Member(t, n, e),
         \A x \in Entry : Member(u, m, x) <=> (x # e /\ Member(t, n, x))
  PROVE  MapOf(u, m) = [a \in DOMAIN MapOf(t, n) \ {e.key} |-> MapOf(t, n)[a]]
<1>1. \A x \in Entry : Member(t, n, x) => (x # e <=> x.key # e.key)
  BY OneEntry
<1>2. ASSUME NEW a \in Keys PROVE a \in Held(u, m) <=> (a # e.key /\ a \in Held(t, n))
  BY <1>1 DEF Held
<1>3. DOMAIN MapOf(u, m) = DOMAIN MapOf(t, n) \ {e.key}
  BY <1>2 DEF Held, MapOf
<1>4. ASSUME NEW a \in Held(t, n), a # e.key PROVE MapOf(u, m)[a] = MapOf(t, n)[a]
  <2>1. PICK x \in Entry : Member(t, n, x) /\ x.key = a
    BY DEF Held
  <2>2. Member(u, m, x)
    BY <1>1, <1>4, <2>1
  <2> QED
    BY <2>1, <2>2, MapIs
<1>5. MapOf(u, m) = [a \in DOMAIN MapOf(u, m) |-> MapOf(u, m)[a]]
  BY DEF MapOf
<1>6. DOMAIN MapOf(t, n) = Held(t, n)
  BY DEF MapOf
<1> QED
  BY <1>3, <1>4, <1>5, <1>6

\* The refinement mapping is that map.
Mapped == Contents = MapOf(table, size)

LEMMA ContentsIs ==
  ASSUME HtOK
  PROVE  Mapped
<1>1. TableOK(table, size) /\ table \in [0..(size - 1) -> Seq(Entry)]
  BY StoreTypes DEF HtOK
<1> DEFINE S == {table[q[1]][q[2]].key : q \in Entries}
<1>2. ASSUME NEW k \in S PROVE k \in Held(table, size)
  <2>1. PICK q \in Entries : k = table[q[1]][q[2]].key
    OBVIOUS
  <2>2. PICK b \in DOMAIN table : q \in {<<b, i>> : i \in DOMAIN table[b]}
    BY DEF Entries
  <2>3. PICK i \in DOMAIN table[b] : q = <<b, i>>
    BY <2>2
  <2>4. b \in 0..(size - 1) /\ i \in 1..Len(table[b])
    BY <1>1, <2>2, <2>3
  <2>5. PICK x : x = table[b][i]
    OBVIOUS
  <2>6. x \in Entry /\ Member(table, size, x)
    BY <1>1, <2>4, <2>5, InChain
  <2>7. k = x.key
    BY <2>1, <2>3, <2>5
  <2> QED
    BY <2>6, <2>7, HeldEntry
<1>3. ASSUME NEW k \in Held(table, size) PROVE k \in S
  <2>1. PICK b, i : b = Index(k, size) /\ i = Where(k)
    OBVIOUS
  <2>2. b \in 0..(size - 1) /\ i \in 1..Len(Chain(k)) /\ Chain(k)[i].key = k /\ Chain(k) = table[b]
    BY <1>1, <2>1, HeldPlace
  <2>3. b \in DOMAIN table /\ i \in DOMAIN table[b]
    BY <1>1, <2>2
  <2>4. PICK q : q = <<b, i>>
    OBVIOUS
  <2>5. q \in Entries
    BY <2>3, <2>4 DEF Entries
  <2>6. table[q[1]][q[2]].key = k
    BY <2>2, <2>4
  <2> QED
    BY <2>5, <2>6
<1>4. S = Held(table, size)
  BY <1>2, <1>3
<1>5. ASSUME NEW k \in Held(table, size)
      PROVE  Chain(k)[Position(Chain(k), k)].val = MapOf(table, size)[k]
  <2>1. PICK x \in Entry : Member(table, size, x) /\ x.key = k
    BY DEF Held
  <2>2. Chain(k)[Where(k)] = x
    BY <1>1, <2>1, WhereIs
  <2> QED
    BY <1>1, <2>1, <2>2, MapIs DEF Where
<1> HIDE DEF S
<1>6. Contents = [k \in S |-> Chain(k)[Position(Chain(k), k)].val]
  BY DEF Contents, S
<1>7. MapOf(table, size) = [k \in Held(table, size) |-> MapOf(table, size)[k]]
  BY DEF MapOf
<1> QED
  BY <1>4, <1>5, <1>6, <1>7 DEF Mapped

\* At the end of a walk the keys returned are all there are.
LEMMA ListOK ==
  ASSUME StoreOK, Walks(iter), iter.on, iter.entry = NULL, iter.index + 1 >= size
  PROVE  Listed(iter.seen) = Held(table, size) /\ Len(iter.seen) = Cardinality(Held(table, size))
<1>1. TableOK(table, size) /\ size \in Nat
  BY StoreTypes
<1>2. iter.seen \in Seq(Keys) /\ Once(iter.seen) /\ iter.index \in -1..(size - 1)
  BY DEF Walks
<1>3. Listed(iter.seen) = Before(iter.index + 1)
  BY DEF Walks
<1>4. iter.index + 1 = size
  BY <1>1, <1>2
<1>5. Before(size) = Held(table, size)
  <2>1. \A k \in Held(table, size) : Index(k, size) \in 0..(size - 1)
    BY <1>1, HeldPlace
  <2>2. \A k \in Held(table, size) : Index(k, size) < size
    BY <1>1, <2>1
  <2> QED
    BY <2>2 DEF Before
<1>6. PICK s, n, H : s = iter.seen /\ n = Len(s) /\ H = Held(table, size)
  OBVIOUS
<1>7. n \in Nat /\ s \in [1..n -> Keys] /\ DOMAIN s = 1..n
  BY <1>2, <1>6, LenProperties
<1>8. Listed(s) = H
  BY <1>3, <1>4, <1>5, <1>6
<1>9. s \in Bijection(1..n, H)
  <2>1. s \in [1..n -> H] /\ \A x \in H : \E i \in 1..n : s[i] = x
    BY <1>7, <1>8 DEF Listed
  <2>2. \A i, j \in 1..n : s[i] = s[j] => i = j
    BY <1>2, <1>6, <1>7 DEF Once
  <2> QED
    BY <2>1, <2>2, Fun_IsBij
<1>10. IsFiniteSet(1..n) /\ Cardinality(1..n) = n
  BY <1>7, FS_Interval
<1>11. Cardinality(H) = n
  BY <1>9, <1>10, FS_Bijection DEF ExistsBijection
<1> QED
  BY <1>6, <1>8, <1>11

\* Every step of the table is a step of the map, or none.
LEMMA MapStep ==
  ASSUME HtOK, HtOK', Mapped, Mapped', [Next]_vars
  PROVE  [Map!Next]_<<Contents, ret>>
<1>1. TableOK(table, size) /\ TableOK(table', size')
  BY DEF HtOK, StoreOK
<1>2. Contents = MapOf(table, size) /\ Contents' = MapOf(table', size') /\ DOMAIN Contents = Held(table, size)
  BY DEF Mapped, MapOf
<1>3. (table' = table /\ size' = size) => Contents' = Contents
  BY <1>2
<1>4. ASSUME NEW k \in Keys, NEW v \in Values, ht_set(k, v) PROVE Map!Next
  <2>1. CASE /\ ret' = <<"set", k, v>>
             /\ \A x \in Entry : Member(table', size', x) <=>
                  (x = [key |-> k, val |-> v] \/ (x.key # k /\ Member(table, size, x)))
    <3>1. Contents' = [a \in DOMAIN Contents \cup {k} |-> IF a = k THEN v ELSE Contents[a]]
      BY <1>1, <1>2, <2>1, MapAfterSet
    <3>2. Map!Set(k, v)
      BY <2>1, <3>1 DEF Map!Set
    <3> QED
      BY <3>2 DEF Map!Next
  <2>2. CASE ret' = <<"set", k, Absent>> /\ k \notin Held(table, size) /\ UNCHANGED <<table, size>>
    <3>1. Map!SetFails(k)
      BY <1>2, <1>3, <2>2 DEF Map!SetFails
    <3> QED
      BY <3>1 DEF Map!Next
  <2> QED
    BY <1>4, <2>1, <2>2, SetOK DEF HtOK
<1>5. ASSUME NEW k \in Keys, ht_get(k) PROVE Map!Next
  <2>1. PICK r : r = IF At(Chain(k), k) = {} THEN Absent ELSE Chain(k)[Position(Chain(k), k)].val
    OBVIOUS
  <2>2. ret' = <<"get", k, r>> /\ UNCHANGED <<table, size>>
    BY <1>5, <2>1 DEF ht_get
  <2>3. r = IF k \in DOMAIN Contents THEN Contents[k] ELSE Absent
    <3>1. CASE k \in Held(table, size)
      <4>1. PICK x \in Entry : Member(table, size, x) /\ x.key = k
        BY <3>1 DEF Held
      <4>2. At(Chain(k), k) # {} /\ Chain(k)[Position(Chain(k), k)] = x
        BY <1>1, <4>1, AtMember DEF Chain
      <4>3. Contents[k] = x.val
        BY <1>1, <1>2, <4>1, MapIs
      <4> QED
        BY <1>2, <2>1, <3>1, <4>2, <4>3
    <3>2. CASE k \notin Held(table, size)
      <4>1. At(Chain(k), k) = {}
        BY <1>1, <3>2, AtMember DEF Chain, Held
      <4> QED
        BY <1>2, <2>1, <3>2, <4>1
    <3> QED
      BY <3>1, <3>2
  <2>4. Map!Get(k)
    BY <1>3, <2>2, <2>3 DEF Map!Get
  <2> QED
    BY <2>4 DEF Map!Next
<1>6. ASSUME NEW k \in Keys, ht_del(k) PROVE Map!Next
  <2>1. ASSUME NEW e \in Entry, Member(table, size, e), e.key = k, ret' = <<"del", k, TRUE>>,
               \A x \in Entry : Member(table', size', x) <=> (x # e /\ Member(table, size, x))
        PROVE  Map!Del(k)
    <3>1. Contents' = [a \in DOMAIN Contents \ {k} |-> Contents[a]]
      BY <1>1, <1>2, <2>1, MapAfterRemoval
    <3>2. k \in DOMAIN Contents
      BY <1>2, <2>1, HeldEntry
    <3>3. (k \in DOMAIN Contents) = TRUE
      BY <3>2
    <3> QED
      BY <2>1, <3>1, <3>3 DEF Map!Del, Map!Without
  <2>2. ASSUME k \notin Held(table, size), ret' = <<"del", k, FALSE>>, UNCHANGED <<table, size>>
        PROVE  Map!Del(k)
    <3>1. Contents' = Contents /\ k \notin DOMAIN Contents
      BY <1>2, <1>3, <2>2
    <3>2. (k \in DOMAIN Contents) = FALSE
      BY <3>1
    <3>3. Contents = [a \in DOMAIN Contents |-> Contents[a]]
      BY DEF Contents
    <3>4. Contents' = [a \in DOMAIN Contents \ {k} |-> Contents[a]]
      BY <3>1, <3>3
    <3> QED
      BY <2>2, <3>2, <3>4 DEF Map!Del, Map!Without
  <2>3. Map!Del(k)
    BY <1>6, <2>1, <2>2, DelOK DEF HtOK
  <2> QED
    BY <2>3 DEF Map!Next
<1>7. ASSUME ht_iter_next PROVE [Map!Next]_<<Contents, ret>>
  <2>1. UNCHANGED <<table, size>> /\ iter.on /\ Walks(iter) /\ StoreOK
    BY <1>7 DEF ht_iter_next, HtOK, IterOK
  <2>2. CASE ret' = ret
    BY <1>3, <2>1, <2>2
  <2>3. CASE /\ iter.entry = NULL /\ iter.index + 1 >= size
             /\ ret' = <<"list", {iter.seen[n] : n \in DOMAIN iter.seen}, Len(iter.seen)>>
    <3>1. Listed(iter.seen) = Held(table, size) /\ Len(iter.seen) = Cardinality(Held(table, size))
      BY <2>1, <2>3, ListOK
    <3>2. ret' = <<"list", DOMAIN Contents, Cardinality(DOMAIN Contents)>>
      BY <1>2, <2>3, <3>1 DEF Listed
    <3>3. Map!Cardinality(DOMAIN Contents) = Cardinality(DOMAIN Contents)
      BY DEF Map!Cardinality, Cardinality
    <3>4. Map!List
      BY <1>3, <2>1, <3>2, <3>3 DEF Map!List
    <3> QED
      BY <3>4 DEF Map!Next
  <2> QED
    BY <1>7, <2>2, <2>3 DEF ht_iter_next
<1>8. ASSUME sweep_entry PROVE [Map!Next]_<<Contents, ret>>
  <2>1. PICK e : e = sweep.e
    OBVIOUS
  <2>2. e \in Entry /\ Member(table, size, e) /\ size' = size /\ ret' = ret
    BY <1>8, <2>1 DEF sweep_entry, HtOK, SweepOK
  <2>3. CASE e.val \in Lapsed
    <3>1. Unlink(e.key)
      BY <1>8, <2>1, <2>3 DEF sweep_entry
    <3>2. \A x \in Entry : Member(table', size', x) <=> (x # e /\ Member(table, size, x))
      BY <2>2, <3>1, UnlinkOK DEF HtOK
    <3>3. Contents' = [a \in DOMAIN Contents \ {e.key} |-> Contents[a]]
      BY <1>1, <1>2, <2>2, <3>2, MapAfterRemoval
    <3>4. e.key \in DOMAIN Contents /\ e.key \in Keys
      BY <1>2, <2>2, HeldEntry, EntryType
    <3>5. Map!Remove(e.key)
      BY <2>2, <3>3, <3>4 DEF Map!Remove, Map!Without
    <3> QED
      BY <3>4, <3>5 DEF Map!Next
  <2>4. CASE e.val \notin Lapsed
    <3>1. UNCHANGED <<table, ret>>
      BY <1>8, <2>1, <2>4 DEF sweep_entry
    <3> QED
      BY <1>3, <2>2, <3>1
  <2> QED
    BY <2>3, <2>4
<1>9. ASSUME ht_iter_create \/ sweep_pick \/ sweep_bucket \/ UNCHANGED vars
      PROVE  [Map!Next]_<<Contents, ret>>
  <2>1. UNCHANGED <<table, size, ret>>
    BY <1>9 DEF ht_iter_create, sweep_pick, sweep_bucket, vars
  <2> QED
    BY <1>3, <2>1
<1> QED
  BY <1>4, <1>5, <1>6, <1>7, <1>8, <1>9 DEF Next

\* ht.c implements a finite map: for every hash function, however the chains
\* collide and whenever the table grows, a get returns what the last set
\* stored, a deletion removes its key only, a walk returns every key once, and
\* the sweep does nothing but remove keys.
THEOREM ImplementsFiniteMap == Spec => ImplementsMap
<1>1. Init => Map!Init
  <2> SUFFICES ASSUME Init PROVE Map!Init
    OBVIOUS
  <2>1. HtOK
    BY StoreInit, WalksInit DEF HtOK
  <2>2. Contents = MapOf(table, size)
    BY <2>1, ContentsIs DEF Mapped
  <2>3. Held(table, size) = {}
    <3>1. table = EmptyTable(size) /\ size \in Nat \ {0}
      BY HashTableAssumption DEF Init, ht_create, EmptyTable
    <3> QED
      BY <3>1, EmptyOK DEF Held
  <2>4. Contents = [k \in {} |-> Absent]
    BY <2>2, <2>3 DEF MapOf
  <2> QED
    BY <2>4 DEF Init, Map!Init
<1>2. HtOK => Mapped
  BY ContentsIs
<1>3. HtOK /\ HtOK' /\ Mapped /\ Mapped' /\ [Next]_vars => [Map!Next]_<<Contents, ret>>
  BY MapStep
<1> QED
  BY <1>1, <1>2, <1>3, AlwaysHtOK, PTL DEF Spec, ImplementsMap, Map!Spec
==================================================================================
