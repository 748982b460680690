--------------------------- MODULE RegAllocProofs ---------------------------
(***************************************************************************)
(* Theorems about RegAlloc, for every procedure and every register file.   *)
(***************************************************************************)
EXTENDS RegAlloc, TLAPS

(***************************************************************************)
(* The sorted lists of IntervalList: what adding, taking the head and      *)
(* unlinking do to the members, their number and their order.              *)
(***************************************************************************)

(* InsertAt, member by member. *)
LEMMA InsertAtElements ==
  ASSUME NEW S, NEW s \in Seq(S), NEW x \in S, NEW p \in 1..(Len(s) + 1)
  PROVE  /\ InsertAt(s, p, x) \in Seq(S)
         /\ Len(InsertAt(s, p, x)) = Len(s) + 1
         /\ \A k \in 1..(Len(s) + 1) :
              InsertAt(s, p, x)[k] =
                IF k < p THEN s[k] ELSE IF k = p THEN x ELSE s[k - 1]
<1> DEFINE a == SubSeq(s, 1, p - 1)
           b == SubSeq(s, p, Len(s))
<1>1. /\ a \in Seq(S) /\ Len(a) = p - 1
      /\ \A k \in 1..(p - 1) : a[k] = s[k]
  OBVIOUS
<1>2. /\ b \in Seq(S) /\ Len(b) = Len(s) + 1 - p
      /\ \A k \in 1..(Len(s) + 1 - p) : b[k] = s[p + k - 1]
  OBVIOUS
<1> HIDE DEF a, b
<1>3. InsertAt(s, p, x) = a \o <<x>> \o b
  BY DEF InsertAt, a, b
<1> DEFINE c == a \o <<x>>
<1>4. /\ c \in Seq(S) /\ Len(c) = p
      /\ \A k \in 1..p : c[k] = IF k < p THEN s[k] ELSE x
  BY <1>1
<1> HIDE DEF c
<1>5. InsertAt(s, p, x) = c \o b
  BY <1>3 DEF c
<1>6. \A k \in 1..p : (c \o b)[k] = c[k]
  BY <1>2, <1>4
<1>7. \A k \in (p + 1)..(Len(s) + 1) : (c \o b)[k] = b[k - p]
  BY <1>2, <1>4
<1>8. (c \o b) \in Seq(S)
  BY <1>2, <1>4
<1>9. Len(c \o b) = Len(s) + 1
  <2>1. c \in Seq(S) /\ b \in Seq(S)  BY <1>2, <1>4
  <2>2. Len(c \o b) = Len(c) + Len(b)  BY <2>1
  <2>3. Len(s) \in Nat  OBVIOUS
  <2> QED  BY <2>2, <2>3, <1>2, <1>4
<1> QED
  BY <1>2, <1>4, <1>5, <1>6, <1>7, <1>8, <1>9

(* RemoveAt, member by member. *)
LEMMA RemoveAtElements ==
  ASSUME NEW S, NEW s \in Seq(S), NEW p \in 1..Len(s)
  PROVE  /\ RemoveAt(s, p) \in Seq(S)
         /\ Len(RemoveAt(s, p)) = Len(s) - 1
         /\ \A k \in 1..(Len(s) - 1) :
              RemoveAt(s, p)[k] = IF k < p THEN s[k] ELSE s[k + 1]
<1> DEFINE a == SubSeq(s, 1, p - 1)
           b == SubSeq(s, p + 1, Len(s))
<1>1. /\ a \in Seq(S) /\ Len(a) = p - 1
      /\ \A k \in 1..(p - 1) : a[k] = s[k]
  OBVIOUS
<1>2. /\ b \in Seq(S) /\ Len(b) = Len(s) - p
      /\ \A k \in 1..(Len(s) - p) : b[k] = s[p + k]
  OBVIOUS
<1> HIDE DEF a, b
<1>3. RemoveAt(s, p) = a \o b
  BY DEF RemoveAt, a, b
<1>4. \A k \in 1..(p - 1) : (a \o b)[k] = a[k]
  BY <1>1, <1>2
<1>5. \A k \in p..(Len(s) - 1) : (a \o b)[k] = b[k - p + 1]
  BY <1>1, <1>2
<1>6. (a \o b) \in Seq(S)
  BY <1>1, <1>2
<1>7. Len(a \o b) = Len(s) - 1
  <2>1. a \in Seq(S) /\ b \in Seq(S)  BY <1>1, <1>2
  <2>2. Len(a \o b) = Len(a) + Len(b)  BY <2>1
  <2>3. Len(s) \in Nat  OBVIOUS
  <2> QED  BY <2>2, <2>3, <1>1, <1>2
<1>8. ASSUME NEW k \in 1..(Len(s) - 1)
      PROVE  (a \o b)[k] = IF k < p THEN s[k] ELSE s[k + 1]
  <2>0. k \in Int /\ p \in Int /\ Len(s) \in Int
    OBVIOUS
  <2>1. CASE k < p
    BY <2>0, <2>1, <1>1, <1>4
  <2>2. CASE k >= p
    <3>1. /\ k \in p..(Len(s) - 1)
          /\ k - p + 1 \in 1..(Len(s) - p)
          /\ p + (k - p + 1) = k + 1 /\ ~(k < p)
      BY <2>0, <2>2
    <3>2. (a \o b)[k] = b[k - p + 1]
      BY <3>1, <1>5
    <3>3. b[k - p + 1] = s[p + (k - p + 1)]
      BY <3>1, <1>2
    <3> QED  BY <3>1, <3>2, <3>3
  <2>3. k < p \/ k >= p
    BY <2>0
  <2> QED  BY <2>1, <2>2, <2>3
<1> QED
  BY <1>3, <1>6, <1>7, <1>8

Distinct(s) == \A i, j \in 1..Len(s) : s[i] = s[j] => i = j

LEMMA RangeMembers ==
  ASSUME NEW S, NEW s \in Seq(S)
  PROVE  /\ Range(s) \subseteq S
         /\ \A k \in 1..Len(s) : s[k] \in Range(s)
         /\ \A y \in Range(s) : \E k \in 1..Len(s) : s[k] = y
  BY DEF Range

(* What adding to a list (X64_lreg_interval_list_add_by_start and _end)
   keeps: its members and its order. *)
LEMMA AddByKeeps ==
  ASSUME NEW S, NEW key \in [S -> Int], NEW s \in Seq(S), NEW x \in S, NEW t,
         AddBy(key, s, x, t)
  PROVE  /\ t \in Seq(S)
         /\ \A y : y \in Range(t) <=> (y \in Range(s) \/ y = x)
         /\ SortedBy(key, s) => SortedBy(key, t)
         /\ (Distinct(s) /\ x \notin Range(s)) => Distinct(t)
<1>1. PICK p \in 1..(Len(s) + 1) : IsInsertPos(key, s, x, p) /\ t = InsertAt(s, p, x)
  BY DEF AddBy
<1>2. /\ t \in Seq(S) /\ Len(t) = Len(s) + 1
      /\ \A k \in 1..(Len(s) + 1) :
           t[k] = IF k < p THEN s[k] ELSE IF k = p THEN x ELSE s[k - 1]
  <2> DEFINE u == InsertAt(s, p, x)
  <2>1. /\ u \in Seq(S) /\ Len(u) = Len(s) + 1
        /\ \A k \in 1..(Len(s) + 1) :
             u[k] = IF k < p THEN s[k] ELSE IF k = p THEN x ELSE s[k - 1]
    BY InsertAtElements
  <2>2. t = u
    BY <1>1
  <2> HIDE DEF u
  <2> QED  BY <2>1, <2>2
<1>3. Len(s) \in Nat /\ p \in Int
  OBVIOUS
<1>4. Range(t) = Range(s) \cup {x}
  <2>1. ASSUME NEW y \in Range(t) PROVE y \in Range(s) \cup {x}
    <3>1. PICK k \in 1..(Len(s) + 1) : t[k] = y
      BY <1>2, <2>1, RangeMembers
    <3>2. CASE k < p
      <4>1. k \in 1..Len(s) /\ y = s[k]  BY <3>1, <3>2, <1>2, <1>3
      <4> QED  BY <4>1, RangeMembers
    <3>3. CASE k = p
      BY <3>1, <3>3, <1>2, <1>3
    <3>4. CASE k > p
      <4>1. k - 1 \in 1..Len(s) /\ y = s[k - 1]  BY <3>1, <3>4, <1>2, <1>3
      <4> QED  BY <4>1, RangeMembers
    <3>5. k < p \/ k = p \/ k > p
      BY <1>3
    <3> QED  BY <3>2, <3>3, <3>4, <3>5
  <2>2. ASSUME NEW y \in Range(s) PROVE y \in Range(t)
    <3>1. PICK k \in 1..Len(s) : s[k] = y
      BY <2>2, RangeMembers
    <3>2. CASE k < p
      <4>1. t[k] = y /\ k \in 1..Len(t)  BY <3>1, <3>2, <1>2, <1>3
      <4> QED  BY <4>1, <1>2, RangeMembers
    <3>3. CASE k >= p
      <4>1. /\ k + 1 \in 1..(Len(s) + 1) /\ ~(k + 1 < p) /\ k + 1 # p
            /\ (k + 1) - 1 = k
        BY <3>3, <1>3
      <4>2. t[k + 1] = s[(k + 1) - 1]  BY <4>1, <1>2
      <4>3. t[k + 1] = y /\ k + 1 \in 1..Len(t)  BY <3>1, <4>1, <4>2, <1>2
      <4> QED  BY <4>3, <1>2, RangeMembers
    <3>4. k < p \/ k >= p
      BY <1>3
    <3> QED  BY <3>2, <3>3, <3>4
  <2>3. x \in Range(t)
    <3>1. t[p] = x /\ p \in 1..Len(t)  BY <1>2, <1>3
    <3> QED  BY <3>1, <1>2, RangeMembers
  <2> QED  BY <2>1, <2>2, <2>3
<1>5. ASSUME SortedBy(key, s) PROVE SortedBy(key, t)
  <2>1. /\ \A q \in 1..Len(s) : q < p => key[s[q]] <= key[x]
        /\ \A q \in 1..Len(s) : q >= p => key[x] <= key[s[q]]
    <3>0. \A q \in 1..Len(s) : s[q] \in S /\ key[s[q]] \in Int
      OBVIOUS
    <3>00. key[x] \in Int
      OBVIOUS
    <3>1. CASE s # <<>> /\ key[x] >= key[s[Len(s)]]
      <4>1. p = Len(s) + 1 /\ Len(s) \in 1..Len(s)  BY <1>1, <3>1 DEF IsInsertPos
      <4>2. ASSUME NEW q \in 1..Len(s) PROVE key[s[q]] <= key[s[Len(s)]]
        <5>1. q < Len(s) \/ q = Len(s)  BY <1>3
        <5> QED  BY <5>1, <4>1, <1>5, <3>0 DEF SortedBy
      <4> QED  BY <4>1, <4>2, <3>0, <3>00, <3>1, <1>3
    <3>2. CASE ~(s # <<>> /\ key[x] >= key[s[Len(s)]])
      <4>1. /\ \A q \in 1..(p - 1) : key[x] >= key[s[q]]
            /\ p <= Len(s) => key[x] < key[s[p]]
        BY <1>1, <3>2 DEF IsInsertPos
      <4>2. ASSUME NEW q \in 1..Len(s), q >= p PROVE key[x] <= key[s[q]]
        <5>1. p \in 1..Len(s) /\ (p < q \/ p = q)  BY <4>2, <1>3
        <5> QED  BY <5>1, <4>1, <1>5, <1>3, <3>0, <3>00 DEF SortedBy
      <4>3. ASSUME NEW q \in 1..Len(s), q < p PROVE key[s[q]] <= key[x]
        <5>1. q \in 1..(p - 1)  BY <4>3, <1>3
        <5> QED  BY <5>1, <4>1, <3>0, <3>00
      <4> QED  BY <4>2, <4>3
    <3> QED  BY <3>1, <3>2
  <2>2. ASSUME NEW i \in 1..Len(t), NEW j \in 1..Len(t), i < j
        PROVE  key[t[i]] <= key[t[j]]
    <3>0. key[x] \in Int /\ \A q \in 1..Len(s) : key[s[q]] \in Int
      OBVIOUS
    <3>1. CASE j < p
      <4>1. i \in 1..Len(s) /\ j \in 1..Len(s) /\ i < p  BY <2>2, <3>1, <1>2, <1>3
      <4> QED  BY <4>1, <3>1, <2>2, <1>2, <1>5 DEF SortedBy
    <3>2. CASE j = p
      <4>1. i \in 1..Len(s) /\ i < p  BY <2>2, <3>2, <1>2, <1>3
      <4>2. t[i] = s[i] /\ t[j] = x  BY <4>1, <3>2, <1>2, <1>3
      <4> QED  BY <4>1, <4>2, <2>1
    <3>3. CASE j > p
      <4>1. j - 1 \in 1..Len(s) /\ t[j] = s[j - 1] /\ j - 1 >= p
        BY <3>3, <1>2, <1>3
      <4>2. CASE i < p
        <5>1. i \in 1..Len(s) /\ t[i] = s[i] /\ i < j - 1  BY <4>2, <3>3, <1>2, <1>3
        <5> QED  BY <5>1, <4>1, <1>5 DEF SortedBy
      <4>3. CASE i = p
        <5>1. t[i] = x  BY <4>3, <1>2
        <5> QED  BY <5>1, <4>1, <2>1
      <4>4. CASE i > p
        <5>1. i - 1 \in 1..Len(s) /\ t[i] = s[i - 1] /\ i - 1 < j - 1
          BY <4>4, <2>2, <1>2, <1>3
        <5> QED  BY <5>1, <4>1, <1>5 DEF SortedBy
      <4>5. i < p \/ i = p \/ i > p  BY <1>3, <1>2
      <4> QED  BY <4>2, <4>3, <4>4, <4>5
    <3>4. j < p \/ j = p \/ j > p  BY <1>3, <1>2
    <3> QED  BY <3>1, <3>2, <3>3, <3>4
  <2> QED  BY <2>2 DEF SortedBy
<1>6. ASSUME Distinct(s), x \notin Range(s) PROVE Distinct(t)
  <2>1. \A q \in 1..Len(s) : s[q] # x
    BY <1>6, RangeMembers
  <2>2. ASSUME NEW i \in 1..Len(t), NEW j \in 1..Len(t), t[i] = t[j] PROVE i = j
    <3> DEFINE Old(k) == IF k < p THEN k ELSE k - 1
    <3>1. \A k \in 1..Len(t) : k # p => Old(k) \in 1..Len(s) /\ t[k] = s[Old(k)]
      BY SMTT(20), <1>2, <1>3
    <3>2. t[p] = x
      BY <1>2, <1>3
    <3>3. i = p <=> j = p
      BY <2>1, <2>2, <3>1, <3>2
    <3>4. CASE i # p
      <4>1. Old(i) = Old(j)
        <5>1. Old(i) \in 1..Len(s) /\ Old(j) \in 1..Len(s) /\ s[Old(i)] = s[Old(j)]
          BY <2>2, <3>1, <3>3, <3>4
        <5> HIDE DEF Old
        <5> QED  BY <5>1, <1>6 DEF Distinct
      <4>2. i \in Int /\ j \in Int /\ j # p  BY <1>2, <1>3, <3>3, <3>4
      <4> QED  BY <4>1, <4>2, <3>4, <1>3
    <3> QED  BY <3>3, <3>4
  <2> QED  BY <2>2 DEF Distinct
<1> QED  BY <1>2, <1>4, <1>5, <1>6

(* What taking the head of a list leaves. *)
LEMMA HeadTail ==
  ASSUME NEW S, NEW s \in Seq(S), s # <<>>
  PROVE  /\ Head(s) \in S /\ Tail(s) \in Seq(S)
         /\ Range(s) = Range(Tail(s)) \cup {Head(s)}
         /\ Distinct(s) => Distinct(Tail(s)) /\ Head(s) \notin Range(Tail(s))
         /\ \A key \in [S -> Int] : SortedBy(key, s) =>
              /\ SortedBy(key, Tail(s))
              /\ \A y \in Range(Tail(s)) : key[Head(s)] <= key[y]
<1>1. /\ Head(s) = s[1] /\ Head(s) \in S
      /\ Tail(s) \in Seq(S) /\ Len(Tail(s)) = Len(s) - 1
      /\ \A k \in 1..(Len(s) - 1) : Tail(s)[k] = s[k + 1]
      /\ Len(s) \in Nat /\ 1 \in 1..Len(s)
  OBVIOUS
<1> DEFINE t == Tail(s)
<1> HIDE DEF t
<1>2. /\ t \in Seq(S) /\ Len(t) = Len(s) - 1
      /\ \A k \in 1..Len(t) : t[k] = s[k + 1] /\ k + 1 \in 1..Len(s) /\ k + 1 # 1
      /\ \A k \in 1..Len(s) : k # 1 => k - 1 \in 1..Len(t) /\ s[k] = t[k - 1]
  BY <1>1 DEF t
<1>3. Range(s) = Range(t) \cup {Head(s)}
  <2>1. ASSUME NEW y \in Range(s) PROVE y \in Range(t) \cup {Head(s)}
    BY <1>1, <1>2, RangeMembers
  <2>2. Head(s) \in Range(s)
    BY <1>1, RangeMembers
  <2>3. ASSUME NEW y \in Range(t) PROVE y \in Range(s)
    <3>1. PICK k \in 1..Len(t) : t[k] = y  BY <1>2, RangeMembers
    <3> QED  BY <3>1, <1>2, RangeMembers
  <2> QED  BY <2>1, <2>2, <2>3
<1>4. ASSUME Distinct(s) PROVE Distinct(t) /\ Head(s) \notin Range(t)
  <2>1. ASSUME NEW i \in 1..Len(t), NEW j \in 1..Len(t), t[i] = t[j] PROVE i = j
    <3>1. i + 1 = j + 1  BY <1>2, <1>4, <2>1 DEF Distinct
    <3> QED  BY <3>1, <1>2
  <2>2. ASSUME NEW y \in Range(t) PROVE y # Head(s)
    <3>1. PICK k \in 1..Len(t) : t[k] = y  BY <1>2, RangeMembers
    <3> QED  BY <3>1, <1>1, <1>2, <1>4 DEF Distinct
  <2> QED  BY <2>1, <2>2 DEF Distinct
<1>5. ASSUME NEW key \in [S -> Int], SortedBy(key, s)
      PROVE  SortedBy(key, t) /\ \A y \in Range(t) : key[Head(s)] <= key[y]
  <2>1. ASSUME NEW i \in 1..Len(t), NEW j \in 1..Len(t), i < j PROVE key[t[i]] <= key[t[j]]
    <3>1. i + 1 < j + 1  BY <2>1, <1>2
    <3> QED  BY <3>1, <1>2, <1>5 DEF SortedBy
  <2>2. ASSUME NEW y \in Range(t) PROVE key[Head(s)] <= key[y]
    <3>1. PICK k \in 1..Len(t) : t[k] = y  BY <1>2, RangeMembers
    <3>2. 1 < k + 1  BY <1>2
    <3> QED  BY <3>1, <3>2, <1>1, <1>2, <1>5 DEF SortedBy
  <2> QED  BY <2>1, <2>2 DEF SortedBy
<1> QED  BY <1>1, <1>3, <1>4, <1>5 DEF t

(* What unlinking a member (X64_lreg_interval_list_rm) leaves. *)
LEMMA RemoveAtKeeps ==
  ASSUME NEW S, NEW s \in Seq(S), NEW p \in 1..Len(s)
  PROVE  /\ RemoveAt(s, p) \in Seq(S)
         /\ Range(s) = Range(RemoveAt(s, p)) \cup {s[p]}
         /\ Distinct(s) => Distinct(RemoveAt(s, p)) /\ s[p] \notin Range(RemoveAt(s, p))
         /\ \A key \in [S -> Int] : SortedBy(key, s) => SortedBy(key, RemoveAt(s, p))
<1> DEFINE t == RemoveAt(s, p)
           Old(k) == IF k < p THEN k ELSE k + 1
<1>1. /\ t \in Seq(S) /\ Len(t) = Len(s) - 1 /\ Len(s) \in Nat
      /\ \A k \in 1..(Len(s) - 1) : t[k] = IF k < p THEN s[k] ELSE s[k + 1]
  BY RemoveAtElements
<1> HIDE DEF t
<1>2. /\ \A k \in 1..Len(t) : t[k] = s[Old(k)] /\ Old(k) \in 1..Len(s) /\ Old(k) # p
      /\ \A i, j \in 1..Len(t) : (Old(i) = Old(j) => i = j) /\ (i < j => Old(i) < Old(j))
  BY <1>1
<1>3. ASSUME NEW k \in 1..Len(s), k # p PROVE s[k] \in Range(t)
  <2>1. CASE k < p
    <3>1. k \in 1..Len(t) /\ t[k] = s[k]  BY <2>1, <1>1
    <3> QED  BY <3>1, <1>1, RangeMembers
  <2>2. CASE k > p
    <3>1. k - 1 \in 1..Len(t) /\ ~(k - 1 < p) /\ (k - 1) + 1 = k  BY <2>2, <1>1
    <3>2. t[k - 1] = s[k]  BY <3>1, <1>1
    <3> QED  BY <3>1, <3>2, <1>1, RangeMembers
  <2>3. k < p \/ k > p  BY <1>3, <1>1
  <2> QED  BY <2>1, <2>2, <2>3
<1> HIDE DEF Old
<1>4. Range(s) = Range(t) \cup {s[p]}
  <2>1. Range(s) \subseteq Range(t) \cup {s[p]}  BY <1>3, RangeMembers
  <2>2. Range(t) \subseteq Range(s)
    <3>1. ASSUME NEW y \in Range(t) PROVE y \in Range(s)
      <4>1. PICK k \in 1..Len(t) : t[k] = y  BY <1>1, RangeMembers
      <4> QED  BY <4>1, <1>2, RangeMembers
    <3> QED  BY <3>1
  <2>3. s[p] \in Range(s)  BY RangeMembers
  <2> QED  BY <2>1, <2>2, <2>3
<1>5. ASSUME Distinct(s) PROVE Distinct(t) /\ s[p] \notin Range(t)
  <2>1. Distinct(t)  BY <1>2, <1>5 DEF Distinct
  <2>2. ASSUME NEW y \in Range(t) PROVE y # s[p]
    <3>1. PICK k \in 1..Len(t) : t[k] = y  BY <1>1, RangeMembers
    <3> QED  BY <3>1, <1>2, <1>5 DEF Distinct
  <2> QED  BY <2>1, <2>2
<1>6. \A key \in [S -> Int] : SortedBy(key, s) => SortedBy(key, t)
  BY <1>2 DEF SortedBy
<1> QED  BY <1>1, <1>4, <1>5, <1>6 DEF t

---------------------------------------------------------------------------

U == Range(unhandled)
A == Range(active)

(* The intervals that still have no place. *)
Pending == U \cup ({cur} \cap LRegs)

(***************************************************************************)
(* The inductive invariant.  `rmap' is only trusted in one direction: an   *)
(* active interval owns its register.  An interval that holds a register   *)
(* and is no longer active has ended before everything still pending       *)
(* starts, which is what makes its register reusable.                      *)
(***************************************************************************)
Shape ==
  /\ phase = "build" => nxt # 0 /\ cur = None /\ \A x \in U : x >= nxt
  /\ phase \in {"calls", "done"} => Pending = {}
  /\ Distinct(unhandled) /\ Distinct(active)
  /\ cur \notin U
  /\ \A x \in LRegs : (loc[x].kind = "reg") <=> (loc[x].reg # None)

Building == phase = "build" => \A x \in LRegs : loc[x].kind = "unassigned" /\ loc[x].reg = None

UnplacedPending == \A x \in Pending : loc[x].kind = "unassigned"

ActiveOwns == \A x \in A : loc[x].reg \in PRegs /\ rmap[loc[x].reg] = x

InOrder ==
  /\ SortedBy(StartOf, unhandled)
  /\ \A y \in U : cur # None => Iv(cur).start <= Iv(y).start

RetiredBeforePending ==
  \A x \in LRegs : (loc[x].reg # None /\ x \notin A) =>
    \A y \in Pending : Iv(x).end <= Iv(y).start

IInv == TypeOK /\ Building /\ Shape /\ UnplacedPending /\ ActiveOwns /\ InOrder
          /\ RetiredBeforePending /\ NoSharedRegister

-----------------------------------------------------------------------------
USE DEF ForceReg, ForceAnyReg, RegOrSpill, HintLIR, HintPhys, NoControl

(* The data of the procedure have their types. *)
LEMMA ProgramTypes ==
  ASSUME prog \in Program
  PROVE  /\ \A x \in LRegs : Iv(x).start \in Int /\ Iv(x).end \in Int /\ Iv(x).preg \in PRegs
         /\ StartOf \in [LRegs -> Int] /\ EndOf \in [LRegs -> Int]
         /\ \A x \in LRegs : StartOf[x] = Iv(x).start /\ EndOf[x] = Iv(x).end
         /\ prog.roots \subseteq LRegs
  BY DEF Program, Interval, Iv, StartOf, EndOf

LEMMA InitIInv == Init => IInv
<1> SUFFICES ASSUME Init PROVE IInv
  OBVIOUS
<1> USE AllocAssumption DEF Init
<1>1. TypeOK
  BY DEF TypeOK, Locations, Unassigned, Terminal
<1>2. U = {} /\ A = {} /\ Pending = {}
  BY DEF U, A, Pending, Range, LRegs
<1>3. Building /\ Shape /\ UnplacedPending /\ ActiveOwns /\ InOrder
  BY <1>2 DEF Building, Shape, UnplacedPending, ActiveOwns, InOrder, SortedBy, Distinct, Unassigned
<1>4. RetiredBeforePending /\ NoSharedRegister
  BY <1>2 DEF RetiredBeforePending, NoSharedRegister, RegOf, Unassigned
<1> QED  BY <1>1, <1>3, <1>4 DEF IInv

(* The current interval takes a register that is free (X64_alloc_reg). *)
LEMMA OccupyKeeps ==
  ASSUME IInv, phase = "scan", cur # None, NEW r \in PRegs, rmap[r] = None, Occupy(r)
  PROVE  IInv'
<1> USE AllocAssumption DEF IInv
<1>1. /\ cur \in LRegs /\ cur \notin U /\ loc[cur].kind = "unassigned"
      /\ active \in Seq(LRegs) /\ unhandled \in Seq(LRegs)
      /\ cur \in Pending /\ U \subseteq Pending
  BY DEF TypeOK, Shape, UnplacedPending, Pending
<1>2. cur \notin A
  BY <1>1 DEF ActiveOwns, Shape
<1>3. /\ active' \in Seq(LRegs) /\ A' = A \cup {cur} /\ Distinct(active')
  <2>1. EndOf \in [LRegs -> Int]
    BY ProgramTypes DEF TypeOK
  <2>2. AddBy(EndOf, active, cur, active') /\ Distinct(active)
    BY DEF Occupy, Shape
  <2>3. active' \in Seq(LRegs)
    BY <1>1, <2>1, <2>2, AddByKeeps
  <2>4. \A y : y \in Range(active') <=> (y \in Range(active) \/ y = cur)
    <3>1. active \in Seq(LRegs) /\ cur \in LRegs  BY <1>1
    <3> QED  BY ONLY <2>1, <2>2, <3>1, AddByKeeps
  <2>5. (Distinct(active) /\ cur \notin Range(active)) => Distinct(active')
    BY ZenonT(40), <1>1, <2>1, <2>2, AddByKeeps
  <2> QED  BY <1>2, <2>2, <2>3, <2>4, <2>5 DEF A
<1>4. U' = U /\ Pending' = U /\ cur' = None /\ prog' = prog /\ phase' = phase
  BY DEF Occupy, U, Pending
<1>5. /\ rmap' = [rmap EXCEPT ![r] = cur]
      /\ loc' = [loc EXCEPT ![cur] = InReg(r)]
      /\ unhandled' = unhandled
  BY DEF Occupy, Owned
<1>6. /\ loc'[cur].kind = "reg" /\ loc'[cur].reg = r
      /\ \A x \in LRegs : x # cur => loc'[x] = loc[x]
  BY <1>1, <1>5 DEF TypeOK, InReg
<1>7. TypeOK'
  <2>1. /\ rmap' \in [PRegs -> LRegs \cup {None}] /\ loc' \in [LRegs -> Locations]
        /\ usedCallee' \in SUBSET PRegs
    BY <1>1, <1>5 DEF TypeOK, Occupy, Recorded, InReg, Locations
  <2> QED  BY <1>3, <1>4, <1>5, <2>1 DEF TypeOK, Occupy, calls
<1>8. Shape'
  <2>1. \A x \in LRegs : (loc'[x].kind = "reg") <=> (loc'[x].reg # None)
    BY <1>6 DEF Shape
  <2>2. phase' = "scan" /\ cur' \notin U'
    BY <1>4, AllocAssumption, RangeMembers, <1>1 DEF U
  <2>3. Distinct(unhandled') /\ Distinct(active')
    BY <1>3, <1>5 DEF Shape
  <2> QED  BY <2>1, <2>2, <2>3 DEF Shape
<1>9. UnplacedPending'
  <2>1. U \subseteq LRegs
    BY <1>1, RangeMembers DEF U
  <2> QED  BY <1>1, <1>4, <1>6, <2>1 DEF UnplacedPending
<1>10. \A a \in A : a \in LRegs /\ loc[a].reg # r
  <2>1. A \subseteq LRegs
    BY <1>1, RangeMembers DEF A
  <2> QED  BY <2>1 DEF ActiveOwns
<1>11. ActiveOwns'
  <2>1. \A a \in A : loc'[a] = loc[a] /\ rmap'[loc[a].reg] = rmap[loc[a].reg]
    BY <1>2, <1>5, <1>6, <1>10 DEF TypeOK
  <2>2. rmap'[r] = cur
    BY <1>5 DEF TypeOK
  <2> QED  BY <1>3, <1>6, <2>1, <2>2 DEF ActiveOwns
<1>12. InOrder'
  BY <1>4, <1>5 DEF InOrder, StartOf, Iv
<1>13. RetiredBeforePending'
  BY <1>1, <1>3, <1>4, <1>6 DEF RetiredBeforePending, Iv
<1>14. NoSharedRegister'
  <2>1. ASSUME NEW y \in LRegs, y # cur, loc[y].reg = r PROVE ~Intersect(cur, y) /\ ~Intersect(y, cur)
    <3>1. y \notin A
      BY <1>10, <2>1
    <3>2. Iv(y).end <= Iv(cur).start
      BY <1>1, <2>1, <3>1 DEF RetiredBeforePending
    <3> QED  BY <1>1, <3>2, ProgramTypes DEF Intersect, TypeOK
  <2> QED  BY <1>1, <1>4, <1>6, <2>1 DEF NoSharedRegister, RegOf, Intersect, Iv
<1> QED  BY <1>4, <1>7, <1>8, <1>9, <1>11, <1>12, <1>13, <1>14 DEF Building

(* The current interval goes to the stack (X64_spill_reg_loc). *)
LEMMA SpillKeeps ==
  ASSUME IInv, phase = "scan", cur # None, SpillCurrent
  PROVE  IInv'
<1> USE AllocAssumption DEF IInv
<1>1. /\ cur \in LRegs /\ cur \notin U /\ loc[cur].kind = "unassigned"
      /\ active \in Seq(LRegs) /\ unhandled \in Seq(LRegs) /\ handled \in Seq(LRegs)
      /\ U \subseteq Pending /\ U \subseteq LRegs
  BY RangeMembers DEF TypeOK, Shape, UnplacedPending, Pending, U
<1>2. A' = A /\ U' = U /\ Pending' = U /\ cur' = None /\ prog' = prog /\ phase' = phase
  BY DEF SpillCurrent, U, A, Pending
<1>3. /\ active' = active /\ unhandled' = unhandled /\ rmap' = rmap
      /\ stackOff' \in Nat
      /\ loc' = [loc EXCEPT ![cur] = OnStack(stackOff')]
  BY DEF SpillCurrent, NewSlot, TypeOK, X64_MAX_INT_REG_SIZE
<1>4. /\ loc'[cur].kind = "stack" /\ loc'[cur].reg = None
      /\ \A x \in LRegs : x # cur => loc'[x] = loc[x]
  BY <1>1, <1>3 DEF TypeOK, OnStack
<1>5. handled' \in Seq(LRegs)
  <2>1. AddBy(StartOf, handled, cur, handled') /\ StartOf \in [LRegs -> Int]
    BY ProgramTypes DEF SpillCurrent, TypeOK
  <2> QED  BY <1>1, <2>1, AddByKeeps
<1>6. TypeOK'
  <2>1. loc' \in [LRegs -> Locations]
    BY <1>1, <1>3 DEF TypeOK, OnStack, Locations
  <2> QED  BY <1>2, <1>3, <1>5, <2>1 DEF TypeOK, SpillCurrent, calls
<1>7. Shape'
  <2>1. \A x \in LRegs : (loc'[x].kind = "reg") <=> (loc'[x].reg # None)
    BY <1>4 DEF Shape
  <2>2. phase' = "scan" /\ cur' \notin U'
    BY <1>1, <1>2
  <2>3. Distinct(unhandled') /\ Distinct(active')
    BY <1>3 DEF Shape
  <2> QED  BY <2>1, <2>2, <2>3 DEF Shape
<1>8. UnplacedPending'
  BY <1>1, <1>2, <1>4 DEF UnplacedPending
<1>9. cur \notin A /\ A \subseteq LRegs
  BY <1>1, RangeMembers DEF ActiveOwns, Shape, A
<1>10. ActiveOwns'
  BY <1>2, <1>3, <1>4, <1>9 DEF ActiveOwns
<1>11. InOrder'
  BY <1>2, <1>3 DEF InOrder, StartOf, Iv
<1>12. RetiredBeforePending'
  BY <1>1, <1>2, <1>4 DEF RetiredBeforePending, Iv
<1>13. NoSharedRegister'
  BY <1>1, <1>2, <1>4 DEF NoSharedRegister, RegOf, Intersect, Iv
<1> QED  BY <1>2, <1>6, <1>7, <1>8, <1>10, <1>11, <1>12, <1>13 DEF Building

LEMMA BuildKeeps == IInv /\ Build => IInv'
<1> SUFFICES ASSUME IInv, Build PROVE IInv'
  OBVIOUS
<1> USE AllocAssumption DEF IInv
<1> DEFINE x == nxt - 1
<1>1. /\ phase = "build" /\ nxt \in 1..NumLRegs /\ nxt' = x /\ cur = None /\ cur' = None
      /\ prog' = prog /\ rmap' = rmap /\ loc' = loc /\ active' = active
      /\ phase' = IF x = 0 THEN "scan" ELSE "build"
  BY DEF Build, results, TypeOK, Shape
<1>2. /\ x \in LRegs /\ x \notin U /\ unhandled \in Seq(LRegs) /\ StartOf \in [LRegs -> Int]
      /\ U \subseteq LRegs /\ \A y \in U : y >= nxt /\ y \in Int
  <2>1. x \in LRegs /\ nxt \in Int /\ x \in Int
    BY <1>1 DEF LRegs
  <2>2. unhandled \in Seq(LRegs) /\ StartOf \in [LRegs -> Int] /\ U \subseteq LRegs
    BY RangeMembers, ProgramTypes DEF TypeOK, U
  <2>3. \A y \in U : y >= nxt /\ y \in Int
    BY <1>1, <2>2 DEF Shape, LRegs
  <2>4. x \notin U
    BY <1>1, <2>1, <2>3
  <2> QED  BY <2>1, <2>2, <2>3, <2>4
<1>3. /\ unhandled' \in Seq(LRegs) /\ Distinct(unhandled')
      /\ \A y \in U' : y \in U \/ y = x
      /\ SortedBy(StartOf, unhandled')
  <2>1. CASE IsRoot(x)
    <3>1. AddBy(StartOf, unhandled, x, unhandled')
      BY <2>1 DEF Build
    <3>2. Distinct(unhandled) /\ SortedBy(StartOf, unhandled) /\ x \notin Range(unhandled)
      BY <1>2 DEF Shape, InOrder, U
    <3> HIDE DEF x
    <3> QED  BY ONLY <1>2, <3>1, <3>2, AddByKeeps DEF U
  <2>2. CASE ~IsRoot(x)
    <3>1. unhandled' = unhandled
      BY <2>2 DEF Build
    <3> QED  BY <1>2, <3>1 DEF U, Shape, InOrder
  <2> QED  BY <2>1, <2>2
<1>4. A' = A /\ Pending' = U' /\ Pending = U /\ U' \subseteq LRegs
  BY <1>1, <1>3, RangeMembers DEF A, Pending, U
<1>5. TypeOK'
  BY <1>1, <1>3 DEF TypeOK, Build, results, calls
<1>6. \A y \in LRegs : loc[y].kind = "unassigned" /\ loc[y].reg = None
  BY <1>1 DEF Building
<1>7. Building'
  BY <1>1, <1>4, <1>6 DEF Building
<1>8. Shape'
  <2>1. \A y \in U' : y >= x
    <3>1. nxt \in Int
      BY <1>1
    <3>2. ASSUME NEW y \in U' PROVE y >= x
      <4>1. y \in U \/ y = x
        BY <1>3, <3>2
      <4>2. \A z \in U : z >= nxt /\ z \in Int
        BY <1>2
      <4> QED  BY ONLY <3>1, <4>1, <4>2
    <3> QED  BY <3>2
  <2>2. phase' = "build" => x # 0
    BY <1>1
  <2>3. cur' \notin U' /\ phase' \notin {"calls", "done"}
    BY <1>1, <1>4
  <2> QED  BY <1>1, <1>3, <2>1, <2>2, <2>3 DEF Shape
<1>9. UnplacedPending' /\ ActiveOwns' /\ InOrder' /\ RetiredBeforePending' /\ NoSharedRegister'
  <2>1. UnplacedPending'
    BY <1>1, <1>4, <1>6 DEF UnplacedPending
  <2>2. ActiveOwns' /\ NoSharedRegister'
    BY <1>1, <1>4 DEF ActiveOwns, NoSharedRegister, RegOf, Intersect, Iv
  <2>3. InOrder'
    BY <1>1, <1>3 DEF InOrder, StartOf, Iv
  <2>4. RetiredBeforePending'
    BY <1>1, <1>6 DEF RetiredBeforePending
  <2> QED  BY <2>1, <2>2, <2>3, <2>4
<1> QED  BY <1>5, <1>7, <1>8, <1>9

LEMMA TakeNextKeeps == IInv /\ TakeNext => IInv'
<1> SUFFICES ASSUME IInv, TakeNext PROVE IInv'
  OBVIOUS
<1> USE AllocAssumption DEF IInv
<1>1. /\ phase = "scan" /\ phase' = phase /\ cur = None /\ cur' = Head(unhandled)
      /\ unhandled' = Tail(unhandled) /\ unhandled \in Seq(LRegs) /\ unhandled # <<>>
      /\ prog' = prog /\ rmap' = rmap /\ loc' = loc /\ active' = active /\ handled' = handled
      /\ StartOf \in [LRegs -> Int] /\ StartOf' = StartOf
  BY ProgramTypes DEF TakeNext, TypeOK, results, StartOf, Iv
<1>2. /\ cur' \in LRegs /\ unhandled' \in Seq(LRegs)
      /\ Range(unhandled) = Range(unhandled') \cup {cur'}
      /\ Distinct(unhandled') /\ cur' \notin Range(unhandled')
      /\ SortedBy(StartOf, unhandled')
      /\ \A y \in Range(unhandled') : StartOf[cur'] <= StartOf[y]
  <2>1. Distinct(unhandled) /\ SortedBy(StartOf, unhandled)
    BY DEF Shape, InOrder
  <2> QED  BY ONLY <1>1, <2>1, HeadTail
<1>3. A' = A /\ U = U' \cup {cur'} /\ Pending' = Pending /\ U' \subseteq LRegs
  BY <1>1, <1>2, RangeMembers DEF A, U, Pending
<1>4. TypeOK' /\ Building'
  BY <1>1, <1>2 DEF TypeOK, TakeNext, results, calls, Building
<1>5. Shape'
  BY <1>1, <1>2 DEF Shape, U
<1>6. UnplacedPending' /\ ActiveOwns' /\ NoSharedRegister'
  BY <1>1, <1>3 DEF UnplacedPending, ActiveOwns, NoSharedRegister, RegOf, Intersect, Iv
<1>7. InOrder'
  BY <1>1, <1>2, <1>3, ProgramTypes DEF InOrder, U, TypeOK, Iv
<1>8. RetiredBeforePending'
  BY <1>1, <1>3 DEF RetiredBeforePending, Iv
<1> QED  BY <1>4, <1>5, <1>6, <1>7, <1>8

LEMMA ExpireOldKeeps == IInv /\ ExpireOld => IInv'
<1> SUFFICES ASSUME IInv, ExpireOld PROVE IInv'
  OBVIOUS
<1> USE AllocAssumption DEF IInv
<1> DEFINE a == Head(active)
<1>1. /\ phase = "scan" /\ phase' = phase /\ cur # None /\ cur' = cur
      /\ active' = Tail(active) /\ active \in Seq(LRegs) /\ active # <<>>
      /\ prog' = prog /\ loc' = loc /\ unhandled' = unhandled
      /\ rmap' = [rmap EXCEPT ![loc[a].reg] = None]
      /\ Iv(a).end <= Iv(cur).start /\ AddBy(StartOf, handled, a, handled')
      /\ StartOf \in [LRegs -> Int] /\ cur \in LRegs /\ handled \in Seq(LRegs)
  BY ProgramTypes DEF ExpireOld, TypeOK, Expired
<1>2. /\ a \in LRegs /\ active' \in Seq(LRegs)
      /\ Range(active) = Range(active') \cup {a}
      /\ Distinct(active') /\ a \notin Range(active')
  <2>1. Distinct(active)
    BY DEF Shape
  <2> QED  BY ONLY <1>1, <2>1, HeadTail
<1> HIDE DEF a
<1>3. /\ A = A' \cup {a} /\ a \notin A' /\ U' = U /\ Pending' = Pending
      /\ A \subseteq LRegs /\ U \subseteq LRegs
  BY <1>1, <1>2, RangeMembers DEF A, U, Pending, TypeOK
<1>4. TypeOK' /\ Building'
  <2>1. handled' \in Seq(LRegs)
    BY ONLY <1>1, <1>2, AddByKeeps
  <2> QED  BY ZenonT(40), <1>1, <1>2, <2>1 DEF TypeOK, ExpireOld, calls, Building
<1>5. Shape'
  BY <1>1, <1>2, <1>3 DEF Shape
<1>6. UnplacedPending' /\ InOrder' /\ NoSharedRegister'
  BY <1>1, <1>3 DEF UnplacedPending, InOrder, StartOf, NoSharedRegister, RegOf, Intersect, Iv
<1>7. ActiveOwns'
  <2>1. ASSUME NEW b \in A' PROVE loc[b].reg # loc[a].reg
    BY <1>2, <1>3, <2>1 DEF ActiveOwns
  <2> QED  BY <1>1, <1>3, <2>1 DEF ActiveOwns, TypeOK
<1>8. RetiredBeforePending'
  <2>1. \A y \in Pending : Iv(a).end <= Iv(y).start
    <3>1. \A y \in LRegs : Iv(y).start \in Int /\ Iv(y).end \in Int
      BY ProgramTypes DEF TypeOK
    <3> QED  BY <1>1, <1>2, <1>3, <3>1 DEF InOrder, Pending
  <2> QED  BY <1>1, <1>3, <2>1 DEF RetiredBeforePending, Iv
<1> QED  BY <1>4, <1>5, <1>6, <1>7, <1>8

LEMMA DrainActiveKeeps == IInv /\ DrainActive => IInv'
<1> SUFFICES ASSUME IInv, DrainActive PROVE IInv'
  OBVIOUS
<1> USE AllocAssumption DEF IInv
<1> DEFINE a == Head(active)
<1>1. /\ phase = "scan" /\ phase' = phase /\ cur = None /\ cur' = cur
      /\ active' = Tail(active) /\ active \in Seq(LRegs) /\ active # <<>>
      /\ prog' = prog /\ loc' = loc /\ unhandled' = unhandled /\ rmap' = rmap
      /\ unhandled = <<>> /\ AddBy(StartOf, handled, a, handled')
      /\ StartOf \in [LRegs -> Int] /\ handled \in Seq(LRegs)
  BY ProgramTypes DEF DrainActive, TypeOK, results
<1>2. /\ a \in LRegs /\ active' \in Seq(LRegs)
      /\ Range(active) = Range(active') \cup {a}
      /\ Distinct(active')
  <2>1. Distinct(active)
    BY DEF Shape
  <2> QED  BY ONLY <1>1, <2>1, HeadTail
<1> HIDE DEF a
<1>3. A' \subseteq A /\ U' = U /\ Pending' = Pending /\ Pending = {}
  BY SMTT(20), <1>1, <1>2 DEF A, U, Pending, Range, LRegs
<1>4. TypeOK' /\ Building'
  <2>1. handled' \in Seq(LRegs)
    BY ONLY <1>1, <1>2, AddByKeeps
  <2> QED  BY <1>1, <1>2, <2>1 DEF TypeOK, DrainActive, results, calls, Building
<1>5. Shape'
  BY <1>1, <1>2, <1>3 DEF Shape
<1>6. UnplacedPending' /\ InOrder' /\ NoSharedRegister' /\ ActiveOwns'
  BY <1>1, <1>3 DEF UnplacedPending, InOrder, StartOf, NoSharedRegister, RegOf, Intersect, Iv, ActiveOwns
<1>7. RetiredBeforePending'
  BY <1>3 DEF RetiredBeforePending
<1> QED  BY <1>4, <1>5, <1>6, <1>7

(* The current interval takes the register of the stolen one, which moves
   to the stack (X64_steal_reg). *)
LEMMA StealRegKeeps == IInv /\ StealReg => IInv'
<1> SUFFICES ASSUME IInv, StealReg PROVE IInv'
  OBVIOUS
<1> USE AllocAssumption DEF IInv
<1>1. PICK k \in DOMAIN active :
        LET from == active[k] IN
        /\ rmap' = Owned(loc[from].reg)
        /\ stackOff' = NewSlot
        /\ loc' = [loc EXCEPT ![cur] = InReg(loc[from].reg), ![from] = OnStack(stackOff')]
        /\ AddBy(EndOf, RemoveAt(active, k), cur, active')
        /\ AddBy(StartOf, handled, from, handled')
  BY DEF StealReg
<1> DEFINE from == active[k]
           rest == RemoveAt(active, k)
<1>2. /\ phase = "scan" /\ phase' = phase /\ cur # None /\ cur \in LRegs /\ cur' = None
      /\ k \in 1..Len(active) /\ active \in Seq(LRegs) /\ from \in LRegs /\ from \in A
      /\ prog' = prog /\ unhandled' = unhandled /\ handled \in Seq(LRegs)
      /\ StartOf \in [LRegs -> Int] /\ EndOf \in [LRegs -> Int]
      /\ UNCHANGED <<nxt, usedCallee, calls>>
  <2>1. /\ phase = "scan" /\ cur # None /\ cur' = None
        /\ UNCHANGED <<prog, phase, nxt, unhandled, usedCallee, calls>>
    BY DEF StealReg, Placing
  <2>2. /\ active \in Seq(LRegs) /\ handled \in Seq(LRegs) /\ cur \in LRegs
        /\ StartOf \in [LRegs -> Int] /\ EndOf \in [LRegs -> Int]
    BY <2>1, ProgramTypes DEF TypeOK
  <2>3. k \in 1..Len(active)
    BY <2>2
  <2>4. from \in LRegs /\ from \in A
    BY <2>2, <2>3, RangeMembers DEF A
  <2> QED  BY <2>1, <2>2, <2>3, <2>4
<1>3. /\ rmap' = [rmap EXCEPT ![loc[from].reg] = cur]
      /\ loc' = [loc EXCEPT ![cur] = InReg(loc[from].reg), ![from] = OnStack(stackOff')]
      /\ AddBy(EndOf, rest, cur, active') /\ AddBy(StartOf, handled, from, handled')
      /\ stackOff' \in Nat
  BY <1>1 DEF Owned, NewSlot, TypeOK, X64_MAX_INT_REG_SIZE
<1>4. /\ rest \in Seq(LRegs) /\ Range(active) = Range(rest) \cup {from}
      /\ Distinct(rest) /\ from \notin Range(rest)
  <2>1. Distinct(active)
    BY DEF Shape
  <2> QED  BY ONLY <1>2, <2>1, RemoveAtKeeps
<1> HIDE DEF from, rest
<1>5. /\ loc[cur].kind = "unassigned" /\ cur \notin U /\ U \subseteq LRegs /\ A \subseteq LRegs
      /\ cur \in Pending /\ U \subseteq Pending
      /\ loc[from].kind = "reg" /\ loc[from].reg \in PRegs /\ rmap[loc[from].reg] = from
      /\ cur \notin A /\ cur # from
  <2>1. /\ cur \notin U /\ U \subseteq LRegs /\ A \subseteq LRegs
        /\ cur \in Pending /\ U \subseteq Pending
    BY <1>2, RangeMembers DEF Shape, Pending, U, A, TypeOK
  <2>2. loc[cur].kind = "unassigned"
    BY <2>1 DEF UnplacedPending
  <2>3. \A b \in A : loc[b].reg \in PRegs /\ loc[b].kind = "reg" /\ rmap[loc[b].reg] = b
    BY <2>1 DEF ActiveOwns, Shape
  <2> QED  BY <1>2, <2>1, <2>2, <2>3
<1>6. /\ active' \in Seq(LRegs) /\ Distinct(active') /\ handled' \in Seq(LRegs)
      /\ \A y : y \in A' <=> ((y \in A /\ y # from) \/ y = cur)
  <2>1. handled' \in Seq(LRegs)
    BY ONLY <1>2, <1>3, AddByKeeps
  <2>2. cur \notin Range(rest)
    BY <1>4, <1>5 DEF A
  <2>3. /\ AddBy(EndOf, rest, cur, active') /\ EndOf \in [LRegs -> Int]
        /\ rest \in Seq(LRegs) /\ cur \in LRegs
    BY ONLY <1>2, <1>3, <1>4
  <2>4. active' \in Seq(LRegs)
    BY ONLY <2>3, AddByKeeps
  <2>5. Distinct(active')
    BY ONLY <1>4, <2>2, <2>3, AddByKeeps
  <2>6. \A y : y \in Range(active') <=> (y \in Range(rest) \/ y = cur)
    BY ONLY <2>3, AddByKeeps
  <2> QED  BY <1>4, <2>1, <2>4, <2>5, <2>6 DEF A
<1>7. U' = U /\ Pending' = U
  BY <1>2 DEF U, Pending
<1>8. /\ loc'[cur].kind = "reg" /\ loc'[cur].reg = loc[from].reg
      /\ loc'[from].kind = "stack" /\ loc'[from].reg = None
      /\ \A y \in LRegs : (y # cur /\ y # from) => loc'[y] = loc[y]
  BY <1>2, <1>3, <1>5 DEF TypeOK, InReg, OnStack
<1>9. TypeOK' /\ Building'
  <2>1. InReg(loc[from].reg) \in Locations /\ OnStack(stackOff') \in Locations
    BY <1>3, <1>5 DEF InReg, OnStack, Locations
  <2>2. loc \in [LRegs -> Locations] /\ rmap \in [PRegs -> LRegs \cup {None}]
    BY DEF TypeOK
  <2>3. loc' \in [LRegs -> Locations]
    BY <1>3, <2>1, <2>2
  <2>4. rmap' \in [PRegs -> LRegs \cup {None}]
    BY <1>2, <1>3, <2>2
  <2>5. UNCHANGED <<site, it, saveMask>>
    BY <1>2 DEF calls
  <2> QED  BY <1>2, <1>3, <1>6, <2>3, <2>4, <2>5 DEF TypeOK, Building
<1>10. Shape'
  <2>1. \A x \in LRegs : (loc'[x].kind = "reg") <=> (loc'[x].reg # None)
    BY <1>5, <1>8 DEF Shape
  <2>2. Distinct(unhandled') /\ Distinct(active') /\ phase' = "scan" /\ cur' \notin U'
    BY <1>2, <1>5, <1>6, <1>7 DEF Shape
  <2> QED  BY <2>1, <2>2 DEF Shape
<1>11. UnplacedPending'
  <2>1. from \notin U
    BY <1>5 DEF UnplacedPending
  <2> QED  BY <1>5, <1>7, <1>8, <2>1 DEF UnplacedPending
<1>12. \A b \in A : b # from => loc[b].reg # loc[from].reg
  BY <1>5 DEF ActiveOwns
<1>13. ActiveOwns'
  <2>1. ASSUME NEW b \in A' PROVE loc'[b].reg \in PRegs /\ rmap'[loc'[b].reg] = b
    <3>1. CASE b = cur
      BY <1>3, <1>5, <1>8, <3>1 DEF TypeOK
    <3>2. CASE b # cur
      <4>1. b \in A /\ b # from /\ loc'[b] = loc[b]
        BY <1>5, <1>6, <1>8, <2>1, <3>2
      <4>2. loc[b].reg \in PRegs /\ rmap[loc[b].reg] = b /\ loc[b].reg # loc[from].reg
        BY <1>12, <4>1 DEF ActiveOwns
      <4> QED  BY <1>3, <4>1, <4>2 DEF TypeOK
    <3> QED  BY <3>1, <3>2
  <2> QED  BY <2>1 DEF ActiveOwns
<1>14. InOrder'
  BY <1>2, <1>7 DEF InOrder, StartOf, Iv
<1>15. RetiredBeforePending'
  BY <1>2, <1>5, <1>6, <1>7, <1>8 DEF RetiredBeforePending, Iv
<1>16. NoSharedRegister'
  <2>1. ASSUME NEW y \in LRegs, y # cur, y # from, loc[y].reg = loc[from].reg
        PROVE  ~Intersect(cur, y) /\ ~Intersect(y, cur)
    <3>1. y \notin A
      BY <1>12, <2>1
    <3>2. Iv(y).end <= Iv(cur).start
      BY <1>5, <2>1, <3>1 DEF RetiredBeforePending
    <3> QED  BY <1>2, <3>2, ProgramTypes DEF Intersect, TypeOK
  <2> QED  BY ZenonT(40), <1>2, <1>5, <1>8, <2>1 DEF NoSharedRegister, RegOf, Intersect, Iv
<1> QED  BY <1>9, <1>10, <1>11, <1>13, <1>14, <1>15, <1>16

(* Steps that touch neither the lists nor the locations. *)
LEMMA OtherStepsKeep ==
  ASSUME IInv, UNCHANGED <<prog, unhandled, active, cur, rmap, loc>>, TypeOK',
         \/ phase' = phase /\ nxt' = nxt
         \/ phase' \in {"failed", "aborted"}
         \/ phase' \in {"calls", "done"} /\ Pending = {}
  PROVE  IInv'
<1> USE DEF IInv
<1>1. A' = A /\ U' = U /\ Pending' = Pending
  BY DEF A, U, Pending
<1>2. Building' /\ Shape'
  BY <1>1 DEF Building, Shape
<1> QED
  BY <1>1, <1>2 DEF UnplacedPending, ActiveOwns, InOrder, StartOf, RetiredBeforePending,
     NoSharedRegister, RegOf, Intersect, Iv

(* X64_next_reg only returns a free register. *)
LEMMA NextRegIsFree ==
  ASSUME NEW c, NEW banned, NEW hint, NEW r, IsNextReg(c, banned, hint, r)
  PROVE  rmap[r] = None
  BY DEF IsNextReg, HintUsable, Available

LEMMA PlaceKeeps == IInv /\ Place => IInv'
<1> SUFFICES ASSUME IInv, Place PROVE IInv'
  OBVIOUS
<1>1. CASE PlaceForced
  <2>1. Iv(cur).preg \in PRegs
    BY <1>1, ProgramTypes DEF PlaceForced, Placing, IInv, TypeOK
  <2> QED  BY <1>1, <2>1, OccupyKeeps DEF PlaceForced, Placing
<1>2. CASE PlaceForcedAny
  BY <1>2, OccupyKeeps, NextRegIsFree DEF PlaceForcedAny, Placing
<1>3. CASE PlaceRegOrSpill
  BY <1>3, OccupyKeeps, SpillKeeps, NextRegIsFree DEF PlaceRegOrSpill, Placing
<1>4. CASE PlaceInFreeReg
  BY <1>4, OccupyKeeps, NextRegIsFree DEF PlaceInFreeReg, Placing
<1>5. CASE SpillLongest
  BY <1>5, SpillKeeps DEF SpillLongest, Placing
<1>6. CASE StealReg
  BY <1>6, StealRegKeeps
<1> QED  BY <1>1, <1>2, <1>3, <1>4, <1>5, <1>6 DEF Place

LEMMA NextKeeps == IInv /\ [Next]_vars => IInv'
<1> SUFFICES ASSUME IInv, [Next]_vars PROVE IInv'
  OBVIOUS
<1>1. CASE Build
  BY <1>1, BuildKeeps
<1>2. CASE Scan
  <2>1. CASE StartCallSites
    <3>1. Pending = {}
      BY <2>1, AllocAssumption DEF StartCallSites, Pending, U, Range
    <3>2. TypeOK'
      BY <2>1 DEF StartCallSites, IInv, TypeOK, lists, results, calls
    <3> QED  BY <2>1, <3>1, <3>2, OtherStepsKeep DEF StartCallSites, lists, results
  <2> QED  BY <1>2, <2>1, TakeNextKeeps, ExpireOldKeeps, DrainActiveKeeps DEF Scan
<1>3. CASE Place
  BY <1>3, PlaceKeeps
<1>4. CASE GiveUp
  <2>1. PICK how \in {"failed", "aborted"} : Stop(how)
    BY <1>4 DEF GiveUp, AssertForcedFree, AssertAnyRegFound, AssertCountInBudget, FailNoReg
  <2>2. TypeOK'
    BY <2>1 DEF Stop, IInv, TypeOK, lists, results, calls, Terminal
  <2> QED  BY <2>1, <2>2, OtherStepsKeep DEF Stop, lists, results
<1>5. CASE CallSite
  <2>1. PICK k \in it..(Len(handled) + 1) :
          /\ it' = k
          /\ saveMask' = Append(saveMask,
               {loc[handled[m]].reg : m \in
                  {n \in k..Len(handled) :
                     /\ \A j \in k..n : StartsBefore(j, prog.sites[site])
                     /\ LiveAcross(n, prog.sites[site])}})
    BY <1>5 DEF CallSite
  <2> DEFINE saved == {loc[handled[m]].reg : m \in
                         {n \in k..Len(handled) :
                            /\ \A j \in k..n : StartsBefore(j, prog.sites[site])
                            /\ LiveAcross(n, prog.sites[site])}}
  <2>2. saved \subseteq PRegs
    BY AllocAssumption DEF LiveAcross
  <2>3. saveMask' \in Seq(SUBSET PRegs)
    <3> HIDE DEF saved
    <3>1. saveMask \in Seq(SUBSET PRegs)
      BY DEF IInv, TypeOK
    <3> QED  BY <2>1, <2>2, <3>1 DEF saved
  <2>4. it' \in Nat /\ site' \in Nat
    BY <1>5, <2>1 DEF CallSite, IInv, TypeOK
  <2>5. TypeOK'
    BY <1>5, <2>3, <2>4 DEF CallSite, IInv, TypeOK, lists, results
  <2> QED  BY <1>5, <2>5, OtherStepsKeep DEF CallSite, lists, results
<1>6. CASE Finish
  <2>1. stackOff' \in Nat
    BY <1>6 DEF Finish, IInv, TypeOK, AlignUp, X64_STACK_ALIGN
  <2>2. TypeOK'
    BY <1>6, <2>1 DEF Finish, IInv, TypeOK, lists, calls, Terminal
  <2>3. Pending = {}
    BY <1>6 DEF Finish, IInv, Shape
  <2> QED  BY <1>6, <2>2, <2>3, OtherStepsKeep DEF Finish, lists
<1>7. CASE UNCHANGED vars
  <2>1. TypeOK'
    BY <1>7 DEF vars, IInv, TypeOK, lists, results, calls
  <2> QED  BY <1>7, <2>1, OtherStepsKeep DEF vars, lists, results
<1> QED
  BY <1>1, <1>2, <1>3, <1>4, <1>5, <1>6, <1>7 DEF Next, Step, Returned

THEOREM Invariance == Spec => []IInv
  BY InitIInv, NextKeeps, PTL DEF Spec

(* Type correctness. *)
THEOREM TypeCorrect == Spec => []TypeOK
<1>1. IInv => TypeOK
  BY DEF IInv
<1> QED  BY <1>1, Invariance, PTL

(* The allocator never gives one physical register to two values that are
   live at once, whatever the procedure, the registers and their order of
   preference, and the constraints: reg_alloc.c's expiry, its choice of a
   free register and its stealing are safe together. *)
THEOREM NoSharing == Spec => []NoSharedRegister
<1>1. IInv => NoSharedRegister
  BY DEF IInv
<1> QED  BY <1>1, Invariance, PTL

=============================================================================
