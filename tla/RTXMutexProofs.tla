---------------------------- MODULE RTXMutexProofs ----------------------------
(***************************************************************************)
(* Theorems about the kernel's mutexes, for every finite set of tasks and  *)
(* every set of mutexes.                                                   *)
(***************************************************************************)
EXTENDS RTXMutex, ListLemmas

(* Lists.                                                                  *)
Sorted(lst, p) == \A i, j \in DOMAIN lst : i < j => p[lst[i]] >= p[lst[j]]

(* A task is put behind all those of its own priority or a higher one.     *)
LEMMA PutPrioPlace ==
  ASSUME NEW p \in [Tasks -> Nat], NEW lst \in Seq(Tasks), Sorted(lst, p), NEW t \in Tasks
  PROVE  \E k \in 1 .. Len(lst) + 1 :
            /\ rt_put_prio(lst, t, p) = InsertAt(lst, k, t)
            /\ \A i \in 1 .. k - 1 : p[lst[i]] >= p[t]
            /\ \A i \in k .. Len(lst) : p[lst[i]] < p[t]
<1> DEFINE I == {i \in 1 .. Len(lst) : p[lst[i]] < p[t]}
<1>0. /\ Len(lst) \in Nat /\ DOMAIN lst = 1 .. Len(lst)
      /\ \A i \in 1 .. Len(lst) : lst[i] \in Tasks /\ p[lst[i]] \in Nat
      /\ p[t] \in Nat
  BY LenProperties, ElementOfSeq
<1>1. CASE I = {}
  <2>1. rt_put_prio(lst, t, p) = Append(lst, t)
    BY <1>1 DEF rt_put_prio, SelectInSeq
  <2>2. Append(lst, t) = InsertAt(lst, Len(lst) + 1, t)
    <3>1. InsertAt(lst, Len(lst) + 1, t) \in Seq(Tasks) /\ Append(lst, t) \in Seq(Tasks)
      BY <1>0, InsertAtProperties, AppendProperties
    <3>2. /\ Len(InsertAt(lst, Len(lst) + 1, t)) = Len(lst) + 1
          /\ \A i \in 1 .. Len(lst) : InsertAt(lst, Len(lst) + 1, t)[i] = lst[i]
          /\ InsertAt(lst, Len(lst) + 1, t)[Len(lst) + 1] = t
      <4>1. PICK k \in 1 .. Len(lst) + 1 : k = Len(lst) + 1
        BY <1>0
      <4>2. /\ Len(InsertAt(lst, k, t)) = Len(lst) + 1
            /\ \A i \in 1 .. k - 1 : InsertAt(lst, k, t)[i] = lst[i]
            /\ InsertAt(lst, k, t)[k] = t
        BY InsertAtProperties
      <4> QED BY <1>0, <4>1, <4>2
    <3>3. /\ Len(Append(lst, t)) = Len(lst) + 1
          /\ \A i \in 1 .. Len(lst) : Append(lst, t)[i] = lst[i]
          /\ Append(lst, t)[Len(lst) + 1] = t
      BY AppendProperties
    <3>4. \A i \in 1 .. Len(lst) + 1 : Append(lst, t)[i] = InsertAt(lst, Len(lst) + 1, t)[i]
      BY <1>0, <3>2, <3>3
    <3> QED BY <3>1, <3>2, <3>3, <3>4, SeqEqual
  <2>3. \A i \in 1 .. Len(lst) : p[lst[i]] >= p[t]
    BY <1>0, <1>1
  <2> QED BY <1>0, <2>1, <2>2, <2>3
<1>2. CASE I # {}
  <2>1. I \in SUBSET Nat
    BY <1>0
  <2>2. Min(I) \in I /\ \A i \in I : Min(I) <= i
    BY <1>2, <2>1, MinProperty
  <2>3. SelectInSeq(lst, LAMBDA u : p[u] < p[t]) = Min(I)
    BY <1>2 DEF SelectInSeq
  <2>4. PICK k \in 1 .. Len(lst) : k = Min(I) /\ p[lst[k]] < p[t] /\ \A i \in I : k <= i
    BY <2>2
  <2>5. rt_put_prio(lst, t, p) = InsertAt(lst, k, t)
    BY <2>3, <2>4, <1>0 DEF rt_put_prio
  <2>6. \A i \in 1 .. k - 1 : p[lst[i]] >= p[t]
    BY <1>0, <2>4
  <2>7. \A i \in k .. Len(lst) : p[lst[i]] < p[t]
    BY <1>0, <2>4 DEF Sorted
  <2>8. k \in 1 .. Len(lst) + 1
    BY <1>0
  <2> WITNESS k \in 1 .. Len(lst) + 1
  <2> QED BY <2>5, <2>6, <2>7
<1> QED BY <1>1, <1>2

(* A list of the kernel: no task twice, in the order of the priorities p.  *)
List(lst, p) == lst \in Seq(Tasks) /\ IsInjective(lst) /\ Sorted(lst, p)

(* What the indices, the elements and membership of a list are.            *)
LEMMA SetOfList ==
  ASSUME NEW S, NEW s \in Seq(S)
  PROVE  /\ DOMAIN s = 1 .. Len(s) /\ Len(s) \in Nat
         /\ \A i \in 1 .. Len(s) : s[i] \in S /\ s[i] \in ToSet(s)
         /\ \A u : u \in ToSet(s) <=> \E i \in 1 .. Len(s) : u = s[i]
         /\ \A u : Contains(s, u) <=> u \in ToSet(s)
         /\ ToSet(s) \subseteq S
<1>1. DOMAIN s = 1 .. Len(s) /\ Len(s) \in Nat /\ \A i \in 1 .. Len(s) : s[i] \in S
  BY LenProperties, ElementOfSeq
<1> QED BY <1>1 DEF ToSet, Contains

(* Ahead, by indices: some place of u comes before some place of t.        *)
LEMMA AheadMeaning ==
  ASSUME NEW lst \in Seq(Tasks), NEW t, NEW u
  PROVE  u \in Ahead(t, lst) <=> \E i, j \in 1 .. Len(lst) : i < j /\ lst[i] = u /\ lst[j] = t
BY SetOfList DEF Ahead

(* A list is sorted when nothing in it is ahead of something more urgent.  *)
LEMMA SortedMeaning ==
  ASSUME NEW lst \in Seq(Tasks), NEW p \in [Tasks -> Nat]
  PROVE  Sorted(lst, p) <=> \A t \in Tasks : \A u \in Ahead(t, lst) : p[u] >= p[t]
<1>1. DOMAIN lst = 1 .. Len(lst) /\ \A i \in 1 .. Len(lst) : lst[i] \in Tasks
  BY SetOfList
<1>2. ASSUME Sorted(lst, p), NEW t \in Tasks, NEW u \in Ahead(t, lst) PROVE p[u] >= p[t]
  <2>1. PICK i \in 1 .. Len(lst), j \in 1 .. Len(lst) : i < j /\ lst[i] = u /\ lst[j] = t
    BY <1>2, AheadMeaning
  <2> QED BY <1>1, <1>2, <2>1 DEF Sorted
<1>3. ASSUME \A t \in Tasks : \A u \in Ahead(t, lst) : p[u] >= p[t],
             NEW i \in 1 .. Len(lst), NEW j \in 1 .. Len(lst), i < j
      PROVE  p[lst[i]] >= p[lst[j]]
  BY <1>1, <1>3, AheadMeaning
<1> QED BY <1>1, <1>2, <1>3 DEF Sorted

(* Of two tasks in a list one is ahead.                                     *)
LEMMA OneIsAhead ==
  ASSUME NEW lst \in Seq(Tasks), NEW t \in ToSet(lst), NEW u \in ToSet(lst), t # u
  PROVE  t \in Ahead(u, lst) \/ u \in Ahead(t, lst)
<1>1. PICK i \in 1 .. Len(lst) : t = lst[i]
  BY SetOfList
<1>2. PICK j \in 1 .. Len(lst) : u = lst[j]
  BY SetOfList
<1>3. i < j \/ j < i
  BY <1>1, <1>2, SetOfList
<1> QED BY <1>1, <1>2, <1>3, AheadMeaning

(* rt_put_prio keeps a list sorted and puts t behind its equals: nothing   *)
(* gets ahead of those there.                                              *)
LEMMA PutPrio ==
  ASSUME NEW p \in [Tasks -> Nat], NEW lst, List(lst, p), NEW t \in Tasks, t \notin ToSet(lst),
         NEW res, res = rt_put_prio(lst, t, p)
  PROVE  /\ List(res, p) /\ ToSet(res) = ToSet(lst) \cup {t} /\ res # << >>
         /\ \A v \in Tasks : \A u \in Ahead(v, res) \ Ahead(v, lst) :
              \/ v = t /\ u # t /\ p[u] >= p[t]
              \/ u = t /\ v # t /\ p[v] < p[t]
<1>0. lst \in Seq(Tasks) /\ IsInjective(lst) /\ Sorted(lst, p) /\ p[t] \in Nat
  BY DEF List
<1>1. PICK k \in 1 .. Len(lst) + 1 :
        /\ rt_put_prio(lst, t, p) = InsertAt(lst, k, t)
        /\ \A i \in 1 .. k - 1 : p[lst[i]] >= p[t]
        /\ \A i \in k .. Len(lst) : p[lst[i]] < p[t]
  BY <1>0, PutPrioPlace
<1>2. /\ res \in Seq(Tasks) /\ Len(res) = Len(lst) + 1
      /\ \A i \in 1 .. k - 1 : res[i] = lst[i]
      /\ res[k] = t
      /\ \A i \in k .. Len(lst) : res[i + 1] = lst[i]
  <2>0. lst \in Seq(Tasks) /\ t \in Tasks /\ k \in 1 .. Len(lst) + 1
    BY <1>0
  <2>1. res = InsertAt(lst, k, t)
    BY <1>0, <1>1
  <2>2. /\ InsertAt(lst, k, t) \in Seq(Tasks) /\ Len(InsertAt(lst, k, t)) = Len(lst) + 1
        /\ \A i \in 1 .. k - 1 : InsertAt(lst, k, t)[i] = lst[i]
        /\ InsertAt(lst, k, t)[k] = t
        /\ \A i \in k .. Len(lst) : InsertAt(lst, k, t)[i + 1] = lst[i]
    BY <2>0, InsertAtProperties
  <2> QED BY <2>1, <2>2
<1>3. /\ DOMAIN lst = 1 .. Len(lst) /\ Len(lst) \in Nat
      /\ \A i \in 1 .. Len(lst) : lst[i] \in Tasks /\ lst[i] # t /\ p[lst[i]] \in Nat
  BY <1>0, SetOfList
<1> HIDE DEF Sorted
<1> DEFINE old(i) == IF i < k THEN i ELSE i - 1
<1>4. ASSUME NEW i \in 1 .. Len(res), i # k
      PROVE  old(i) \in 1 .. Len(lst) /\ res[i] = lst[old(i)]
  <2>1. CASE i < k
    BY <1>2, <1>3, <2>1
  <2>2. CASE i > k
    <3>1. i - 1 \in k .. Len(lst) /\ (i - 1) + 1 = i
      BY <1>2, <1>3, <2>2
    <3>2. res[i] = lst[i - 1]
      BY <1>2, <3>1
    <3> QED BY <1>3, <2>2, <3>1, <3>2
  <2> QED BY <1>2, <1>3, <1>4, <2>1, <2>2
<1>5. \A i \in 1 .. Len(lst) : \E j \in 1 .. Len(res) : res[j] = lst[i]
  <2>1. ASSUME NEW i \in 1 .. Len(lst), i < k PROVE \E j \in 1 .. Len(res) : res[j] = lst[i]
    BY <1>2, <1>3, <2>1
  <2>2. ASSUME NEW i \in 1 .. Len(lst), ~(i < k) PROVE \E j \in 1 .. Len(res) : res[j] = lst[i]
    <3>1. i + 1 \in 1 .. Len(res) /\ i \in k .. Len(lst)
      BY <1>2, <1>3, <2>2
    <3> QED BY <1>2, <3>1
  <2> QED BY <2>1, <2>2
<1>6. k \in 1 .. Len(res) /\ DOMAIN res = 1 .. Len(res)
  BY <1>2, <1>3, SetOfList
<1>7. ToSet(res) = ToSet(lst) \cup {t}
  <2>1. ASSUME NEW u \in ToSet(res) PROVE u \in ToSet(lst) \cup {t}
    <3>1. PICK i \in 1 .. Len(res) : u = res[i]
      BY <1>2, SetOfList
    <3>2. CASE i # k
      <4>1. old(i) \in 1 .. Len(lst) /\ u = lst[old(i)]
        BY <1>4, <3>1, <3>2
      <4> HIDE DEF old
      <4> QED BY <1>0, <4>1, SetOfList
    <3> QED BY <1>2, <3>1, <3>2
  <2>2. ASSUME NEW u \in ToSet(lst) PROVE u \in ToSet(res)
    <3>1. PICK i \in 1 .. Len(lst) : u = lst[i]
      BY <1>0, SetOfList
    <3>2. PICK j \in 1 .. Len(res) : res[j] = lst[i]
      BY <1>5
    <3> QED BY <1>2, <3>1, <3>2, SetOfList
  <2>3. t \in ToSet(res)
    BY <1>2, <1>6, SetOfList
  <2> QED BY <2>1, <2>2, <2>3
<1>8. IsInjective(res)
  <2> SUFFICES ASSUME NEW i \in 1 .. Len(res), NEW j \in 1 .. Len(res), res[i] = res[j]
               PROVE  i = j
    BY <1>6 DEF IsInjective
  <2>1. CASE i = k \/ j = k
    <3>1. res[i] = t /\ res[j] = t
      BY <1>2, <2>1
    <3>2. ASSUME NEW h \in 1 .. Len(res), h # k PROVE res[h] # t
      BY <1>3, <1>4, <3>2
    <3> QED BY <3>1, <3>2
  <2>2. CASE i # k /\ j # k
    <3>1. /\ old(i) \in 1 .. Len(lst) /\ old(j) \in 1 .. Len(lst)
          /\ lst[old(i)] = lst[old(j)]
      BY <1>4, <2>2
    <3>2. old(i) = old(j)
      BY <1>0, <1>3, <3>1 DEF IsInjective
    <3>3. i \in Int /\ j \in Int /\ k \in Int
      BY <1>2, <1>3
    <3> QED BY <2>2, <3>2, <3>3
  <2> QED BY <2>1, <2>2
<1>9. ASSUME NEW v \in Tasks, NEW u \in Ahead(v, res)
      PROVE  \/ u \in Ahead(v, lst)
             \/ v = t /\ u # t /\ u \in Tasks /\ p[u] >= p[t]
             \/ u = t /\ v # t /\ p[v] < p[t]
  <2>1. PICK i \in 1 .. Len(res), j \in 1 .. Len(res) : i < j /\ res[i] = u /\ res[j] = v
    BY <1>2, <1>9, AheadMeaning
  <2>2. i \in Int /\ j \in Int /\ k \in Int
    BY <1>2, <1>3
  <2>3. CASE i # k /\ j # k
    <3>1. /\ old(i) \in 1 .. Len(lst) /\ old(j) \in 1 .. Len(lst)
          /\ lst[old(i)] = u /\ lst[old(j)] = v
      BY <1>4, <2>1, <2>3
    <3>2. old(i) < old(j)
      BY <2>1, <2>2, <2>3
    <3> HIDE DEF old
    <3> QED BY <1>0, <3>1, <3>2, AheadMeaning
  <2>4. CASE i = k
    <3>1. u = t /\ j - 1 \in k .. Len(lst) /\ v = lst[j - 1]
      BY <1>2, <1>3, <1>4, <2>1, <2>2, <2>4
    <3> QED BY <1>1, <1>3, <3>1
  <2>5. CASE j = k
    <3>1. v = t /\ i \in 1 .. k - 1 /\ u = lst[i] /\ i \in 1 .. Len(lst)
      BY <1>2, <1>3, <2>1, <2>2, <2>5
    <3> QED BY <1>1, <1>3, <3>1
  <2> QED BY <2>3, <2>4, <2>5
<1>10. Sorted(res, p)
  <2>1. \A v \in Tasks : \A u \in Ahead(v, lst) : p[u] >= p[v]
    BY <1>0, SortedMeaning
  <2>2. ASSUME NEW v \in Tasks, NEW u \in Ahead(v, res) PROVE p[u] >= p[v]
    <3>1. p[v] \in Nat /\ p[t] \in Nat
      OBVIOUS
    <3>2. CASE u \in Ahead(v, lst)
      BY <2>1, <3>2
    <3>3. CASE v = t /\ u # t /\ u \in Tasks /\ p[u] >= p[t]
      BY <3>3
    <3>4. CASE u = t /\ v # t /\ p[v] < p[t]
      BY <3>1, <3>4
    <3> QED BY <1>9, <2>2, <3>2, <3>3, <3>4
  <2> QED BY <1>2, <2>2, SortedMeaning
<1>11. res # << >>
  BY <1>2, <1>3
<1> QED BY <1>2, <1>7, <1>8, <1>9, <1>10, <1>11 DEF List

(* Taking a task out of a list leaves the order of the others.              *)
LEMMA RemoveFirstOrder ==
  ASSUME NEW lst \in Seq(Tasks), IsInjective(lst), NEW t \in Tasks,
         NEW res, res = RemoveFirst(lst, t)
  PROVE  /\ res \in Seq(Tasks) /\ IsInjective(res) /\ ToSet(res) = ToSet(lst) \ {t}
         /\ \A v \in Tasks : Ahead(v, res) \subseteq Ahead(v, lst)
<1>0. /\ DOMAIN lst = 1 .. Len(lst) /\ Len(lst) \in Nat
      /\ \A i \in 1 .. Len(lst) : lst[i] \in Tasks
  BY SetOfList
<1>1. CASE t \notin ToSet(lst)
  <2>1. ~\E i \in 1 .. Len(lst) : lst[i] = t
    BY <1>1, SetOfList
  <2>2. res = lst
    BY <2>1 DEF RemoveFirst
  <2> QED BY <1>1, <2>2
<1>2. CASE t \in ToSet(lst)
  <2> DEFINE I == {i \in 1 .. Len(lst) : lst[i] = t}
  <2>1. PICK k \in 1 .. Len(lst) : lst[k] = t /\ res = RemoveAt(lst, k)
    <3>1. I # {} /\ I \in SUBSET Nat /\ \E i \in 1 .. Len(lst) : lst[i] = t
      BY <1>0, <1>2, SetOfList
    <3>2. SelectInSeq(lst, LAMBDA v : v = t) = Min(I)
      BY <3>1 DEF SelectInSeq
    <3>3. Min(I) \in I
      BY <3>1, MinProperty
    <3>4. res = RemoveAt(lst, Min(I))
      BY <3>1, <3>2 DEF RemoveFirst
    <3> QED BY <3>3, <3>4
  <2> HIDE DEF I
  <2>2. /\ res \in Seq(Tasks) /\ Len(res) = Len(lst) - 1
        /\ \A i \in 1 .. k - 1 : res[i] = lst[i]
        /\ \A i \in k .. Len(lst) - 1 : res[i] = lst[i + 1]
    <3>0. k \in 1 .. Len(lst)
      OBVIOUS
    <3>1. /\ RemoveAt(lst, k) \in Seq(Tasks) /\ Len(RemoveAt(lst, k)) = Len(lst) - 1
          /\ \A i \in 1 .. k - 1 : RemoveAt(lst, k)[i] = lst[i]
          /\ \A i \in k .. Len(lst) - 1 : RemoveAt(lst, k)[i] = lst[i + 1]
      BY <3>0, RemoveAtProperties
    <3> QED BY <2>1, <3>1
  <2>3. k \in Int /\ DOMAIN res = 1 .. Len(res) /\ Len(res) \in Nat
    BY <1>0, <2>2, SetOfList
  <2> DEFINE old(i) == IF i < k THEN i ELSE i + 1
  <2>4. ASSUME NEW i \in 1 .. Len(res)
        PROVE  old(i) \in 1 .. Len(lst) /\ old(i) # k /\ res[i] = lst[old(i)]
    <3>1. CASE i < k
      BY <1>0, <2>2, <2>3, <3>1
    <3>2. CASE ~(i < k)
      <4>1. i \in k .. Len(lst) - 1
        BY <1>0, <2>2, <2>3, <3>2
      <4> QED BY <1>0, <2>2, <2>3, <3>2, <4>1
    <3> QED BY <3>1, <3>2
  <2>5. ASSUME NEW i \in 1 .. Len(res), NEW j \in 1 .. Len(res)
        PROVE  (old(i) = old(j) => i = j) /\ (i < j => old(i) < old(j))
    BY <2>3
  <2>6. \A i \in 1 .. Len(lst) : i # k => \E j \in 1 .. Len(res) : res[j] = lst[i]
    <3>1. ASSUME NEW i \in 1 .. Len(lst), i < k PROVE \E j \in 1 .. Len(res) : res[j] = lst[i]
      <4>1. i \in 1 .. Len(res) /\ i \in 1 .. k - 1
        BY <1>0, <2>2, <2>3, <3>1
      <4> QED BY <2>2, <4>1
    <3>2. ASSUME NEW i \in 1 .. Len(lst), i > k PROVE \E j \in 1 .. Len(res) : res[j] = lst[i]
      <4>1. i - 1 \in 1 .. Len(res) /\ i - 1 \in k .. Len(lst) - 1 /\ (i - 1) + 1 = i
        BY <1>0, <2>2, <2>3, <3>2
      <4>2. res[i - 1] = lst[i]
        BY <2>2, <4>1
      <4> QED BY <4>1, <4>2
    <3>3. \A i \in 1 .. Len(lst) : i # k => i < k \/ i > k
      BY <1>0, <2>3
    <3> QED BY <3>1, <3>2, <3>3
  <2> HIDE DEF old
  <2>7. IsInjective(res)
    <3> SUFFICES ASSUME NEW i \in 1 .. Len(res), NEW j \in 1 .. Len(res), res[i] = res[j]
                 PROVE  i = j
      BY <2>3 DEF IsInjective
    <3>1. /\ old(i) \in DOMAIN lst /\ old(j) \in DOMAIN lst
          /\ lst[old(i)] = lst[old(j)]
      BY <1>0, <2>4
    <3>2. old(i) = old(j)
      BY <3>1 DEF IsInjective
    <3> QED BY <2>5, <3>2
  <2>8. ASSUME NEW u \in ToSet(res) PROVE u \in ToSet(lst) \ {t}
    <3>1. PICK i \in 1 .. Len(res) : u = res[i]
      BY <2>2, SetOfList
    <3>2. old(i) \in 1 .. Len(lst) /\ old(i) # k /\ u = lst[old(i)]
      BY <2>4, <3>1
    <3>3. u # t
      BY <1>0, <2>1, <3>2 DEF IsInjective
    <3> QED BY <3>2, <3>3, SetOfList
  <2>9. ASSUME NEW u \in ToSet(lst) \ {t} PROVE u \in ToSet(res)
    <3>1. PICK i \in 1 .. Len(lst) : u = lst[i]
      BY SetOfList
    <3>2. PICK j \in 1 .. Len(res) : res[j] = lst[i]
      BY <2>1, <2>6, <3>1
    <3> QED BY <2>2, <3>1, <3>2, SetOfList
  <2>10. ASSUME NEW v \in Tasks, NEW u \in Ahead(v, res) PROVE u \in Ahead(v, lst)
    <3>1. PICK i \in 1 .. Len(res), j \in 1 .. Len(res) : i < j /\ res[i] = u /\ res[j] = v
      BY <2>2, <2>10, AheadMeaning
    <3>2. /\ old(i) \in 1 .. Len(lst) /\ old(j) \in 1 .. Len(lst) /\ old(i) < old(j)
          /\ lst[old(i)] = u /\ lst[old(j)] = v
      BY <2>4, <2>5, <3>1
    <3> QED BY <3>2, AheadMeaning
  <2> QED BY <2>2, <2>7, <2>8, <2>9, <2>10
<1> QED BY <1>1, <1>2

(* Taking a task out of a list leaves a list, and its order.               *)
LEMMA RemoveFromList ==
  ASSUME NEW p \in [Tasks -> Nat], NEW lst, List(lst, p), NEW t \in Tasks
  PROVE  /\ List(RemoveFirst(lst, t), p) /\ ToSet(RemoveFirst(lst, t)) = ToSet(lst) \ {t}
         /\ \A v \in Tasks : Ahead(v, RemoveFirst(lst, t)) \subseteq Ahead(v, lst)
<1>1. lst \in Seq(Tasks) /\ IsInjective(lst) /\ Sorted(lst, p)
  BY DEF List
<1> DEFINE res == RemoveFirst(lst, t)
<1>2. /\ res \in Seq(Tasks) /\ IsInjective(res) /\ ToSet(res) = ToSet(lst) \ {t}
      /\ \A v \in Tasks : Ahead(v, res) \subseteq Ahead(v, lst)
  BY <1>1, RemoveFirstOrder
<1> HIDE DEF res, Sorted
<1>3. Sorted(res, p)
  <2>1. \A v \in Tasks : \A u \in Ahead(v, lst) : p[u] >= p[v]
    BY <1>1, SortedMeaning
  <2>2. \A v \in Tasks : \A u \in Ahead(v, res) : p[u] >= p[v]
    BY <1>2, <2>1
  <2> QED BY <1>2, <2>2, SortedMeaning
<1>4. List(res, p)
  BY <1>2, <1>3 DEF List
<1> QED BY <1>2, <1>4 DEF res

(* A task in front of a list, and a list less its first task.              *)
LEMMA InFront ==
  ASSUME NEW lst \in Seq(Tasks), NEW t \in Tasks
  PROVE  /\ <<t>> \o lst \in Seq(Tasks) /\ Len(<<t>> \o lst) = Len(lst) + 1
         /\ (<<t>> \o lst)[1] = t
         /\ \A i \in 1 .. Len(lst) : (<<t>> \o lst)[i + 1] = lst[i]
         /\ \A i \in 1 .. Len(lst) + 1 : i # 1 => /\ i - 1 \in 1 .. Len(lst)
                                                /\ (<<t>> \o lst)[i] = lst[i - 1]
         /\ <<t>> \o lst # << >>
         /\ ToSet(<<t>> \o lst) = {t} \cup ToSet(lst)
<1> DEFINE res == <<t>> \o lst
<1>0. Len(lst) \in Nat /\ <<t>> \in Seq(Tasks) /\ Len(<<t>>) = 1 /\ <<t>>[1] = t
  BY SetOfList
<1>1. /\ res \in Seq(Tasks) /\ Len(res) = Len(<<t>>) + Len(lst)
      /\ \A i \in 1 .. Len(<<t>>) + Len(lst) :
           res[i] = IF i <= Len(<<t>>) THEN <<t>>[i] ELSE lst[i - Len(<<t>>)]
  BY <1>0, ConcatProperties
<1> HIDE DEF res
<1>2. /\ Len(res) = Len(lst) + 1
      /\ \A i \in 1 .. Len(lst) + 1 : res[i] = IF i <= 1 THEN <<t>>[i] ELSE lst[i - 1]
  BY <1>0, <1>1
<1>3. res[1] = t
  BY <1>0, <1>2
<1>4. ASSUME NEW i \in 1 .. Len(lst) PROVE res[i + 1] = lst[i]
  BY <1>0, <1>2
<1>5. ASSUME NEW i \in 1 .. Len(lst) + 1, i # 1
      PROVE  i - 1 \in 1 .. Len(lst) /\ res[i] = lst[i - 1]
  BY <1>0, <1>2, <1>5
<1>6. res # << >>
  BY <1>0, <1>2
<1>7. ToSet(res) = {t} \cup ToSet(lst)
  <2>1. ASSUME NEW u \in ToSet(res) PROVE u \in {t} \cup ToSet(lst)
    <3>1. PICK i \in 1 .. Len(lst) + 1 : u = res[i]
      BY <1>1, <1>2, SetOfList
    <3> QED BY <1>3, <1>5, <3>1, SetOfList
  <2>2. t \in ToSet(res)
    <3>1. 1 \in 1 .. Len(res)
      BY <1>0, <1>2
    <3> QED BY <1>1, <1>3, <3>1, SetOfList
  <2>3. ASSUME NEW u \in ToSet(lst) PROVE u \in ToSet(res)
    <3>1. PICK i \in 1 .. Len(lst) : u = lst[i]
      BY SetOfList
    <3>2. i + 1 \in 1 .. Len(res) /\ res[i + 1] = u
      BY <1>0, <1>2, <1>4, <3>1
    <3> QED BY <1>1, <3>2, SetOfList
  <2> QED BY <2>1, <2>2, <2>3
<1> QED BY <1>1, <1>2, <1>3, <1>4, <1>5, <1>6, <1>7 DEF res

(* A task at least as urgent as all of a list may go in front of it.       *)
LEMMA PutInFront ==
  ASSUME NEW p \in [Tasks -> Nat], NEW lst, List(lst, p), NEW t \in Tasks, t \notin ToSet(lst),
         \A u \in ToSet(lst) : p[t] >= p[u]
  PROVE  List(<<t>> \o lst, p)
<1> DEFINE res == <<t>> \o lst
<1>0. lst \in Seq(Tasks) /\ IsInjective(lst) /\ Sorted(lst, p)
  BY DEF List
<1>1. /\ res \in Seq(Tasks) /\ Len(res) = Len(lst) + 1 /\ res[1] = t
      /\ \A i \in 1 .. Len(lst) + 1 : i # 1 => i - 1 \in 1 .. Len(lst) /\ res[i] = lst[i - 1]
  BY <1>0, InFront
<1> HIDE DEF res
<1>2. /\ DOMAIN lst = 1 .. Len(lst) /\ DOMAIN res = 1 .. Len(lst) + 1 /\ Len(lst) \in Nat
      /\ \A i \in 1 .. Len(lst) : lst[i] \in ToSet(lst) /\ lst[i] # t
  BY <1>0, <1>1, SetOfList
<1>3. ASSUME NEW i \in 1 .. Len(lst) + 1, NEW j \in 1 .. Len(lst) + 1, res[i] = res[j]
      PROVE  i = j
  <2>1. CASE i # 1 /\ j # 1
    <3>1. /\ i - 1 \in DOMAIN lst /\ j - 1 \in DOMAIN lst
          /\ lst[i - 1] = lst[j - 1]
      BY <1>1, <1>2, <1>3, <2>1
    <3>2. i - 1 = j - 1
      BY <1>0, <3>1 DEF IsInjective
    <3> QED BY <1>2, <3>2
  <2> QED BY <1>1, <1>2, <1>3, <2>1
<1>4. ASSUME NEW i \in 1 .. Len(lst) + 1, NEW j \in 1 .. Len(lst) + 1, i < j
      PROVE  p[res[i]] >= p[res[j]]
  <2>1. j # 1 /\ j - 1 \in 1 .. Len(lst) /\ res[j] = lst[j - 1]
    BY <1>1, <1>2, <1>4
  <2>2. CASE i = 1
    BY <1>1, <1>2, <2>1, <2>2
  <2>3. CASE i # 1
    <3>1. i - 1 \in 1 .. Len(lst) /\ res[i] = lst[i - 1] /\ i - 1 < j - 1
      BY <1>1, <1>2, <1>4, <2>3
    <3> QED BY <1>0, <1>2, <2>1, <3>1 DEF Sorted
  <2> QED BY <2>2, <2>3
<1>5. IsInjective(res) /\ Sorted(res, p)
  BY <1>2, <1>3, <1>4 DEF IsInjective, Sorted
<1> QED BY <1>1, <1>5 DEF List, res

(* The first of a list is at least as urgent as the others, which are a    *)
(* list.                                                                   *)
LEMMA TakenFromFront ==
  ASSUME NEW p \in [Tasks -> Nat], NEW lst \in Seq(Tasks), NEW t \in Tasks,
         List(<<t>> \o lst, p)
  PROVE  /\ List(lst, p) /\ t \notin ToSet(lst)
         /\ \A u \in ToSet(lst) : p[t] >= p[u]
         /\ \A v \in Tasks : Ahead(v, lst) \subseteq Ahead(v, <<t>> \o lst)
<1> DEFINE res == <<t>> \o lst
<1>1. /\ res \in Seq(Tasks) /\ Len(res) = Len(lst) + 1 /\ res[1] = t
      /\ \A i \in 1 .. Len(lst) : res[i + 1] = lst[i]
  BY InFront
<1>2. List(res, p)
  OBVIOUS
<1> HIDE DEF res
<1>3. /\ DOMAIN lst = 1 .. Len(lst) /\ DOMAIN res = 1 .. Len(lst) + 1 /\ Len(lst) \in Nat
      /\ \A i \in 1 .. Len(lst) : i + 1 \in 1 .. Len(lst) + 1
      /\ 1 \in 1 .. Len(lst) + 1
  BY <1>1, SetOfList
<1>4. ASSUME NEW i \in 1 .. Len(lst), NEW j \in 1 .. Len(lst)
      PROVE  /\ lst[i] = lst[j] => i = j
             /\ i < j => p[lst[i]] >= p[lst[j]]
  <2>1. /\ i + 1 \in DOMAIN res /\ j + 1 \in DOMAIN res /\ i \in Int /\ j \in Int
        /\ res[i + 1] = lst[i] /\ res[j + 1] = lst[j]
    BY <1>1, <1>3
  <2>2. IsInjective(res) /\ Sorted(res, p)
    BY <1>2 DEF List
  <2>3. lst[i] = lst[j] => i + 1 = j + 1
    BY <2>1, <2>2 DEF IsInjective
  <2>4. i + 1 < j + 1 => p[lst[i]] >= p[lst[j]]
    BY <2>1, <2>2 DEF Sorted
  <2> QED BY <2>1, <2>3, <2>4
<1>5. List(lst, p)
  BY <1>3, <1>4 DEF List, IsInjective, Sorted
<1>6. ASSUME NEW u \in ToSet(lst) PROVE u # t /\ p[t] >= p[u]
  <2>1. PICK i \in 1 .. Len(lst) : u = lst[i]
    BY SetOfList
  <2>2. /\ 1 \in DOMAIN res /\ i + 1 \in DOMAIN res /\ 1 < i + 1 /\ 1 # i + 1
        /\ res[1] = t /\ res[i + 1] = u
    BY <1>1, <1>3, <2>1
  <2>3. u # t
    BY <1>2, <2>2 DEF List, IsInjective
  <2>4. p[t] >= p[u]
    BY <1>2, <2>2 DEF List, Sorted
  <2> QED BY <2>3, <2>4
<1>7. ASSUME NEW v \in Tasks, NEW u \in Ahead(v, lst) PROVE u \in Ahead(v, res)
  <2>1. PICK i \in 1 .. Len(lst), j \in 1 .. Len(lst) : i < j /\ lst[i] = u /\ lst[j] = v
    BY <1>7, AheadMeaning
  <2>2. /\ i + 1 \in 1 .. Len(res) /\ j + 1 \in 1 .. Len(res) /\ i + 1 < j + 1
        /\ res[i + 1] = u /\ res[j + 1] = v
    BY <1>1, <1>3, <2>1
  <2> QED BY <1>1, <2>2, AheadMeaning
<1> QED BY <1>5, <1>6, <1>7 DEF res

(* A list that is not empty is its head and then its tail.                 *)
LEMMA HeadAndTail ==
  ASSUME NEW lst \in Seq(Tasks), lst # << >>
  PROVE  Head(lst) \in Tasks /\ Tail(lst) \in Seq(Tasks) /\ lst = <<Head(lst)>> \o Tail(lst)
<1>1. /\ Head(lst) \in Tasks /\ Tail(lst) \in Seq(Tasks) /\ Len(lst) \in Nat
      /\ Len(Tail(lst)) = Len(lst) - 1
      /\ \A i \in 1 .. Len(Tail(lst)) : Tail(lst)[i] = lst[i + 1]
      /\ Head(lst) = lst[1]
  BY HeadTailProperties, SetOfList
<1> DEFINE res == <<Head(lst)>> \o Tail(lst)
<1>2. /\ res \in Seq(Tasks) /\ Len(res) = Len(Tail(lst)) + 1 /\ res[1] = Head(lst)
      /\ \A i \in 1 .. Len(Tail(lst)) + 1 :
           i # 1 => i - 1 \in 1 .. Len(Tail(lst)) /\ res[i] = Tail(lst)[i - 1]
  BY <1>1, InFront
<1> HIDE DEF res
<1>3. Len(res) = Len(lst)
  BY <1>1, <1>2
<1>4. ASSUME NEW i \in 1 .. Len(lst) PROVE lst[i] = res[i]
  <2>1. CASE i = 1
    BY <1>1, <1>2, <2>1
  <2>2. CASE i # 1
    <3>1. i \in 1 .. Len(Tail(lst)) + 1 /\ (i - 1) + 1 = i
      BY <1>1
    <3> QED BY <1>1, <1>2, <2>2, <3>1
  <2> QED BY <2>1, <2>2
<1>5. lst = res
  BY <1>2, <1>3, <1>4, SeqEqual
<1> QED BY <1>1, <1>5 DEF res

(* What Head and Tail leave of a list of the kernel.                       *)
LEMMA TailOfList ==
  ASSUME NEW p \in [Tasks -> Nat], NEW lst, List(lst, p), lst # << >>
  PROVE  /\ Head(lst) \in Tasks /\ List(Tail(lst), p) /\ Head(lst) \notin ToSet(Tail(lst))
         /\ ToSet(lst) = {Head(lst)} \cup ToSet(Tail(lst))
         /\ \A u \in ToSet(lst) : p[Head(lst)] >= p[u]
         /\ \A v \in Tasks : Ahead(v, Tail(lst)) \subseteq Ahead(v, lst)
<1>1. lst \in Seq(Tasks)
  BY DEF List
<1>2. Head(lst) \in Tasks /\ Tail(lst) \in Seq(Tasks) /\ lst = <<Head(lst)>> \o Tail(lst)
  BY <1>1, HeadAndTail
<1>3. /\ List(Tail(lst), p) /\ Head(lst) \notin ToSet(Tail(lst))
      /\ \A u \in ToSet(Tail(lst)) : p[Head(lst)] >= p[u]
      /\ \A v \in Tasks : Ahead(v, Tail(lst)) \subseteq Ahead(v, lst)
  <2>1. List(<<Head(lst)>> \o Tail(lst), p)
    BY <1>2
  <2> QED BY <1>2, <2>1, TakenFromFront
<1>4. ToSet(lst) = {Head(lst)} \cup ToSet(Tail(lst))
  BY <1>2, InFront
<1>5. p[Head(lst)] \in Nat
  BY <1>2
<1> QED BY <1>2, <1>3, <1>4, <1>5

(* A list stays one when the priorities of others change.                  *)
LEMMA ListElsewhere ==
  ASSUME NEW p \in [Tasks -> Nat], NEW lst, List(lst, p),
         NEW q \in [Tasks -> Nat], \A u \in ToSet(lst) : q[u] = p[u]
  PROVE  List(lst, q)
<1>1. lst \in Seq(Tasks) /\ IsInjective(lst) /\ Sorted(lst, p)
  BY DEF List
<1>2. DOMAIN lst = 1 .. Len(lst) /\ \A i \in 1 .. Len(lst) : lst[i] \in ToSet(lst)
  BY <1>1, SetOfList
<1>3. Sorted(lst, q)
  BY <1>1, <1>2 DEF Sorted
<1> QED BY <1>1, <1>3 DEF List

(* A raised task moves ahead of less urgent ones only.                      *)
LEMMA Resort ==
  ASSUME NEW p \in [Tasks -> Nat], NEW lst, List(lst, p), NEW t \in Tasks,
         NEW q \in [Tasks -> Nat], q[t] > p[t], \A v \in Tasks : v # t => q[v] = p[v],
         NEW res, res = rt_resort_prio(lst, t, q)
  PROVE  /\ List(res, q) /\ ToSet(res) = ToSet(lst)
         /\ \A v \in Tasks : \A u \in Ahead(v, res) \ Ahead(v, lst) : q[u] > q[v]
<1>1. lst \in Seq(Tasks) /\ IsInjective(lst) /\ Sorted(lst, p)
  BY DEF List
<1>2. /\ q[t] > p[t] /\ \A v \in Tasks : v # t => q[v] = p[v]
      /\ \A v \in Tasks : p[v] \in Nat /\ q[v] \in Nat
  OBVIOUS
<1>3. \A v \in Tasks : \A u \in Ahead(v, lst) : p[u] >= p[v]
  BY <1>1, SortedMeaning
<1>4. CASE t \notin ToSet(lst)
  <2>1. res = lst
    BY <1>1, <1>4, SetOfList DEF rt_resort_prio
  <2>2. \A u \in ToSet(lst) : q[u] = p[u]
    BY <1>1, <1>2, <1>4, SetOfList
  <2>3. List(lst, q)
    BY <2>2, ListElsewhere
  <2> QED BY <2>1, <2>3
<1>5. CASE t \in ToSet(lst)
  <2>0. PICK rest : rest = RemoveFirst(lst, t)
    OBVIOUS
  <2>1. res = rt_put_prio(rest, t, q)
    BY <2>0, <1>1, <1>5, SetOfList DEF rt_resort_prio
  <2>2. /\ List(rest, p) /\ ToSet(rest) = ToSet(lst) \ {t}
        /\ \A v \in Tasks : Ahead(v, rest) \subseteq Ahead(v, lst)
    BY <2>0, RemoveFromList
  <2>3. List(rest, q)
    <3>1. \A u \in ToSet(rest) : q[u] = p[u]
      BY <1>1, <1>2, <2>2, SetOfList
    <3> QED BY <2>2, <3>1, ListElsewhere
  <2>4. /\ List(res, q) /\ ToSet(res) = ToSet(rest) \cup {t}
        /\ \A v \in Tasks : \A u \in Ahead(v, res) \ Ahead(v, rest) :
             \/ v = t /\ u # t /\ q[u] >= q[t]
             \/ u = t /\ v # t /\ q[v] < q[t]
    <3>1. t \notin ToSet(rest)
      BY <2>2
    <3> QED BY <2>1, <2>3, <3>1, PutPrio
  <2>5. ASSUME NEW v \in Tasks, NEW u \in Ahead(v, res) \ Ahead(v, lst) PROVE q[u] > q[v]
    <3>1. CASE v = t /\ u # t /\ q[u] >= q[t]
      <4>1. u \in ToSet(res)
        BY <2>5 DEF Ahead
      <4>2. u \in ToSet(lst) /\ u \in Tasks
        BY <1>1, <1>5, <2>2, <2>4, <3>1, <4>1, SetOfList
      <4>3. t \in Ahead(u, lst)
        BY <1>1, <1>5, <2>5, <3>1, <4>2, OneIsAhead
      <4>4. p[t] >= p[u]
        BY <1>3, <4>2, <4>3
      <4>5. p[u] >= q[t] /\ q[t] \in Nat /\ p[t] \in Nat /\ p[u] \in Nat
        BY <1>2, <3>1, <4>2
      <4> QED BY <1>2, <4>4, <4>5
    <3>2. CASE u = t /\ v # t /\ q[v] < q[t]
      BY <1>2, <3>2
    <3> QED BY <2>2, <2>4, <2>5, <3>1, <3>2
  <2>6. ToSet(res) = ToSet(lst)
    <3>1. ToSet(rest) = ToSet(lst) \ {t}
      BY <2>2, Zenon
    <3>2. ToSet(res) = ToSet(rest) \cup {t}
      BY <2>4, Zenon
    <3> QED BY <1>5, <3>1, <3>2, Zenon
  <2> QED BY <2>4, <2>5, <2>6
<1> QED BY <1>4, <1>5
-------------------------------------------------------------------------------
(* The inductive invariant.  Beside what TypeOK says: the idle task never  *)
(* waits and never holds a mutex; a waiter does not hold what it waits     *)
(* for; a holder is at least as urgent as every task that waits for it,    *)
(* whichever of its mutexes that task waits for.                           *)
Runnable == {run} \cup ToSet(os_rdy)

ListsInv ==
  /\ run \in Tasks /\ os_rdy \in Seq(Tasks) /\ wait \in [Mutexes -> Seq(Tasks)]
  /\ prio \in [Tasks -> Nat]
  /\ List(<<run>> \o os_rdy, prio) /\ \A m \in Mutexes : List(wait[m], prio)

PlacesInv ==
  /\ os_dly \subseteq Tasks /\ Idle \in Runnable
  /\ \A t \in Runnable : t \notin os_dly /\ \A m \in Mutexes : t \notin ToSet(wait[m])
  /\ \A t \in Tasks \ Runnable : t \in os_dly \/ \E m \in Mutexes : t \in ToSet(wait[m])
  /\ \A m, n \in Mutexes : m # n => ToSet(wait[m]) \cap ToSet(wait[n]) = {}

OwnersInv ==
  /\ level \in [Mutexes -> 0 .. MaxLevel] /\ held \in [Tasks -> SUBSET Mutexes]
  /\ \A m \in Mutexes : level[m] = 0 <=> \A t \in Tasks : m \notin held[t]
  /\ \A t, u \in Tasks : t # u => held[t] \cap held[u] = {}
  /\ held[Idle] = {}
  /\ \A m \in Mutexes : ToSet(wait[m]) # {} => level[m] > 0
  /\ \A t \in Tasks : \A m \in held[t] : t \notin ToSet(wait[m])
  /\ depth \in [Tasks -> [Mutexes -> Nat]]
  /\ \A t \in Tasks, m \in Mutexes : depth[t][m] = IF m \in held[t] THEN level[m] ELSE 0

PrioritiesInv ==
  /\ \A t \in Tasks : prio[t] \in {prio_base[u] : u \in Tasks} /\ prio[t] >= prio_base[t]
  /\ \A t \in Tasks : \A m \in held[t] : \A w \in ToSet(wait[m]) : prio[t] >= prio_base[w]
  /\ PriorityReturned

IInv == ListsInv /\ PlacesInv /\ OwnersInv /\ PrioritiesInv
-------------------------------------------------------------------------------
(* What each action does to the lists.                                     *)

KeepsOrder ==
  \A m \in Mutexes : \A t \in ToSet(wait[m]) :
    \A u \in Ahead(t, wait'[m]) \ Ahead(t, wait[m]) : prio'[u] > prio'[t]

(* The ready list under the invariant: in order, without the running task. *)
LEMMA ReadyList ==
  ASSUME ListsInv
  PROVE  /\ List(os_rdy, prio) /\ run \notin ToSet(os_rdy) /\ ToSet(os_rdy) \subseteq Tasks
         /\ \A u \in ToSet(os_rdy) : prio[run] >= prio[u]
         /\ ToSet(<<run>> \o os_rdy) = Runnable /\ Runnable \subseteq Tasks
<1>1. /\ List(os_rdy, prio) /\ run \notin ToSet(os_rdy)
      /\ \A u \in ToSet(os_rdy) : prio[run] >= prio[u]
  BY TakenFromFront DEF ListsInv
<1>2. ToSet(<<run>> \o os_rdy) = {run} \cup ToSet(os_rdy) /\ ToSet(os_rdy) \subseteq Tasks
  BY InFront, SetOfList DEF ListsInv
<1> QED BY <1>1, <1>2 DEF Runnable, ListsInv

(* The idle task is always there to switch to.                             *)
LEMMA SomebodyReady ==
  ASSUME ListsInv, PlacesInv, run # Idle
  PROVE  os_rdy # << >> /\ Head(os_rdy) \in ToSet(os_rdy)
<1>1. Idle \in ToSet(os_rdy) /\ os_rdy \in Seq(Tasks)
  BY DEF PlacesInv, Runnable, ListsInv
<1>2. PICK i \in 1 .. Len(os_rdy) : Idle = os_rdy[i]
  BY <1>1, SetOfList
<1>3. os_rdy # << >>
  BY <1>1, <1>2, SetOfList
<1>4. ToSet(os_rdy) = {Head(os_rdy)} \cup ToSet(Tail(os_rdy))
  BY <1>1, <1>3, HeadAndTail, InFront
<1> QED BY <1>3, <1>4

(* rt_dispatch to a list: its tasks, and they alone, can run, in order.    *)
LEMMA Switch ==
  ASSUME NEW lst, NEW p \in [Tasks -> Nat], List(lst, p), lst # << >>, SwitchTo(lst), prio' = p
  PROVE  /\ run' \in Tasks /\ os_rdy' \in Seq(Tasks) /\ prio' \in [Tasks -> Nat]
         /\ List(<<run'>> \o os_rdy', prio')
         /\ Runnable' = ToSet(lst)
<1>1. lst \in Seq(Tasks)
  BY DEF List
<1>2. Head(lst) \in Tasks /\ Tail(lst) \in Seq(Tasks) /\ lst = <<Head(lst)>> \o Tail(lst)
  BY <1>1, HeadAndTail
<1>3. ToSet(lst) = {Head(lst)} \cup ToSet(Tail(lst))
  BY <1>2, InFront
<1> QED BY <1>2, <1>3 DEF SwitchTo, Runnable

(* osDelay takes the running task off the lists of those that can run.     *)
LEMMA SleepLists ==
  ASSUME ListsInv, PlacesInv, run # Idle, rt_dly_wait
  PROVE  ListsInv' /\ Runnable' = Runnable \ {run} /\ KeepsOrder
<1>1. List(os_rdy, prio) /\ os_rdy # << >> /\ ToSet(os_rdy) = Runnable \ {run}
  BY ReadyList, SomebodyReady DEF Runnable
<1>2. prio \in [Tasks -> Nat] /\ SwitchTo(os_rdy) /\ prio' = prio /\ wait' = wait
  BY DEF rt_dly_wait, ListsInv
<1>3. /\ run' \in Tasks /\ os_rdy' \in Seq(Tasks) /\ prio' \in [Tasks -> Nat]
      /\ List(<<run'>> \o os_rdy', prio') /\ Runnable' = ToSet(os_rdy)
  BY <1>1, <1>2, Switch
<1> QED BY <1>1, <1>2, <1>3 DEF ListsInv, KeepsOrder

(* The round robin moves the running task behind its equals.               *)
LEMMA RobinLists ==
  ASSUME ListsInv, rt_chk_robin
  PROVE  ListsInv' /\ Runnable' = Runnable /\ KeepsOrder
<1>1. List(os_rdy, prio) /\ run \notin ToSet(os_rdy) /\ run \in Tasks
  BY ReadyList DEF ListsInv
<1>2. prio \in [Tasks -> Nat] /\ prio' = prio /\ wait' = wait
  BY DEF rt_chk_robin, ListsInv
<1>3. PICK lst : lst = rt_put_prio(os_rdy, run, prio)
  OBVIOUS
<1>4. List(lst, prio) /\ ToSet(lst) = Runnable /\ lst # << >>
  BY <1>1, <1>2, <1>3, PutPrio DEF Runnable
<1>5. SwitchTo(lst)
  BY <1>3 DEF rt_chk_robin
<1>6. /\ run' \in Tasks /\ os_rdy' \in Seq(Tasks) /\ prio' \in [Tasks -> Nat]
      /\ List(<<run'>> \o os_rdy', prio') /\ Runnable' = ToSet(lst)
  BY <1>2, <1>4, <1>5, Switch
<1> QED BY <1>2, <1>4, <1>6 DEF ListsInv, KeepsOrder

(* A wait that times out puts the task into the ready list and takes it    *)
(* off the mutex's.                                                        *)
LEMMA TimeoutLists ==
  ASSUME ListsInv, PlacesInv, NEW t \in Tasks, rt_dec_dly(t)
  PROVE  /\ ListsInv' /\ Runnable' = Runnable \cup {t} /\ KeepsOrder
         /\ \A m \in Mutexes : ToSet(wait'[m]) = ToSet(wait[m]) \ {t}
<1>1. /\ prio \in [Tasks -> Nat] /\ prio' = prio /\ List(<<run>> \o os_rdy, prio)
      /\ \A m \in Mutexes : List(wait[m], prio) /\ wait'[m] = RemoveFirst(wait[m], t)
      /\ wait' = [m \in Mutexes |-> RemoveFirst(wait[m], t)]
  BY DEF rt_dec_dly, ListsInv, Without
<1>2. t \notin ToSet(<<run>> \o os_rdy) /\ ToSet(<<run>> \o os_rdy) = Runnable
  BY ReadyList DEF rt_dec_dly, PlacesInv
<1>3. PICK lst : lst = rt_put_prio(<<run>> \o os_rdy, t, prio)
  OBVIOUS
<1>4. List(lst, prio) /\ ToSet(lst) = Runnable \cup {t} /\ lst # << >>
  BY <1>1, <1>2, <1>3, PutPrio
<1>5. SwitchTo(lst)
  BY <1>3 DEF rt_dec_dly
<1>6. /\ run' \in Tasks /\ os_rdy' \in Seq(Tasks) /\ prio' \in [Tasks -> Nat]
      /\ List(<<run'>> \o os_rdy', prio') /\ Runnable' = ToSet(lst)
  BY <1>1, <1>4, <1>5, Switch
<1>7. ASSUME NEW m \in Mutexes
      PROVE  /\ List(wait'[m], prio') /\ ToSet(wait'[m]) = ToSet(wait[m]) \ {t}
             /\ \A v \in Tasks : Ahead(v, wait'[m]) \subseteq Ahead(v, wait[m])
  <2>1. List(wait[m], prio) /\ prio \in [Tasks -> Nat]
    BY <1>1
  <2>2. /\ List(RemoveFirst(wait[m], t), prio)
        /\ ToSet(RemoveFirst(wait[m], t)) = ToSet(wait[m]) \ {t}
        /\ \A v \in Tasks : Ahead(v, RemoveFirst(wait[m], t)) \subseteq Ahead(v, wait[m])
    BY <2>1, RemoveFromList
  <2> QED BY <1>1, <2>2
<1>8. wait' \in [Mutexes -> Seq(Tasks)]
  BY <1>1, <1>7 DEF List
<1>9. KeepsOrder
  BY <1>7, SetOfList DEF KeepsOrder, ListsInv
<1> QED BY <1>4, <1>6, <1>7, <1>8, <1>9 DEF ListsInv

(* After a release the lists are still in order: only the priority of the  *)
(* running task has changed, and it is in none of them.                    *)
LEMMA ReleasedPriority ==
  ASSUME ListsInv, PlacesInv, NEW h \in Nat, NEW p, p = [prio EXCEPT ![run] = h]
  PROVE  /\ p \in [Tasks -> Nat] /\ List(os_rdy, p) /\ \A m \in Mutexes : List(wait[m], p)
         /\ p[run] = h /\ \A t \in Tasks : t # run => p[t] = prio[t]
<1>1. /\ prio \in [Tasks -> Nat] /\ run \in Tasks
      /\ p[run] = h /\ p \in [Tasks -> Nat]
      /\ \A t \in Tasks : t # run => p[t] = prio[t]
  BY DEF ListsInv
<1>2. List(os_rdy, prio) /\ \A t \in ToSet(os_rdy) : t # run /\ t \in Tasks
  BY ReadyList
<1>3. List(os_rdy, p)
  BY <1>1, <1>2, ListElsewhere
<1>4. ASSUME NEW m \in Mutexes PROVE List(wait[m], p)
  <2>1. List(wait[m], prio) /\ wait[m] \in Seq(Tasks)
    BY DEF ListsInv
  <2>2. \A t \in ToSet(wait[m]) : t # run /\ t \in Tasks
    BY <2>1, SetOfList DEF PlacesInv, Runnable
  <2> QED BY <1>1, <2>1, <2>2, ListElsewhere
<1> QED BY <1>1, <1>3, <1>4

(* After a release the running task makes way when its priority has        *)
(* dropped.                                                                *)
LEMMA YieldLists ==
  ASSUME ListsInv, PlacesInv, run # Idle, NEW p \in [Tasks -> Nat], List(os_rdy, p),
         prio' = p, Yield(p)
  PROVE  /\ run' \in Tasks /\ os_rdy' \in Seq(Tasks)
         /\ List(<<run'>> \o os_rdy', prio') /\ Runnable' = Runnable
<1>1. /\ run \notin ToSet(os_rdy) /\ run \in Tasks /\ os_rdy \in Seq(Tasks) /\ os_rdy # << >>
      /\ Head(os_rdy) \in ToSet(os_rdy) /\ ToSet(os_rdy) \subseteq Tasks
  BY ReadyList, SomebodyReady DEF ListsInv
<1>2. CASE p[Head(os_rdy)] > p[run]
  <2>1. PICK lst : lst = rt_put_prio(os_rdy, run, p)
    OBVIOUS
  <2>2. List(lst, p) /\ ToSet(lst) = Runnable /\ lst # << >>
    BY <1>1, <2>1, PutPrio DEF Runnable
  <2>3. SwitchTo(lst)
    BY <1>2, <2>1 DEF Yield
  <2> QED BY <2>2, <2>3, Switch
<1>3. CASE ~(p[Head(os_rdy)] > p[run])
  <2>1. UNCHANGED <<run, os_rdy>>
    BY <1>3 DEF Yield
  <2>2. \A u \in ToSet(os_rdy) : p[Head(os_rdy)] >= p[u]
    BY <1>1, TailOfList
  <2>3. \A u \in ToSet(os_rdy) : p[run] >= p[u]
    <3>1. p[run] \in Nat /\ p[Head(os_rdy)] \in Nat /\ \A u \in ToSet(os_rdy) : p[u] \in Nat
      BY <1>1
    <3> QED BY <1>3, <2>2, <3>1
  <2>4. List(<<run>> \o os_rdy, p)
    BY <1>1, <2>3, PutInFront
  <2> QED BY <1>1, <2>1, <2>4 DEF Runnable
<1> QED BY <1>2, <1>3

(* After a release to a waiter the more urgent of the two goes on.         *)
LEMMA HandOverLists ==
  ASSUME ListsInv, PlacesInv, run # Idle, NEW p \in [Tasks -> Nat], List(os_rdy, p),
         NEW w \in Tasks, w \notin Runnable, prio' = p, HandOver(w, p)
  PROVE  /\ run' \in Tasks /\ os_rdy' \in Seq(Tasks)
         /\ List(<<run'>> \o os_rdy', prio') /\ Runnable' = Runnable \cup {w}
<1>1. /\ run \notin ToSet(os_rdy) /\ run \in Tasks /\ os_rdy \in Seq(Tasks) /\ os_rdy # << >>
      /\ Head(os_rdy) \in ToSet(os_rdy) /\ ToSet(os_rdy) \subseteq Tasks
      /\ w # run /\ w \notin ToSet(os_rdy)
  BY ReadyList, SomebodyReady DEF ListsInv, Runnable
<1>2. /\ \A u \in ToSet(os_rdy) : p[Head(os_rdy)] >= p[u]
      /\ p[run] \in Nat /\ p[w] \in Nat /\ \A u \in ToSet(os_rdy) : p[u] \in Nat
  BY <1>1, TailOfList
<1>3. CASE p[run] < p[Head(os_rdy)]
  <2>1. PICK mid : mid = rt_put_prio(os_rdy, run, p)
    OBVIOUS
  <2>2. List(mid, p) /\ ToSet(mid) = Runnable
    BY <1>1, <2>1, PutPrio DEF Runnable
  <2>3. PICK lst : lst = rt_put_prio(mid, w, p)
    OBVIOUS
  <2>4. List(lst, p) /\ ToSet(lst) = Runnable \cup {w} /\ lst # << >>
    BY <2>2, <2>3, PutPrio
  <2>5. SwitchTo(lst)
    BY <1>3, <2>1, <2>3 DEF HandOver
  <2> QED BY <2>4, <2>5, Switch
<1>4. CASE ~(p[run] < p[Head(os_rdy)]) /\ p[w] > p[run]
  <2>1. \A u \in ToSet(os_rdy) : p[run] >= p[u]
    BY <1>1, <1>2, <1>4
  <2>2. PICK mid : mid = <<run>> \o os_rdy
    OBVIOUS
  <2>3. List(mid, p) /\ ToSet(mid) = Runnable /\ mid \in Seq(Tasks)
    BY <1>1, <2>1, <2>2, PutInFront, InFront DEF Runnable
  <2>4. PICK lst : lst = <<w>> \o mid
    OBVIOUS
  <2>5. \A u \in Runnable : p[w] >= p[u]
    BY <1>1, <1>2, <1>4, <2>1 DEF Runnable
  <2>6. List(lst, p) /\ ToSet(lst) = Runnable \cup {w} /\ lst # << >>
    <3>1. w \notin ToSet(mid) /\ \A u \in ToSet(mid) : p[w] >= p[u]
      BY <2>3, <2>5
    <3>2. List(<<w>> \o mid, p)
      BY <2>3, <3>1, PutInFront
    <3>3. ToSet(<<w>> \o mid) = {w} \cup ToSet(mid) /\ <<w>> \o mid # << >>
      BY <2>3, InFront
    <3> QED BY <2>3, <2>4, <3>2, <3>3
  <2>7. SwitchTo(lst)
    <3>1. SwitchTo(<<w, run>> \o os_rdy)
      BY <1>4 DEF HandOver
    <3>2. <<w, run>> = <<w>> \o <<run>>
      OBVIOUS
    <3>3. (<<w>> \o <<run>>) \o os_rdy = <<w>> \o (<<run>> \o os_rdy)
      BY <1>1, ConcatAssociative
    <3> QED BY <2>2, <2>4, <3>1, <3>2, <3>3
  <2> QED BY <2>6, <2>7, Switch
<1>5. CASE ~(p[run] < p[Head(os_rdy)]) /\ ~(p[w] > p[run])
  <2>1. os_rdy' = rt_put_prio(os_rdy, w, p) /\ run' = run
    BY <1>5 DEF HandOver
  <2>2. List(os_rdy', p) /\ ToSet(os_rdy') = ToSet(os_rdy) \cup {w}
    BY <1>1, <2>1, PutPrio
  <2>3. \A u \in ToSet(os_rdy') : p[run] >= p[u]
    BY <1>1, <1>2, <1>5, <2>2
  <2>4. List(<<run>> \o os_rdy', p)
    BY <1>1, <2>2, <2>3, PutInFront
  <2> QED BY <1>1, <2>1, <2>2, <2>4 DEF Runnable, List
<1> QED BY <1>3, <1>4, <1>5

(* The owner that a waiter raises.                                         *)
LEMMA OwnerHolds ==
  ASSUME OwnersInv, NEW m \in Mutexes, level[m] > 0
  PROVE  /\ Owner(m) \in Tasks /\ m \in held[Owner(m)]
         /\ \A t \in Tasks : m \in held[t] => t = Owner(m)
<1>1. level[m] # 0
  BY DEF OwnersInv
<1>2. \E t \in Tasks : m \in held[t]
  BY <1>1 DEF OwnersInv
<1>3. Owner(m) \in Tasks /\ m \in held[Owner(m)]
  BY <1>2 DEF Owner
<1> QED BY <1>3 DEF OwnersInv

(* rt_mut_wait raises nobody but the owner, to the caller's priority at    *)
(* the most.                                                               *)
LEMMA RaisedOwner ==
  ASSUME ListsInv, NEW o \in Tasks, o # run, NEW p, p = Raised(o)
  PROVE  /\ p \in [Tasks -> Nat] /\ p[run] = prio[run]
         /\ p[o] >= prio[run] /\ p[o] >= prio[o] /\ p[o] \in {prio[o], prio[run]}
         /\ \A t \in Tasks : t # o => p[t] = prio[t]
         /\ p = prio \/ p[o] > prio[o]
<1>1. prio \in [Tasks -> Nat] /\ run \in Tasks
  BY DEF ListsInv
<1>2. CASE prio[o] < prio[run]
  BY <1>1, <1>2 DEF Raised
<1>3. CASE ~(prio[o] < prio[run])
  <2>1. p = prio
    BY <1>1, <1>3 DEF Raised
  <2> QED BY <1>1, <1>3, <2>1
<1> QED BY <1>2, <1>3

(* A wait takes the running task from the ready lists into the mutex's;    *)
(* both stay in order.                                                     *)
LEMMA WaitForLists ==
  ASSUME ListsInv, PlacesInv, OwnersInv, run # Idle,
         NEW m \in Mutexes, NEW timed \in BOOLEAN, WaitFor(m, timed)
  PROVE  /\ ListsInv' /\ Runnable' = Runnable \ {run} /\ KeepsOrder
         /\ \A n \in Mutexes :
              ToSet(wait'[n]) = IF n = m THEN ToSet(wait[n]) \cup {run} ELSE ToSet(wait[n])
<1> DEFINE q == Raised(Owner(m))
           Lst(l) == IF q = prio THEN l ELSE rt_resort_prio(l, Owner(m), q)
<1>1. PICK o \in Tasks : o = Owner(m) /\ m \in held[o] /\ o # run
  BY OwnerHolds DEF WaitFor
<1>2. PICK p : p = Raised(o)
  OBVIOUS
<1>3. /\ p \in [Tasks -> Nat] /\ p[run] = prio[run]
      /\ \A t \in Tasks : t # o => p[t] = prio[t]
      /\ p = prio \/ p[o] > prio[o]
  BY <1>1, <1>2, RaisedOwner
<1>4. /\ prio \in [Tasks -> Nat] /\ run \in Tasks
      /\ wait \in [Mutexes -> Seq(Tasks)] /\ \A n \in Mutexes : List(wait[n], prio)
  BY DEF ListsInv
<1>5. /\ prio' = p
      /\ wait' = [n \in Mutexes |-> IF n = m THEN rt_put_prio(wait[n], run, p) ELSE Lst(wait[n])]
      /\ SwitchTo(Lst(os_rdy))
  BY <1>1, <1>2 DEF WaitFor
<1>6. ASSUME NEW l, List(l, prio)
      PROVE  /\ List(Lst(l), p) /\ ToSet(Lst(l)) = ToSet(l)
             /\ \A v \in Tasks : \A u \in Ahead(v, Lst(l)) \ Ahead(v, l) : p[u] > p[v]
  <2>1. CASE p = prio
    BY <1>1, <1>2, <1>6, <2>1
  <2>2. CASE p # prio
    <3>1. p[o] > prio[o]
      BY <1>3, <2>2
    <3>2. PICK res : res = rt_resort_prio(l, o, p)
      OBVIOUS
    <3>3. /\ List(res, p) /\ ToSet(res) = ToSet(l)
          /\ \A v \in Tasks : \A u \in Ahead(v, res) \ Ahead(v, l) : p[u] > p[v]
      <4>1. /\ p \in [Tasks -> Nat] /\ prio \in [Tasks -> Nat] /\ p[o] > prio[o]
            /\ \A t \in Tasks : t # o => p[t] = prio[t]
        BY <1>3, <1>4, <3>1
      <4>2. List(l, prio)
        BY <1>6
      <4> QED BY <3>2, <4>1, <4>2, Resort
    <3>4. Lst(l) = res
      BY <1>1, <1>2, <2>2, <3>2
    <3> HIDE DEF Lst
    <3> QED BY <3>3, <3>4
  <2> QED BY <2>1, <2>2
<1> HIDE DEF Lst, q
<1>7. List(os_rdy, prio) /\ os_rdy # << >> /\ ToSet(os_rdy) = Runnable \ {run}
      /\ Head(os_rdy) \in ToSet(os_rdy)
  BY ReadyList, SomebodyReady DEF Runnable
<1>8. /\ run' \in Tasks /\ os_rdy' \in Seq(Tasks) /\ prio' \in [Tasks -> Nat]
      /\ List(<<run'>> \o os_rdy', prio') /\ Runnable' = Runnable \ {run}
  <2>1. PICK lst : lst = Lst(os_rdy)
    OBVIOUS
  <2>2. List(lst, p) /\ ToSet(lst) = Runnable \ {run}
    BY <1>6, <1>7, <2>1
  <2>3. lst # << >>
    <3>1. lst \in Seq(Tasks) /\ ToSet(lst) # {}
      BY <1>7, <2>2 DEF List
    <3> QED BY <3>1 DEF ToSet
  <2>4. SwitchTo(lst) /\ prio' = p
    BY <1>5, <2>1
  <2> QED BY <1>3, <2>2, <2>3, <2>4, Switch
<1>9. ASSUME NEW n \in Mutexes
      PROVE  /\ List(wait'[n], prio')
             /\ ToSet(wait'[n]) = IF n = m THEN ToSet(wait[n]) \cup {run} ELSE ToSet(wait[n])
             /\ \A t \in ToSet(wait[n]) :
                  \A u \in Ahead(t, wait'[n]) \ Ahead(t, wait[n]) : prio'[u] > prio'[t]
  <2>1. ToSet(wait[n]) \subseteq Tasks \ {run}
    BY <1>4, SetOfList DEF PlacesInv, Runnable
  <2>2. CASE n = m
    <3>1. wait'[m] = rt_put_prio(wait[m], run, p)
      BY <1>5
    <3>2. \A u \in ToSet(wait[m]) : p[u] = prio[u]
      BY <1>1, <1>3, <2>1, <2>2 DEF OwnersInv
    <3>3. List(wait[m], prio)
      BY <1>4
    <3>4. List(wait[m], p)
      BY <1>3, <1>4, <3>2, <3>3, ListElsewhere
    <3>5. PICK res : res = rt_put_prio(wait[m], run, p)
      OBVIOUS
    <3>6. run \notin ToSet(wait[m])
      BY <2>1, <2>2
    <3>7. /\ List(res, p) /\ ToSet(res) = ToSet(wait[m]) \cup {run}
          /\ \A v \in Tasks : \A u \in Ahead(v, res) \ Ahead(v, wait[m]) :
               \/ v = run /\ u # run /\ p[u] >= p[run]
               \/ u = run /\ v # run /\ p[v] < p[run]
      <4>1. p \in [Tasks -> Nat] /\ run \in Tasks
        BY <1>3, <1>4
      <4> QED BY <3>4, <3>5, <3>6, <4>1, PutPrio
    <3>8. ASSUME NEW t \in ToSet(wait[m]), NEW u \in Ahead(t, res) \ Ahead(t, wait[m])
          PROVE  p[u] > p[t]
      <4>1. t \in Tasks /\ t # run
        BY <2>1, <2>2
      <4>2. u = run /\ p[t] < p[run]
        BY <3>7, <3>8, <4>1
      <4>3. p[t] \in Nat /\ p[run] \in Nat
        BY <1>3, <1>4, <4>1
      <4> QED BY <4>2, <4>3
    <3>9. wait'[n] = res /\ prio' = p
      BY <1>5, <2>2, <3>1, <3>5
    <3> QED BY <2>2, <3>7, <3>8, <3>9
  <2>3. CASE n # m
    <3>1. wait'[n] = Lst(wait[n])
      BY <1>5, <2>3
    <3>2. List(wait[n], prio)
      BY <1>4
    <3>3. /\ List(Lst(wait[n]), p) /\ ToSet(Lst(wait[n])) = ToSet(wait[n])
          /\ \A v \in Tasks : \A u \in Ahead(v, Lst(wait[n])) \ Ahead(v, wait[n]) : p[u] > p[v]
      BY <1>6, <3>2
    <3> QED BY <1>5, <2>1, <2>3, <3>1, <3>3
  <2> QED BY <2>2, <2>3
<1>10. wait' \in [Mutexes -> Seq(Tasks)]
  <2>1. \A n \in Mutexes : wait'[n] \in Seq(Tasks)
    BY <1>9 DEF List
  <2>2. wait' = [n \in Mutexes |-> wait'[n]]
    BY <1>5
  <2> QED BY <2>1, <2>2
<1> QED BY <1>8, <1>9, <1>10 DEF ListsInv, KeepsOrder

(* Priorities are those the tasks were created with: a set of them has a   *)
(* greatest one.                                                           *)
LEMMA GreatestExists ==
  ASSUME NEW S \in SUBSET (0 .. 255), S # {}
  PROVE  \E x \in S : \A y \in S : x >= y
<1> DEFINE D == {255 - x : x \in S}
<1>1. D \in SUBSET Nat /\ D # {}
  <2>1. \A x \in S : 255 - x \in Nat
    <3>1. \A x \in S : x \in 0 .. 255
      OBVIOUS
    <3> QED BY <3>1
  <2>2. D \subseteq Nat
    BY <2>1
  <2>3. \E x : x \in S
    OBVIOUS
  <2> QED BY <2>2, <2>3
<1>2. PICK d \in D : \A e \in D : d <= e
  BY <1>1, LeastExists
<1>3. PICK x \in S : d = 255 - x
  OBVIOUS
<1>4. ASSUME NEW y \in S PROVE x >= y
  <2>1. 255 - y \in D
    OBVIOUS
  <2>2. 255 - x <= 255 - y
    BY <1>2, <1>3, <2>1
  <2>3. x \in 0 .. 255 /\ y \in 0 .. 255
    OBVIOUS
  <2> HIDE DEF D
  <2> QED BY <2>2, <2>3
<1> QED BY <1>4

(* rt_mut_release restores the most urgent of the base priority and the    *)
(* first waiters'.                                                         *)
LEMMA RestoredPriority ==
  ASSUME ListsInv, PrioritiesInv, NEW left \in SUBSET Mutexes, NEW h, h = Restored(run, left)
  PROVE  /\ h \in {prio_base[u] : u \in Tasks} /\ h \in Nat /\ h >= prio_base[run]
         /\ \A m \in left : \A w \in ToSet(wait[m]) : h >= prio_base[w]
         /\ left = {} => h = prio_base[run]
<1> DEFINE B == {prio_base[u] : u \in Tasks}
           F == {prio[Head(wait[m])] : m \in {n \in left : wait[n] # << >>}}
           G == F \cup {prio_base[run]}
<1>1. run \in Tasks /\ B \subseteq 0 .. 255 /\ \A t \in Tasks : prio[t] \in B
  BY TasksAssumption DEF ListsInv, PrioritiesInv
<1>2. ASSUME NEW m \in left, wait[m] # << >>
      PROVE  /\ Head(wait[m]) \in Tasks
             /\ \A w \in ToSet(wait[m]) : w \in Tasks /\ prio[Head(wait[m])] >= prio[w]
  <2>1. prio \in [Tasks -> Nat] /\ List(wait[m], prio) /\ wait[m] \in Seq(Tasks)
    BY DEF ListsInv
  <2>2. Head(wait[m]) \in Tasks /\ \A w \in ToSet(wait[m]) : prio[Head(wait[m])] >= prio[w]
    BY <1>2, <2>1, TailOfList
  <2> QED BY <2>1, <2>2, SetOfList
<1>3. G \subseteq B /\ G # {} /\ prio_base[run] \in G
  BY <1>1, <1>2
<1>4. h \in G /\ \A y \in G : h >= y
  <2>1. h = CHOOSE x \in G : \A y \in G : x >= y
    BY DEF Restored
  <2>2. \E x \in G : \A y \in G : x >= y
    <3> HIDE DEF G, B
    <3> QED BY <1>1, <1>3, GreatestExists
  <2> HIDE DEF G
  <2> QED BY <2>1, <2>2
<1>5. ASSUME NEW m \in left, NEW w \in ToSet(wait[m]) PROVE h >= prio_base[w]
  <2>1. wait[m] # << >>
    BY <1>5 DEF ToSet
  <2>2. prio[Head(wait[m])] \in G
    BY <2>1
  <2>3. /\ Head(wait[m]) \in Tasks /\ w \in Tasks /\ prio[Head(wait[m])] >= prio[w]
        /\ prio[w] >= prio_base[w]
    BY <1>2, <2>1 DEF PrioritiesInv
  <2>4. h \in Nat /\ prio[w] \in Nat /\ prio_base[w] \in Nat /\ prio[Head(wait[m])] \in Nat
    <3>1. prio_base[w] \in B /\ prio[w] \in B /\ prio[Head(wait[m])] \in B
      BY <1>1, <2>3
    <3> HIDE DEF G, B
    <3>2. h \in B
      BY <1>3, <1>4
    <3>3. \A x \in B : x \in Nat
      BY <1>1
    <3> QED BY <3>1, <3>2, <3>3
  <2>5. h >= prio[Head(wait[m])]
    BY <1>4, <2>2
  <2> HIDE DEF G, B
  <2> QED BY <2>3, <2>4, <2>5
<1>6. left = {} => h = prio_base[run]
  <2>1. left = {} => G = {prio_base[run]}
    OBVIOUS
  <2> HIDE DEF G
  <2> QED BY <1>4, <2>1
<1>7. h \in B /\ h \in Nat /\ h >= prio_base[run]
  <2> HIDE DEF G
  <2>1. h \in B
    BY <1>3, <1>4
  <2>2. h \in Nat /\ h >= prio_base[run]
    <3> HIDE DEF B
    <3>1. \A x \in B : x \in Nat
      BY <1>1
    <3>2. h \in Nat
      BY <2>1, <3>1
    <3>3. h >= prio_base[run]
      BY <1>3, <1>4
    <3> QED BY <3>2, <3>3
  <2> QED BY <2>1, <2>2
<1> QED BY <1>5, <1>6, <1>7
-------------------------------------------------------------------------------
(* What the invariant says.                                                *)

(* What a task waits for, after a step that changes the lists of the       *)
(* mutexes.                                                                *)
LEMMA WaitingSets ==
  ASSUME ListsInv, NEW t, NEW m \in Mutexes
  PROVE  m \in Waiting(t) <=> t \in ToSet(wait[m])
BY SetOfList DEF Waiting, ListsInv

(* The inductive invariant gives the types of the variables.               *)
LEMMA InvariantTypes == IInv => TypeOK
<1> SUFFICES ASSUME IInv PROVE TypeOK
  OBVIOUS
<1>1. run \in Tasks /\ os_rdy \in Seq(Tasks) /\ os_dly \subseteq Tasks
  BY DEF IInv, ListsInv, PlacesInv
<1>2. wait \in [Mutexes -> Seq(Tasks)] /\ level \in [Mutexes -> 0 .. MaxLevel]
  BY DEF IInv, ListsInv, OwnersInv
<1>3. prio \in [Tasks -> {prio_base[t] : t \in Tasks}]
  BY DEF IInv, ListsInv, PrioritiesInv
<1>4. IsOrdered(<<run>> \o os_rdy) /\ \A m \in Mutexes : IsOrdered(wait[m])
  BY DEF IInv, ListsInv, IsOrdered, List, Sorted
<1>5. ASSUME NEW t \in Tasks
      PROVE  IF t \in Runnable THEN t \notin os_dly /\ Waiting(t) = {}
             ELSE t \in os_dly \/ Waiting(t) # {}
  <2>1. Waiting(t) \subseteq Mutexes /\ \A m \in Mutexes : m \in Waiting(t) <=> t \in ToSet(wait[m])
    BY WaitingSets DEF IInv, Waiting
  <2> QED BY <2>1 DEF IInv, PlacesInv
<1>6. ASSUME NEW t \in Tasks, NEW m \in Waiting(t), NEW n \in Waiting(t) PROVE m = n
  <2>1. m \in Mutexes /\ n \in Mutexes
    BY DEF Waiting
  <2>2. t \in ToSet(wait[m]) /\ t \in ToSet(wait[n])
    BY <2>1, WaitingSets DEF IInv
  <2> QED BY <2>1, <2>2 DEF IInv, PlacesInv
<1>7. /\ held \in [Tasks -> SUBSET Mutexes]
      /\ \A m \in Mutexes : level[m] = 0 <=> \A t \in Tasks : m \notin held[t]
      /\ \A t, u \in Tasks : t # u => held[t] \cap held[u] = {}
  BY DEF IInv, OwnersInv
<1> QED BY <1>1, <1>2, <1>3, <1>4, <1>5, <1>6, <1>7 DEF TypeOK, Runnable

(* The inductive invariant gives NoInversion: the owner is urgent, and no  *)
(* more than who runs.                                                     *)
LEMMA InvariantNoInversion == IInv => NoInversion
<1> SUFFICES ASSUME IInv, NEW m \in Mutexes, NEW w \in ToSet(wait[m]),
                    Owner(m) \in {run} \cup ToSet(os_rdy)
             PROVE  prio[run] >= prio_base[w]
  BY DEF NoInversion
<1>1. level[m] > 0
  BY DEF IInv, OwnersInv
<1>2. PICK o \in Tasks : o = Owner(m) /\ m \in held[o]
  BY <1>1, OwnerHolds DEF IInv
<1>3. prio[o] >= prio_base[w]
  BY <1>2 DEF IInv, PrioritiesInv
<1>4. o = run \/ prio[run] >= prio[o]
  BY <1>2, ReadyList DEF IInv
<1>5. prio[run] \in Nat /\ prio[o] \in Nat /\ prio_base[w] \in Nat
  <2>1. w \in Tasks
    BY SetOfList DEF IInv, ListsInv
  <2>2. prio \in [Tasks -> Nat] /\ run \in Tasks /\ prio_base \in [Tasks -> 0 .. 255]
    BY TasksAssumption DEF IInv, ListsInv
  <2>3. prio_base[w] \in 0 .. 255
    BY <2>1, <2>2
  <2> QED BY <1>2, <2>2, <2>3
<1> QED BY <1>3, <1>4, <1>5

(* The inductive invariant gives PriorityReturned.                         *)
LEMMA InvariantPriorityReturned == IInv => PriorityReturned
BY DEF IInv, PrioritiesInv
-------------------------------------------------------------------------------
(* The kernel starts with all tasks ready, in order, and no mutex taken.   *)
LEMMA InitInvariant == Init => IInv
<1> SUFFICES ASSUME Init PROVE IInv
  OBVIOUS
<1>1. PICK s \in SetToSeqs(Tasks) :
        /\ \A i, j \in DOMAIN s : i < j => prio_base[s[i]] >= prio_base[s[j]]
        /\ run = Head(s) /\ os_rdy = Tail(s)
  BY DEF Init
<1>2. /\ os_dly = {} /\ wait = [m \in Mutexes |-> << >>] /\ prio = prio_base
      /\ level = [m \in Mutexes |-> 0] /\ held = [t \in Tasks |-> {}]
      /\ depth = [t \in Tasks |-> [m \in Mutexes |-> 0]]
  BY DEF Init
<1>3. prio_base \in [Tasks -> Nat] /\ Idle \in Tasks
  BY TasksAssumption, IdleAssumption
<1>4. /\ s \in Seq(Tasks) /\ IsInjective(s) /\ ToSet(s) = Tasks
      /\ DOMAIN s = 1 .. Len(s)
  <2> DEFINE n == Cardinality(Tasks)
  <2>1. n \in Nat
    BY TasksAssumption, FS_CardinalityType
  <2>2. s \in [1 .. n -> Tasks] /\ \A i, j \in 1 .. n : i # j => s[i] # s[j]
    BY DEF SetToSeqs
  <2>3. s \in Seq(Tasks) /\ IsInjective(s) /\ DOMAIN s = 1 .. n
    BY <2>1, <2>2 DEF IsInjective
  <2>4. ToSet(s) = Tasks
    <3>1. IsFiniteSet(1 .. n) /\ Cardinality(1 .. n) = n
      BY <2>1, FS_Interval
    <3>2. s \in Injection(1 .. n, Tasks)
      BY <2>2 DEF Injection, IsInjective
    <3>3. s \in Surjection(1 .. n, Tasks)
      <4> HIDE DEF n
      <4>1. Cardinality(1 .. n) = Cardinality(Tasks)
        BY <3>1 DEF n
      <4> QED BY <3>2, <4>1, TasksAssumption, FS_Injection
    <3>4. \A t \in Tasks : \E i \in 1 .. n : s[i] = t
      BY <3>3 DEF Surjection
    <3> HIDE DEF n
    <3> QED BY <2>2, <2>3, <3>4 DEF ToSet
  <2> QED BY <2>3, <2>4, SetOfList
<1>5. List(s, prio)
  BY <1>1, <1>2, <1>3, <1>4 DEF List, Sorted
<1>6. s # << >>
  BY <1>3, <1>4 DEF ToSet
<1>7. run \in Tasks /\ os_rdy \in Seq(Tasks) /\ s = <<run>> \o os_rdy
  BY <1>1, <1>4, <1>6, HeadAndTail
<1>8. Runnable = Tasks
  BY <1>4, <1>7, InFront DEF Runnable
<1>9. << >> \in Seq(Tasks) /\ List(<< >>, prio) /\ ToSet(<< >>) = {}
  BY DEF List, IsInjective, Sorted, ToSet
<1>10. ListsInv
  BY <1>2, <1>3, <1>5, <1>7, <1>9 DEF ListsInv
<1>11. PlacesInv
  BY <1>2, <1>3, <1>8, <1>9 DEF PlacesInv
<1>12. OwnersInv
  BY <1>2, <1>3, <1>9, MaxLevelAssumption DEF OwnersInv
<1>13. PrioritiesInv
  BY <1>2, <1>3, <1>9 DEF PrioritiesInv, PriorityReturned
<1> QED BY <1>10, <1>11, <1>12, <1>13 DEF IInv
-------------------------------------------------------------------------------
(* Every action keeps the invariant, and the order of those that wait.     *)

(* Steps that leave lists and priorities alone keep what is said of them.  *)
LEMMA SameLists ==
  ASSUME IInv, UNCHANGED <<lists, prio>>
  PROVE  ListsInv' /\ PlacesInv' /\ KeepsOrder
<1>1. UNCHANGED <<run, os_rdy, os_dly, wait, prio>>
  BY DEF lists
<1>2. ListsInv' /\ PlacesInv'
  BY <1>1 DEF IInv, ListsInv, PlacesInv, Runnable
<1>3. KeepsOrder
  BY <1>1 DEF KeepsOrder
<1> QED BY <1>2, <1>3

(* Priorities and what is held stay; a list of waiters may lose some.      *)
LEMMA SameOwners ==
  ASSUME IInv, UNCHANGED <<prio, level, held, depth>>,
         \A m \in Mutexes : ToSet(wait'[m]) \subseteq ToSet(wait[m])
  PROVE  OwnersInv' /\ PrioritiesInv'
<1>1. OwnersInv'
  <2>1. \A m \in Mutexes : ToSet(wait'[m]) # {} => level'[m] > 0
    BY DEF IInv, OwnersInv
  <2>2. \A t \in Tasks : \A m \in held'[t] : t \notin ToSet(wait'[m])
    BY DEF IInv, OwnersInv
  <2> QED BY <2>1, <2>2 DEF IInv, OwnersInv
<1>2. PrioritiesInv'
  <2>1. \A t \in Tasks : \A m \in held'[t] : \A w \in ToSet(wait'[m]) : prio'[t] >= prio_base[w]
    BY DEF IInv, OwnersInv, PrioritiesInv
  <2> QED BY <2>1 DEF IInv, PrioritiesInv, PriorityReturned
<1> QED BY <1>1, <1>2

(* Taking a free mutex preserves the invariant: nobody waits for it.       *)
LEMMA TakeFreeStep ==
  ASSUME IInv, run # Idle, NEW m \in Mutexes, TakeFree(m)
  PROVE  IInv' /\ KeepsOrder
<1>1. ListsInv' /\ PlacesInv' /\ KeepsOrder /\ UNCHANGED <<run, wait, prio>>
  BY SameLists DEF TakeFree, lists
<1>2. /\ run \in Tasks /\ level[m] = 0 /\ (\A t \in Tasks : m \notin held[t]) /\ ToSet(wait[m]) = {}
      /\ held' = [held EXCEPT ![run] = held[run] \cup {m}] /\ level' = [level EXCEPT ![m] = 1]
      /\ depth' = [depth EXCEPT ![run][m] = depth[run][m] + 1]
  <2>1. level[m] = 0 /\ ~(level[m] > 0)
    BY DEF TakeFree
  <2>2. ToSet(wait[m]) = {} /\ \A t \in Tasks : m \notin held[t]
    BY <2>1 DEF IInv, OwnersInv
  <2> QED BY <2>1, <2>2 DEF TakeFree, IInv, ListsInv
<1>3. /\ level \in [Mutexes -> 0 .. MaxLevel] /\ held \in [Tasks -> SUBSET Mutexes]
      /\ depth \in [Tasks -> [Mutexes -> Nat]]
  BY DEF IInv, OwnersInv
<1>4. /\ level' \in [Mutexes -> 0 .. MaxLevel] /\ held' \in [Tasks -> SUBSET Mutexes]
      /\ held'[run] = held[run] \cup {m} /\ level'[m] = 1
      /\ \A t \in Tasks : t # run => held'[t] = held[t]
      /\ \A n \in Mutexes : n # m => level'[n] = level[n]
  BY <1>2, <1>3, MaxLevelAssumption
<1>5. /\ depth' \in [Tasks -> [Mutexes -> Nat]]
      /\ \A t \in Tasks, n \in Mutexes :
           depth'[t][n] = IF n \in held'[t] THEN level'[n] ELSE 0
  <2>1. \A t \in Tasks, n \in Mutexes : depth[t][n] = IF n \in held[t] THEN level[n] ELSE 0
    BY DEF IInv, OwnersInv
  <2>2. depth[run][m] = 0
    BY <1>2, <2>1
  <2>3. depth' \in [Tasks -> [Mutexes -> Nat]]
    BY <1>2, <1>3, <2>2
  <2>4. \A t \in Tasks, n \in Mutexes :
          depth'[t][n] = IF t = run /\ n = m THEN 1 ELSE depth[t][n]
    BY <1>2, <1>3, <2>2
  <2> QED BY <1>2, <1>4, <2>1, <2>3, <2>4
<1>6. OwnersInv'
  <2>1. \A n \in Mutexes : level'[n] = 0 <=> \A t \in Tasks : n \notin held'[t]
    BY <1>2, <1>4 DEF IInv, OwnersInv
  <2>2. \A t, u \in Tasks : t # u => held'[t] \cap held'[u] = {}
    BY <1>2, <1>4 DEF IInv, OwnersInv
  <2>3. held'[Idle] = {} /\ Idle \in Tasks
    BY <1>4, IdleAssumption DEF IInv, OwnersInv
  <2>4. \A n \in Mutexes : ToSet(wait'[n]) # {} => level'[n] > 0
    BY <1>1, <1>2, <1>4 DEF IInv, OwnersInv
  <2>5. \A t \in Tasks : \A n \in held'[t] : t \notin ToSet(wait'[n])
    BY <1>1, <1>2, <1>4 DEF IInv, OwnersInv
  <2> QED BY <1>4, <1>5, <2>1, <2>2, <2>3, <2>4, <2>5 DEF OwnersInv
<1>7. PrioritiesInv'
  <2>1. \A t \in Tasks : \A n \in held'[t] : \A w \in ToSet(wait'[n]) : prio'[t] >= prio_base[w]
    BY <1>1, <1>2, <1>4 DEF IInv, PrioritiesInv
  <2>2. PriorityReturned'
    BY <1>1, <1>2, <1>4 DEF IInv, PrioritiesInv, PriorityReturned
  <2> QED BY <1>1, <2>1, <2>2 DEF IInv, PrioritiesInv
<1> QED BY <1>1, <1>6, <1>7 DEF IInv

(* The level of a mutex that its holder takes again, or gives back in part.*)
LEMMA LevelStep ==
  ASSUME IInv, NEW m \in held[run], NEW l \in 1 .. MaxLevel, UNCHANGED <<lists, prio, held>>,
         level' = [level EXCEPT ![m] = l], depth' = [depth EXCEPT ![run][m] = l]
  PROVE  IInv' /\ KeepsOrder
<1>1. ListsInv' /\ PlacesInv' /\ KeepsOrder /\ UNCHANGED <<run, wait, prio, held>>
  BY SameLists DEF lists
<1>2. /\ run \in Tasks /\ level \in [Mutexes -> 0 .. MaxLevel] /\ held \in [Tasks -> SUBSET Mutexes]
      /\ depth \in [Tasks -> [Mutexes -> Nat]] /\ m \in Mutexes /\ l \in Nat /\ l > 0
  BY MaxLevelAssumption DEF IInv, ListsInv, OwnersInv
<1>3. /\ level' \in [Mutexes -> 0 .. MaxLevel] /\ level'[m] = l
      /\ \A n \in Mutexes : n # m => level'[n] = level[n]
  BY <1>2, MaxLevelAssumption
<1>4. /\ depth' \in [Tasks -> [Mutexes -> Nat]]
      /\ \A t \in Tasks, n \in Mutexes :
           depth'[t][n] = IF t = run /\ n = m THEN l ELSE depth[t][n]
  BY <1>2
<1>5. \A t \in Tasks : t # run => m \notin held[t]
  BY <1>2 DEF IInv, OwnersInv
<1>6. OwnersInv'
  <2>1. \A n \in Mutexes : level'[n] = 0 <=> \A t \in Tasks : n \notin held'[t]
    BY <1>1, <1>2, <1>3 DEF IInv, OwnersInv
  <2>2. \A n \in Mutexes : ToSet(wait'[n]) # {} => level'[n] > 0
    BY <1>1, <1>2, <1>3 DEF IInv, OwnersInv
  <2>3. \A t \in Tasks, n \in Mutexes :
          depth'[t][n] = IF n \in held'[t] THEN level'[n] ELSE 0
    BY <1>1, <1>2, <1>3, <1>4, <1>5 DEF IInv, OwnersInv
  <2>4. /\ \A t, u \in Tasks : t # u => held'[t] \cap held'[u] = {}
        /\ held'[Idle] = {} /\ held' \in [Tasks -> SUBSET Mutexes]
        /\ \A t \in Tasks : \A n \in held'[t] : t \notin ToSet(wait'[n])
    BY <1>1 DEF IInv, OwnersInv
  <2> QED BY <1>3, <1>4, <2>1, <2>2, <2>3, <2>4 DEF OwnersInv
<1>7. PrioritiesInv'
  BY <1>1 DEF IInv, PrioritiesInv, PriorityReturned
<1> QED BY <1>1, <1>6, <1>7 DEF IInv

(* Taking a mutex again preserves the invariant.                           *)
LEMMA TakeAgainStep ==
  ASSUME IInv, NEW m \in Mutexes, TakeAgain(m)
  PROVE  IInv' /\ KeepsOrder
<1>1. /\ m \in held[run] /\ run \in Tasks /\ level[m] \in 0 .. MaxLevel /\ level[m] < MaxLevel
      /\ depth[run][m] = level[m]
  BY DEF TakeAgain, IInv, ListsInv, OwnersInv
<1>2. PICK l \in 1 .. MaxLevel : l = level[m] + 1
  BY <1>1, MaxLevelAssumption
<1>3. /\ UNCHANGED <<lists, prio, held>>
      /\ level' = [level EXCEPT ![m] = l] /\ depth' = [depth EXCEPT ![run][m] = l]
  BY <1>1, <1>2 DEF TakeAgain
<1> QED BY <1>1, <1>3, LevelStep

(* A release that is not the last preserves the invariant.                 *)
LEMMA ReleaseLevelStep ==
  ASSUME IInv, NEW m \in held[run], ReleaseLevel(m)
  PROVE  IInv' /\ KeepsOrder
<1>1. m \in Mutexes /\ run \in Tasks
  BY DEF IInv, ListsInv, OwnersInv
<1>2. level[m] \in 0 .. MaxLevel /\ level[m] > 1 /\ depth[run][m] = level[m]
  BY <1>1 DEF ReleaseLevel, IInv, OwnersInv
<1>3. PICK l \in 1 .. MaxLevel : l = level[m] - 1
  BY <1>2, MaxLevelAssumption
<1>4. /\ UNCHANGED <<lists, prio, held>>
      /\ level' = [level EXCEPT ![m] = l] /\ depth' = [depth EXCEPT ![run][m] = l]
  BY <1>2, <1>3 DEF ReleaseLevel
<1> QED BY <1>4, LevelStep

(* osDelay preserves the invariant.                                        *)
LEMMA SleepStep ==
  ASSUME IInv, run # Idle, rt_dly_wait
  PROVE  IInv' /\ KeepsOrder
<1>1. ListsInv' /\ Runnable' = Runnable \ {run} /\ KeepsOrder
  BY SleepLists DEF IInv
<1>2. /\ run \in Tasks /\ os_dly' = os_dly \cup {run}
      /\ UNCHANGED <<wait, prio, level, held, depth>>
  BY DEF rt_dly_wait, IInv, ListsInv
<1>3. PlacesInv'
  BY <1>1, <1>2 DEF IInv, PlacesInv
<1>4. OwnersInv' /\ PrioritiesInv'
  BY <1>2, SameOwners
<1> QED BY <1>1, <1>3, <1>4 DEF IInv

(* The round robin preserves the invariant.                                *)
LEMMA RobinStep ==
  ASSUME IInv, rt_chk_robin
  PROVE  IInv' /\ KeepsOrder
<1>1. ListsInv' /\ Runnable' = Runnable /\ KeepsOrder
  BY RobinLists DEF IInv
<1>2. UNCHANGED <<os_dly, wait, prio, level, held, depth>>
  BY DEF rt_chk_robin
<1>3. PlacesInv'
  BY <1>1, <1>2 DEF IInv, PlacesInv
<1>4. OwnersInv' /\ PrioritiesInv'
  BY <1>2, SameOwners
<1> QED BY <1>1, <1>3, <1>4 DEF IInv

(* The end of a timed wait preserves the invariant; the owner may stay     *)
(* urgent for nobody.                                                      *)
LEMMA TimeoutStep ==
  ASSUME IInv, NEW t \in Tasks, rt_dec_dly(t)
  PROVE  IInv' /\ KeepsOrder
<1>1. /\ ListsInv' /\ Runnable' = Runnable \cup {t} /\ KeepsOrder
      /\ \A m \in Mutexes : ToSet(wait'[m]) = ToSet(wait[m]) \ {t}
  BY TimeoutLists DEF IInv
<1>2. os_dly' = os_dly \ {t} /\ UNCHANGED <<prio, level, held, depth>>
  BY DEF rt_dec_dly
<1>3. PlacesInv'
  <2>1. os_dly' \subseteq Tasks /\ Idle \in Runnable'
    BY <1>1, <1>2 DEF IInv, PlacesInv
  <2>2. \A u \in Runnable' : u \notin os_dly' /\ \A m \in Mutexes : u \notin ToSet(wait'[m])
    BY <1>1, <1>2 DEF IInv, PlacesInv
  <2>3. ASSUME NEW u \in Tasks \ Runnable'
        PROVE  u \in os_dly' \/ \E m \in Mutexes : u \in ToSet(wait'[m])
    BY <1>1, <1>2 DEF IInv, PlacesInv
  <2>4. \A m, n \in Mutexes : m # n => ToSet(wait'[m]) \cap ToSet(wait'[n]) = {}
    BY <1>1 DEF IInv, PlacesInv
  <2> QED BY <2>1, <2>2, <2>3, <2>4 DEF PlacesInv
<1>4. OwnersInv' /\ PrioritiesInv'
  BY <1>1, <1>2, SameOwners
<1> QED BY <1>1, <1>3, <1>4 DEF IInv

(* Waiting preserves the invariant: the owner gets at least as urgent as   *)
(* the caller.                                                             *)
LEMMA WaitForStep ==
  ASSUME IInv, run # Idle, NEW m \in Mutexes, NEW timed \in BOOLEAN, WaitFor(m, timed)
  PROVE  IInv' /\ KeepsOrder
<1>1. /\ ListsInv' /\ Runnable' = Runnable \ {run} /\ KeepsOrder
      /\ \A n \in Mutexes :
           ToSet(wait'[n]) = IF n = m THEN ToSet(wait[n]) \cup {run} ELSE ToSet(wait[n])
  BY WaitForLists DEF IInv
<1>2. /\ os_dly' = (IF timed THEN os_dly \cup {run} ELSE os_dly)
      /\ UNCHANGED <<level, held, depth>> /\ level[m] > 0 /\ m \notin held[run] /\ run \in Tasks
      /\ run \in Runnable
  BY DEF WaitFor, IInv, ListsInv, Runnable
<1>3. PICK o \in Tasks : o = Owner(m) /\ m \in held[o] /\ \A t \in Tasks : m \in held[t] => t = o
  BY <1>2, OwnerHolds DEF IInv
<1>4. /\ prio'[o] >= prio[run] /\ prio'[o] >= prio[o] /\ prio'[o] \in {prio[o], prio[run]}
      /\ \A t \in Tasks : t # o => prio'[t] = prio[t]
  <2>1. PICK p : p = Raised(o)
    OBVIOUS
  <2>2. o # run
    BY <1>2, <1>3
  <2>3. /\ p[o] >= prio[run] /\ p[o] >= prio[o] /\ p[o] \in {prio[o], prio[run]}
        /\ \A t \in Tasks : t # o => p[t] = prio[t]
    BY <2>1, <2>2, RaisedOwner DEF IInv
  <2>4. prio' = p
    BY <1>3, <2>1 DEF WaitFor
  <2> QED BY <2>3, <2>4
<1>5. PlacesInv'
  <2>1. os_dly' \subseteq Tasks /\ Idle \in Runnable'
    BY <1>1, <1>2 DEF IInv, PlacesInv
  <2>2. \A u \in Runnable' : u \notin os_dly' /\ \A n \in Mutexes : u \notin ToSet(wait'[n])
    BY <1>1, <1>2 DEF IInv, PlacesInv
  <2>3. ASSUME NEW u \in Tasks \ Runnable'
        PROVE  u \in os_dly' \/ \E n \in Mutexes : u \in ToSet(wait'[n])
    BY <1>1, <1>2 DEF IInv, PlacesInv
  <2>4. ASSUME NEW n \in Mutexes, NEW k \in Mutexes, n # k
        PROVE  ToSet(wait'[n]) \cap ToSet(wait'[k]) = {}
    <3>1. run \notin ToSet(wait[n]) /\ run \notin ToSet(wait[k])
      BY <1>2 DEF IInv, PlacesInv
    <3>2. ToSet(wait[n]) \cap ToSet(wait[k]) = {}
      BY <2>4 DEF IInv, PlacesInv
    <3> QED BY <1>1, <2>4, <3>1, <3>2
  <2> QED BY <2>1, <2>2, <2>3, <2>4 DEF PlacesInv
<1>6. OwnersInv'
  <2>1. \A n \in Mutexes : ToSet(wait'[n]) # {} => level'[n] > 0
    BY <1>1, <1>2 DEF IInv, OwnersInv
  <2>2. ASSUME NEW t \in Tasks, NEW n \in held'[t] PROVE t \notin ToSet(wait'[n])
    <3>1. n \in held[t] /\ n \in Mutexes
      BY <1>2 DEF IInv, OwnersInv
    <3>2. t \notin ToSet(wait[n])
      BY <3>1 DEF IInv, OwnersInv
    <3>3. ~(n = m /\ t = run)
      BY <1>2, <3>1
    <3> QED BY <1>1, <3>1, <3>2, <3>3
  <2> QED BY <1>2, <2>1, <2>2 DEF IInv, OwnersInv
<1>7. PrioritiesInv'
  <2>0. /\ prio \in [Tasks -> Nat] /\ prio' \in [Tasks -> Nat]
        /\ \A t \in Tasks : prio_base[t] \in Nat
    <3>1. prio \in [Tasks -> Nat] /\ prio' \in [Tasks -> Nat]
      BY <1>1 DEF IInv, ListsInv
    <3>2. \A t \in Tasks : prio_base[t] \in 0 .. 255
      BY TasksAssumption
    <3> QED BY <3>1, <3>2
  <2>1. ASSUME NEW t \in Tasks
        PROVE  prio'[t] \in {prio_base[u] : u \in Tasks} /\ prio'[t] >= prio_base[t]
    <3>1. /\ prio[t] \in {prio_base[u] : u \in Tasks} /\ prio[run] \in {prio_base[u] : u \in Tasks}
          /\ prio[t] >= prio_base[t]
      BY <1>2 DEF IInv, PrioritiesInv
    <3>2. CASE t = o
      <4>1. prio'[t] >= prio[t] /\ prio'[t] \in {prio[t], prio[run]}
        BY <1>4, <3>2
      <4>2. prio'[t] \in Nat /\ prio[t] \in Nat /\ prio_base[t] \in Nat
        BY <2>0
      <4> QED BY <3>1, <4>1, <4>2
    <3> QED BY <1>4, <3>1, <3>2
  <2>2. ASSUME NEW t \in Tasks, NEW n \in held'[t], NEW w \in ToSet(wait'[n])
        PROVE  prio'[t] >= prio_base[w]
    <3>1. n \in held[t] /\ n \in Mutexes
      BY <1>2 DEF IInv, OwnersInv
    <3>2. prio'[t] >= prio[t]
      BY <1>4, <2>0
    <3>3. prio'[t] \in Nat /\ prio[t] \in Nat
      BY <2>0
    <3>4. CASE w \in ToSet(wait[n])
      <4>1. prio[t] >= prio_base[w] /\ w \in Tasks
        BY <3>1, <3>4, SetOfList DEF IInv, PrioritiesInv, ListsInv
      <4>2. prio_base[w] \in Nat
        BY <2>0, <4>1
      <4> QED BY <3>2, <3>3, <4>1, <4>2
    <3>5. CASE w \notin ToSet(wait[n])
      <4>1. n = m /\ w = run
        BY <1>1, <3>1, <3>5
      <4>2. t = o
        BY <1>3, <3>1, <4>1
      <4>3. prio[run] >= prio_base[run] /\ prio[run] \in Nat /\ prio_base[run] \in Nat
        BY <1>2, <2>0 DEF IInv, PrioritiesInv
      <4>4. prio'[t] >= prio[run]
        BY <1>4, <4>2
      <4> QED BY <3>3, <4>1, <4>3, <4>4
    <3> QED BY <3>4, <3>5
  <2>3. PriorityReturned'
    <3>1. \A t \in Tasks : held'[t] = {} => t # o /\ held[t] = {}
      BY <1>2, <1>3
    <3> QED BY <1>4, <3>1 DEF IInv, PrioritiesInv, PriorityReturned
  <2> QED BY <2>1, <2>2, <2>3 DEF PrioritiesInv
<1> QED BY <1>1, <1>5, <1>6, <1>7 DEF IInv

(* The last release of a mutex nobody waits for preserves the invariant.   *)
LEMMA ReleaseFreeStep ==
  ASSUME IInv, run # Idle, NEW m \in held[run], ReleaseFree(m)
  PROVE  IInv' /\ KeepsOrder
<1> DEFINE left == held[run] \ {m}
<1>0. PICK h : h = Restored(run, left)
  OBVIOUS
<1>1. /\ run \in Tasks /\ m \in Mutexes /\ level[m] = 1 /\ wait' = wait /\ os_dly' = os_dly
      /\ prio' = [prio EXCEPT ![run] = h] /\ level' = [level EXCEPT ![m] = 0]
      /\ held' = [held EXCEPT ![run] = left] /\ depth' = [depth EXCEPT ![run][m] = @ - 1]
      /\ left \in SUBSET Mutexes /\ Yield(prio')
  BY <1>0 DEF ReleaseFree, IInv, ListsInv, OwnersInv
<1>2. /\ h \in {prio_base[u] : u \in Tasks} /\ h \in Nat /\ h >= prio_base[run]
      /\ \A n \in left : \A w \in ToSet(wait[n]) : h >= prio_base[w]
      /\ left = {} => h = prio_base[run]
  BY <1>0, <1>1, RestoredPriority DEF IInv
<1> HIDE DEF left
<1>3. /\ prio' \in [Tasks -> Nat] /\ List(os_rdy, prio') /\ \A n \in Mutexes : List(wait[n], prio')
      /\ prio'[run] = h /\ \A t \in Tasks : t # run => prio'[t] = prio[t]
  BY <1>1, <1>2, ReleasedPriority DEF IInv
<1>4. /\ run' \in Tasks /\ os_rdy' \in Seq(Tasks)
      /\ List(<<run'>> \o os_rdy', prio') /\ Runnable' = Runnable
  BY <1>1, <1>3, YieldLists DEF IInv
<1>5. ListsInv'
  BY <1>1, <1>3, <1>4 DEF IInv, ListsInv
<1>6. PlacesInv' /\ KeepsOrder
  BY <1>1, <1>4 DEF IInv, PlacesInv, KeepsOrder
<1>7. /\ level \in [Mutexes -> 0 .. MaxLevel] /\ held \in [Tasks -> SUBSET Mutexes]
      /\ depth \in [Tasks -> [Mutexes -> Nat]]
  BY DEF IInv, OwnersInv
<1>8. /\ level' \in [Mutexes -> 0 .. MaxLevel] /\ held' \in [Tasks -> SUBSET Mutexes]
      /\ held'[run] = held[run] \ {m} /\ level'[m] = 0
      /\ \A t \in Tasks : t # run => held'[t] = held[t]
      /\ \A n \in Mutexes : n # m => level'[n] = level[n]
  BY <1>1, <1>7, MaxLevelAssumption DEF left
<1>9. \A t \in Tasks : t # run => m \notin held[t]
  BY <1>1 DEF IInv, OwnersInv
<1>10. /\ depth' \in [Tasks -> [Mutexes -> Nat]]
       /\ \A t \in Tasks, n \in Mutexes :
            depth'[t][n] = IF n \in held'[t] THEN level'[n] ELSE 0
  <2>1. \A t \in Tasks, n \in Mutexes : depth[t][n] = IF n \in held[t] THEN level[n] ELSE 0
    BY DEF IInv, OwnersInv
  <2>2. depth[run][m] = 1
    BY <1>1, <2>1
  <2>3. depth' = [depth EXCEPT ![run][m] = 0]
    BY <1>1, <2>2
  <2>4. /\ depth' \in [Tasks -> [Mutexes -> Nat]]
        /\ \A t \in Tasks, n \in Mutexes :
             depth'[t][n] = IF t = run /\ n = m THEN 0 ELSE depth[t][n]
    BY <1>1, <1>7, <2>3
  <2> QED BY <1>1, <1>8, <1>9, <2>1, <2>4
<1>11. OwnersInv'
  <2>1. \A n \in Mutexes : level'[n] = 0 <=> \A t \in Tasks : n \notin held'[t]
    <3>1. \A t \in Tasks : m \notin held'[t]
      BY <1>8, <1>9
    <3>2. ASSUME NEW n \in Mutexes, n # m
          PROVE  level'[n] = level[n] /\ \A t \in Tasks : n \in held'[t] <=> n \in held[t]
      BY <1>8, <3>2
    <3> QED BY <1>8, <3>1, <3>2 DEF IInv, OwnersInv
  <2>2. /\ \A t \in Tasks : held'[t] \subseteq held[t]
        /\ \A t, u \in Tasks : t # u => held'[t] \cap held'[u] = {}
    BY <1>8 DEF IInv, OwnersInv
  <2>3. held'[Idle] = {}
    BY <2>2, IdleAssumption DEF IInv, OwnersInv
  <2>4. \A n \in Mutexes : ToSet(wait'[n]) # {} => level'[n] > 0
    <3>1. ToSet(wait'[m]) = {}
      BY <1>1 DEF ReleaseFree, ToSet
    <3> QED BY <1>1, <1>8, <3>1 DEF IInv, OwnersInv
  <2>5. \A t \in Tasks : \A n \in held'[t] : t \notin ToSet(wait'[n])
    BY <1>1, <2>2 DEF IInv, OwnersInv
  <2> QED BY <1>8, <1>10, <2>1, <2>2, <2>3, <2>4, <2>5 DEF OwnersInv
<1>12. PrioritiesInv'
  <2>1. \A t \in Tasks : prio'[t] \in {prio_base[u] : u \in Tasks} /\ prio'[t] >= prio_base[t]
    BY <1>2, <1>3 DEF IInv, PrioritiesInv
  <2>2. ASSUME NEW t \in Tasks, NEW n \in held'[t], NEW w \in ToSet(wait'[n])
        PROVE  prio'[t] >= prio_base[w]
    <3>1. CASE t = run
      BY <1>1, <1>2, <1>3, <1>8, <3>1 DEF left
    <3>2. CASE t # run
      BY <1>1, <1>3, <1>8, <3>2 DEF IInv, PrioritiesInv
    <3> QED BY <3>1, <3>2
  <2>3. PriorityReturned'
    <3>1. ASSUME NEW t \in Tasks, held'[t] = {} PROVE prio'[t] = prio_base[t]
      <4>1. CASE t = run
        BY <1>2, <1>3, <1>8, <3>1, <4>1 DEF left
      <4>2. CASE t # run
        BY <1>3, <1>8, <3>1, <4>2 DEF IInv, PrioritiesInv, PriorityReturned
      <4> QED BY <4>1, <4>2
    <3> QED BY <3>1 DEF PriorityReturned
  <2> QED BY <2>1, <2>2, <2>3 DEF PrioritiesInv
<1> QED BY <1>5, <1>6, <1>11, <1>12 DEF IInv

(* Handing the mutex to its first waiter preserves the invariant, for both *)
(* tasks.                                                                  *)
LEMMA ReleaseToStep ==
  ASSUME IInv, run # Idle, NEW m \in held[run], NEW w \in Tasks, ReleaseTo(m, w)
  PROVE  /\ IInv' /\ KeepsOrder
         /\ w # run /\ w \in ToSet(wait[m]) /\ m \in Mutexes
         /\ \A n \in Mutexes : ToSet(wait'[n]) = ToSet(wait[n]) \ {w}
         /\ depth' = [depth EXCEPT ![run][m] = 0, ![w][m] = 1]
<1> DEFINE left == held[run] \ {m}
<1>0. PICK h : h = Restored(run, left)
  OBVIOUS
<1>1. /\ run \in Tasks /\ m \in Mutexes /\ level[m] = 1 /\ level' = level /\ os_dly' = os_dly \ {w}
      /\ wait[m] # << >> /\ w = Head(wait[m]) /\ left \in SUBSET Mutexes
  BY <1>0 DEF ReleaseTo, IInv, ListsInv, OwnersInv
<1>a. /\ wait' = [wait EXCEPT ![m] = Tail(wait[m])] /\ prio' = [prio EXCEPT ![run] = h]
      /\ held' = [held EXCEPT ![run] = @ \ {m}, ![w] = @ \cup {m}]
      /\ depth' = [depth EXCEPT ![run][m] = @ - 1, ![w][m] = @ + 1]
      /\ HandOver(w, prio')
  BY <1>0 DEF ReleaseTo
<1>2. /\ h \in {prio_base[u] : u \in Tasks} /\ h \in Nat /\ h >= prio_base[run]
      /\ \A n \in left : \A v \in ToSet(wait[n]) : h >= prio_base[v]
      /\ left = {} => h = prio_base[run]
  BY <1>0, <1>1, RestoredPriority DEF IInv
<1> HIDE DEF left
<1>3. /\ prio' \in [Tasks -> Nat] /\ List(os_rdy, prio') /\ \A n \in Mutexes : List(wait[n], prio')
      /\ prio'[run] = h /\ \A t \in Tasks : t # run => prio'[t] = prio[t]
  <2>1. h \in Nat /\ prio' = [prio EXCEPT ![run] = h]
    BY <1>a, <1>2
  <2> QED BY <2>1, ReleasedPriority DEF IInv
<1>4. /\ List(Tail(wait[m]), prio') /\ w \notin ToSet(Tail(wait[m]))
      /\ ToSet(wait[m]) = {w} \cup ToSet(Tail(wait[m]))
      /\ \A v \in Tasks : Ahead(v, Tail(wait[m])) \subseteq Ahead(v, wait[m])
  <2>1. List(wait[m], prio')
    BY <1>1, <1>3
  <2> QED BY <1>1, <1>3, <2>1, TailOfList
<1>5. /\ w \in ToSet(wait[m]) /\ w \notin Runnable /\ w # run
      /\ \A n \in Mutexes : n # m => w \notin ToSet(wait[n])
  <2>1. w \in ToSet(wait[m])
    BY <1>4
  <2> QED BY <1>1, <2>1 DEF IInv, PlacesInv, Runnable
<1>6. /\ run' \in Tasks /\ os_rdy' \in Seq(Tasks)
      /\ List(<<run'>> \o os_rdy', prio') /\ Runnable' = Runnable \cup {w}
  BY <1>a, <1>3, <1>5, HandOverLists DEF IInv
<1>7. /\ wait' \in [Mutexes -> Seq(Tasks)] /\ wait'[m] = Tail(wait[m])
      /\ \A n \in Mutexes : n # m => wait'[n] = wait[n]
  <2>1. wait \in [Mutexes -> Seq(Tasks)] /\ Tail(wait[m]) \in Seq(Tasks)
    BY <1>4 DEF List, IInv, ListsInv
  <2> QED BY <1>1, <1>a, <2>1
<1>8. \A n \in Mutexes : ToSet(wait'[n]) = ToSet(wait[n]) \ {w}
  <2>1. ToSet(wait'[m]) = ToSet(wait[m]) \ {w}
    BY <1>4, <1>7
  <2>2. \A n \in Mutexes : n # m => ToSet(wait'[n]) = ToSet(wait[n]) \ {w}
    BY <1>5, <1>7
  <2> QED BY <2>1, <2>2
<1>9. ListsInv'
  BY <1>3, <1>4, <1>6, <1>7 DEF ListsInv
<1>10. PlacesInv'
  <2>1. os_dly' \subseteq Tasks /\ Idle \in Runnable'
    BY <1>1, <1>6 DEF IInv, PlacesInv
  <2>2. ASSUME NEW u \in Runnable'
        PROVE  u \notin os_dly' /\ \A n \in Mutexes : u \notin ToSet(wait'[n])
    <3>1. CASE u = w
      BY <1>1, <1>8, <3>1
    <3>2. CASE u # w
      <4>1. u \in Runnable
        BY <1>6, <3>2
      <4>2. u \notin os_dly /\ \A n \in Mutexes : u \notin ToSet(wait[n])
        BY <4>1 DEF IInv, PlacesInv
      <4> QED BY <1>1, <1>8, <4>2
    <3> QED BY <3>1, <3>2
  <2>3. ASSUME NEW u \in Tasks \ Runnable'
        PROVE  u \in os_dly' \/ \E n \in Mutexes : u \in ToSet(wait'[n])
    BY <1>1, <1>6, <1>8 DEF IInv, PlacesInv
  <2>4. \A n, k \in Mutexes : n # k => ToSet(wait'[n]) \cap ToSet(wait'[k]) = {}
    BY <1>8 DEF IInv, PlacesInv
  <2> QED BY <2>1, <2>2, <2>3, <2>4 DEF PlacesInv
<1>11. KeepsOrder
  <2>1. ASSUME NEW n \in Mutexes, NEW t \in ToSet(wait[n])
        PROVE  Ahead(t, wait'[n]) \ Ahead(t, wait[n]) = {}
    <3>1. t \in Tasks
      BY SetOfList DEF IInv, ListsInv
    <3> QED BY <1>4, <1>7, <3>1
  <2> QED BY <2>1 DEF KeepsOrder
<1>12. /\ level \in [Mutexes -> 0 .. MaxLevel] /\ held \in [Tasks -> SUBSET Mutexes]
       /\ depth \in [Tasks -> [Mutexes -> Nat]]
  BY DEF IInv, OwnersInv
<1>13. /\ held' \in [Tasks -> SUBSET Mutexes]
       /\ held'[run] = held[run] \ {m} /\ held'[w] = held[w] \cup {m}
       /\ \A t \in Tasks : t # run /\ t # w => held'[t] = held[t]
  BY <1>1, <1>a, <1>5, <1>12
<1>14. \A t \in Tasks : t # run => m \notin held[t]
  BY <1>1 DEF IInv, OwnersInv
<1>15. /\ depth' \in [Tasks -> [Mutexes -> Nat]]
       /\ \A t \in Tasks, n \in Mutexes :
            depth'[t][n] = IF n # m THEN depth[t][n] ELSE IF t = w THEN 1 ELSE 0
       /\ depth' = [depth EXCEPT ![run][m] = 0, ![w][m] = 1]
  <2>1. \A t \in Tasks, n \in Mutexes : depth[t][n] = IF n \in held[t] THEN level[n] ELSE 0
    BY DEF IInv, OwnersInv
  <2>2. depth[run][m] = 1 /\ \A t \in Tasks : t # run => depth[t][m] = 0
    BY <1>1, <1>14, <2>1
  <2>3. PICK d : d = [depth EXCEPT ![run][m] = @ - 1]
    OBVIOUS
  <2>4. /\ d \in [Tasks -> [Mutexes -> Nat]] /\ d = [depth EXCEPT ![run][m] = 0]
        /\ \A t \in Tasks, n \in Mutexes :
             d[t][n] = IF n # m THEN depth[t][n] ELSE 0
    <3>1. d = [depth EXCEPT ![run][m] = 0]
      BY <2>2, <2>3
    <3> QED BY <1>1, <1>12, <2>2, <3>1
  <2>5. depth' = [d EXCEPT ![w][m] = 1]
    <3>0. depth' = [[depth EXCEPT ![run][m] = @ - 1] EXCEPT ![w][m] = @ + 1]
      BY <1>a, <1>5
    <3>1. depth' = [d EXCEPT ![w][m] = @ + 1]
      BY <2>3, <3>0
    <3>2. d[w][m] = 0
      BY <1>1, <2>4
    <3> QED BY <3>1, <3>2
  <2>6. depth' = [depth EXCEPT ![run][m] = 0, ![w][m] = 1]
    BY <1>5, <2>4, <2>5
  <2>7. /\ depth' \in [Tasks -> [Mutexes -> Nat]]
        /\ \A t \in Tasks, n \in Mutexes :
             depth'[t][n] = IF n # m THEN depth[t][n] ELSE IF t = w THEN 1 ELSE 0
    BY <1>1, <2>4, <2>5
  <2> QED BY <2>6, <2>7
<1>16. OwnersInv'
  <2>1. \A n \in Mutexes : level'[n] = 0 <=> \A t \in Tasks : n \notin held'[t]
    <3>1. level'[m] # 0 /\ m \in held'[w]
      BY <1>1, <1>13
    <3>2. ASSUME NEW n \in Mutexes, n # m
          PROVE  level'[n] = level[n] /\ \A t \in Tasks : n \in held'[t] <=> n \in held[t]
      BY <1>1, <1>13, <3>2
    <3>3. \A n \in Mutexes : level[n] = 0 <=> \A t \in Tasks : n \notin held[t]
      BY DEF IInv, OwnersInv
    <3> QED BY <3>1, <3>2, <3>3
  <2>2. \A t, u \in Tasks : t # u => held'[t] \cap held'[u] = {}
    BY <1>13, <1>14 DEF IInv, OwnersInv
  <2>3. held'[Idle] = {}
    <3>1. w # Idle /\ Idle \in Tasks
      BY <1>5, IdleAssumption DEF IInv, PlacesInv
    <3>2. held[Idle] = {} /\ run # w
      BY <1>5 DEF IInv, OwnersInv
    <3>3. held'[Idle] = held[Idle]
      BY <1>13, <3>1
    <3> QED BY <3>2, <3>3
  <2>4. ASSUME NEW n \in Mutexes, ToSet(wait'[n]) # {} PROVE level'[n] > 0
    <3>1. ToSet(wait[n]) # {}
      BY <1>8, <2>4
    <3>2. level[n] > 0
      BY <3>1 DEF IInv, OwnersInv
    <3> QED BY <1>1, <3>2
  <2>5. ASSUME NEW t \in Tasks, NEW n \in held'[t] PROVE t \notin ToSet(wait'[n])
    <3>1. n \in held[t] \/ (n = m /\ t = w)
      BY <1>13
    <3>2. n \in Mutexes
      BY <1>13
    <3>3. n \in held[t] => t \notin ToSet(wait[n])
      BY DEF IInv, OwnersInv
    <3> QED BY <1>8, <3>1, <3>2, <3>3
  <2>6. \A t \in Tasks, n \in Mutexes : depth'[t][n] = IF n \in held'[t] THEN level'[n] ELSE 0
    <3>1. \A t \in Tasks, n \in Mutexes : depth[t][n] = IF n \in held[t] THEN level[n] ELSE 0
      BY DEF IInv, OwnersInv
    <3>2. ASSUME NEW t \in Tasks, NEW n \in Mutexes, n # m PROVE n \in held'[t] <=> n \in held[t]
      BY <1>13, <3>2
    <3>3. \A t \in Tasks : m \in held'[t] <=> t = w
      BY <1>13, <1>14
    <3>4. /\ level'[m] = 1 /\ level' = level
          /\ \A t \in Tasks, n \in Mutexes :
               depth'[t][n] = IF n # m THEN depth[t][n] ELSE IF t = w THEN 1 ELSE 0
      BY <1>1, <1>15
    <3> QED BY <3>1, <3>2, <3>3, <3>4
  <2> QED BY <1>1, <1>12, <1>13, <1>15, <2>1, <2>2, <2>3, <2>4, <2>5, <2>6 DEF OwnersInv
<1>17. PrioritiesInv'
  <2>1. \A t \in Tasks : prio'[t] \in {prio_base[u] : u \in Tasks} /\ prio'[t] >= prio_base[t]
    BY <1>2, <1>3 DEF IInv, PrioritiesInv
  <2>2. ASSUME NEW t \in Tasks, NEW n \in held'[t], NEW v \in ToSet(wait'[n])
        PROVE  prio'[t] >= prio_base[v]
    <3>1. n \in Mutexes /\ v \in ToSet(wait[n])
      BY <1>8, <1>13
    <3>2. CASE t = run
      BY <1>2, <1>3, <1>13, <3>1, <3>2 DEF left
    <3>3. CASE t # run /\ n \in held[t]
      BY <1>3, <3>1, <3>3 DEF IInv, PrioritiesInv
    <3>4. CASE t # run /\ n \notin held[t]
      <4>1. t = w /\ n = m
        BY <1>13, <3>4
      <4>2. prio[w] >= prio[v] /\ v \in Tasks
        <5>1. prio \in [Tasks -> Nat] /\ List(wait[m], prio) /\ wait[m] \in Seq(Tasks)
          BY <1>1 DEF IInv, ListsInv
        <5>2. \A u \in ToSet(wait[m]) : prio[w] >= prio[u]
          BY <1>1, <5>1, TailOfList
        <5> QED BY <3>1, <4>1, <5>1, <5>2, SetOfList
      <4>3. prio[v] >= prio_base[v] /\ prio'[w] = prio[w]
        BY <1>3, <1>5, <4>2 DEF IInv, PrioritiesInv
      <4>4. prio[v] \in Nat /\ prio[w] \in Nat /\ prio_base[v] \in Nat
        <5>1. prio \in [Tasks -> Nat] /\ prio_base[v] \in 0 .. 255
          BY <4>2, TasksAssumption DEF IInv, ListsInv
        <5> QED BY <4>2, <5>1
      <4> QED BY <4>1, <4>2, <4>3, <4>4
    <3> QED BY <3>2, <3>3, <3>4
  <2>3. PriorityReturned'
    <3>1. ASSUME NEW t \in Tasks, held'[t] = {} PROVE prio'[t] = prio_base[t]
      <4>1. CASE t = run
        BY <1>2, <1>3, <1>13, <3>1, <4>1 DEF left
      <4>2. CASE t # run
        BY <1>3, <1>13, <3>1, <4>2 DEF IInv, PrioritiesInv, PriorityReturned
      <4> QED BY <4>1, <4>2
    <3> QED BY <3>1 DEF PriorityReturned
  <2> QED BY <2>1, <2>2, <2>3 DEF PrioritiesInv
<1> QED BY <1>1, <1>5, <1>8, <1>9, <1>10, <1>11, <1>15, <1>16, <1>17 DEF IInv
-------------------------------------------------------------------------------
(* Every step preserves the invariant and the order of those who wait.     *)
LEMMA NextStep ==
  ASSUME IInv, Next
  PROVE  IInv' /\ KeepsOrder
<1>1. ASSUME run # Idle, NEW m \in Mutexes, rt_mut_release(m) PROVE IInv' /\ KeepsOrder
  <2>1. m \in held[run]
    BY <1>1 DEF rt_mut_release
  <2>2. CASE ReleaseLevel(m)
    BY <2>1, <2>2, ReleaseLevelStep
  <2>3. CASE ReleaseFree(m)
    BY <1>1, <2>1, <2>3, ReleaseFreeStep
  <2>4. ASSUME NEW w \in Tasks, ReleaseTo(m, w) PROVE IInv' /\ KeepsOrder
    BY <1>1, <2>1, <2>4, ReleaseToStep
  <2> QED BY <1>1, <2>2, <2>3, <2>4 DEF rt_mut_release
<1>2. ASSUME run # Idle, NEW m \in Mutexes, NEW timed \in BOOLEAN, rt_mut_wait(m, timed)
      PROVE  IInv' /\ KeepsOrder
  <2>1. CASE TakeFree(m)
    BY <1>2, <2>1, TakeFreeStep
  <2>2. CASE TakeAgain(m)
    BY <2>2, TakeAgainStep
  <2>3. CASE WaitFor(m, timed)
    BY <1>2, <2>3, WaitForStep
  <2> QED BY <1>2, <2>1, <2>2, <2>3 DEF rt_mut_wait
<1>3. ASSUME run # Idle, rt_dly_wait PROVE IInv' /\ KeepsOrder
  BY <1>3, SleepStep
<1>4. ASSUME rt_systick PROVE IInv' /\ KeepsOrder
  BY <1>4, RobinStep, TimeoutStep DEF rt_systick
<1> QED BY <1>1, <1>2, <1>3, <1>4 DEF Next

(* A stuttering step preserves the invariant.                              *)
LEMMA StutterStep ==
  ASSUME IInv, UNCHANGED vars
  PROVE  IInv' /\ KeepsOrder
<1>1. UNCHANGED <<lists, prio>> /\ UNCHANGED <<prio, level, held, depth>> /\ wait' = wait
  BY DEF vars, lists
<1> QED BY <1>1, SameLists, SameOwners DEF IInv

(* The inductive invariant holds in every behaviour of the kernel's        *)
(* mutexes.                                                                *)
THEOREM Invariance == Spec => []IInv
<1>1. IInv /\ [Next]_vars => IInv'
  BY NextStep, StutterStep
<1> QED BY <1>1, InitInvariant, PTL DEF Spec

(* The kernel's lists: each task is in one place, every list is ordered by *)
(* the priorities of the moment, and a mutex that has a level has one      *)
(* owner.                                                                  *)
THEOREM TypesCorrect == Spec => []TypeOK
BY Invariance, InvariantTypes, PTL

(* Priority inheritance: no holder that could run is kept waiting by a     *)
(* task less urgent than one that waits for what it holds.                 *)
THEOREM NeverInverted == Spec => []NoInversion
BY Invariance, InvariantNoInversion, PTL

(* A task that holds nothing has the priority it was created with.         *)
THEOREM PriorityIsReturned == Spec => []PriorityReturned
BY Invariance, InvariantPriorityReturned, PTL

(* Those that wait for a mutex are overtaken by more urgent tasks only.    *)
THEOREM NeverOvertaken == Spec => NoOvertaking
<1>1. IInv /\ [Next]_vars =>
        [\A m \in Mutexes : \A t \in ToSet(wait[m]) :
           \A u \in Ahead(t, wait'[m]) \ Ahead(t, wait[m]) : prio'[u] > prio'[t]]_vars
  BY NextStep DEF KeepsOrder
<1> QED BY <1>1, Invariance, PTL DEF Spec, NoOvertaking
-------------------------------------------------------------------------------
(* Ready tasks take turns.                                                 *)

InTurn ==
  \A t \in ToSet(os_rdy) :
    \A u \in Ahead(t, <<run'>> \o os_rdy') \ Ahead(t, <<run>> \o os_rdy) : prio'[u] > prio'[t]

(* Ahead of a task of a list with x in front are x and those before.       *)
LEMMA AheadInFront ==
  ASSUME NEW lst \in Seq(Tasks), NEW x \in Tasks, NEW t \in ToSet(lst)
  PROVE  Ahead(t, <<x>> \o lst) = {x} \cup Ahead(t, lst)
<1> DEFINE res == <<x>> \o lst
<1>1. /\ res \in Seq(Tasks) /\ Len(res) = Len(lst) + 1 /\ Len(lst) \in Nat
      /\ res[1] = x
      /\ \A i \in 1 .. Len(lst) : res[i + 1] = lst[i]
      /\ \A i \in 1 .. Len(lst) + 1 : i # 1 => i - 1 \in 1 .. Len(lst) /\ res[i] = lst[i - 1]
  BY InFront, SetOfList
<1> HIDE DEF res
<1>2. ASSUME NEW u \in Ahead(t, res) PROVE u = x \/ u \in Ahead(t, lst)
  <2>1. PICK i \in 1 .. Len(res), j \in 1 .. Len(res) : i < j /\ res[i] = u /\ res[j] = t
    BY <1>1, <1>2, AheadMeaning
  <2>2. CASE i = 1
    BY <1>1, <2>1, <2>2
  <2>3. CASE i # 1
    <3>1. /\ i - 1 \in 1 .. Len(lst) /\ j - 1 \in 1 .. Len(lst) /\ i - 1 < j - 1
          /\ lst[i - 1] = u /\ lst[j - 1] = t
      BY <1>1, <2>1, <2>3
    <3> QED BY <3>1, AheadMeaning
  <2> QED BY <2>2, <2>3
<1>3. x \in Ahead(t, res)
  <2>1. PICK j \in 1 .. Len(lst) : t = lst[j]
    BY SetOfList
  <2>2. 1 \in 1 .. Len(res) /\ j + 1 \in 1 .. Len(res) /\ 1 < j + 1 /\ res[j + 1] = t
    BY <1>1, <2>1
  <2> QED BY <1>1, <2>2, AheadMeaning
<1>4. ASSUME NEW u \in Ahead(t, lst) PROVE u \in Ahead(t, res)
  <2>1. PICK i \in 1 .. Len(lst), j \in 1 .. Len(lst) : i < j /\ lst[i] = u /\ lst[j] = t
    BY <1>4, AheadMeaning
  <2>2. /\ i + 1 \in 1 .. Len(res) /\ j + 1 \in 1 .. Len(res) /\ i + 1 < j + 1
        /\ res[i + 1] = u /\ res[j + 1] = t
    BY <1>1, <2>1
  <2> QED BY <1>1, <2>2, AheadMeaning
<1> QED BY <1>2, <1>3, <1>4 DEF res

(* The running task is ahead of every ready one, so it does not count when *)
(* it is put back among them; lst is the order after the step.             *)
LEMMA OnlyUrgentAhead ==
  ASSUME ListsInv, NEW lst, <<run'>> \o os_rdy' = lst,
         \A t \in ToSet(os_rdy) : \A u \in Ahead(t, lst) \ Ahead(t, os_rdy) :
           u = run \/ prio'[u] > prio'[t]
  PROVE  InTurn
<1> SUFFICES ASSUME NEW t \in ToSet(os_rdy), NEW u \in Ahead(t, lst) \ Ahead(t, <<run>> \o os_rdy)
             PROVE  prio'[u] > prio'[t]
  BY DEF InTurn
<1>1. Ahead(t, <<run>> \o os_rdy) = {run} \cup Ahead(t, os_rdy)
  BY AheadInFront DEF ListsInv
<1> QED BY <1>1

(* After rt_dispatch to a list the running and the ready tasks are it.     *)
LEMMA SwitchedTo ==
  ASSUME NEW lst \in Seq(Tasks), lst # << >>, SwitchTo(lst)
  PROVE  <<run'>> \o os_rdy' = lst
BY HeadAndTail DEF SwitchTo

(* A list with tasks in it is not empty.                                   *)
LEMMA NotEmpty ==
  ASSUME NEW lst \in Seq(Tasks), ToSet(lst) # {}
  PROVE  lst # << >>
BY DEF ToSet

(* Steps that leave the processor where it is.                             *)
LEMMA SameInTurn ==
  ASSUME UNCHANGED <<run, os_rdy>>
  PROVE  InTurn
BY DEF InTurn

(* osDelay: the ready tasks move up.                                       *)
LEMMA SleepInTurn ==
  ASSUME ListsInv, PlacesInv, run # Idle, rt_dly_wait
  PROVE  InTurn
<1>1. os_rdy \in Seq(Tasks) /\ os_rdy # << >> /\ SwitchTo(os_rdy)
  BY SomebodyReady DEF ListsInv, rt_dly_wait
<1>2. <<run'>> \o os_rdy' = os_rdy
  BY <1>1, SwitchedTo
<1> QED BY <1>2, OnlyUrgentAhead

(* The running task is put back among the ready ones: nothing else moves.  *)
LEMMA PutBackInTurn ==
  ASSUME ListsInv, NEW p \in [Tasks -> Nat], List(os_rdy, p),
         SwitchTo(rt_put_prio(os_rdy, run, p))
  PROVE  InTurn
<1>1. run \in Tasks /\ run \notin ToSet(os_rdy) /\ ToSet(os_rdy) \subseteq Tasks
  BY ReadyList DEF ListsInv
<1>2. PICK lst : lst = rt_put_prio(os_rdy, run, p)
  OBVIOUS
<1>3. /\ List(lst, p) /\ lst # << >>
      /\ \A v \in Tasks : \A u \in Ahead(v, lst) \ Ahead(v, os_rdy) :
           \/ v = run /\ u # run /\ p[u] >= p[run]
           \/ u = run /\ v # run /\ p[v] < p[run]
  BY <1>1, <1>2, PutPrio
<1>4. <<run'>> \o os_rdy' = lst
  BY <1>2, <1>3, SwitchedTo DEF List
<1>5. \A t \in ToSet(os_rdy) : \A u \in Ahead(t, lst) \ Ahead(t, os_rdy) : u = run
  BY <1>1, <1>3
<1> QED BY <1>4, <1>5, OnlyUrgentAhead

(* A task that is woken goes behind its equals.                            *)
LEMMA TimeoutInTurn ==
  ASSUME ListsInv, PlacesInv, NEW w \in Tasks, rt_dec_dly(w)
  PROVE  InTurn
<1>1. /\ prio \in [Tasks -> Nat] /\ prio' = prio /\ List(<<run>> \o os_rdy, prio)
      /\ SwitchTo(rt_put_prio(<<run>> \o os_rdy, w, prio))
  BY DEF rt_dec_dly, ListsInv
<1>2. w \notin ToSet(<<run>> \o os_rdy) /\ w \notin ToSet(os_rdy) /\ ToSet(os_rdy) \subseteq Tasks
  BY ReadyList DEF rt_dec_dly, PlacesInv, Runnable
<1>3. PICK lst : lst = rt_put_prio(<<run>> \o os_rdy, w, prio)
  OBVIOUS
<1>4. /\ List(lst, prio) /\ lst # << >>
      /\ \A v \in Tasks : \A u \in Ahead(v, lst) \ Ahead(v, <<run>> \o os_rdy) :
           \/ v = w /\ u # w /\ prio[u] >= prio[w]
           \/ u = w /\ v # w /\ prio[v] < prio[w]
  BY <1>1, <1>2, <1>3, PutPrio
<1>5. <<run'>> \o os_rdy' = lst
  BY <1>1, <1>3, <1>4, SwitchedTo DEF List
<1>6. ASSUME NEW t \in ToSet(os_rdy), NEW u \in Ahead(t, lst) \ Ahead(t, <<run>> \o os_rdy)
      PROVE  prio[u] > prio[t]
  <2>1. u = w /\ prio[t] < prio[w] /\ t \in Tasks
    BY <1>2, <1>4, <1>6
  <2>2. prio[t] \in Nat /\ prio[w] \in Nat
    BY <1>1, <2>1
  <2> QED BY <2>1, <2>2
<1> QED BY <1>1, <1>5, <1>6 DEF InTurn

(* The caller of osMutexWait leaves; the owner it raises moves up.         *)
LEMMA WaitForInTurn ==
  ASSUME ListsInv, PlacesInv, OwnersInv, run # Idle,
         NEW m \in Mutexes, NEW timed \in BOOLEAN, WaitFor(m, timed)
  PROVE  InTurn
<1>1. PICK o \in Tasks : o = Owner(m) /\ m \in held[o] /\ o # run
  BY OwnerHolds DEF WaitFor
<1>2. PICK p : p = Raised(o)
  OBVIOUS
<1>3. /\ p \in [Tasks -> Nat] /\ prio \in [Tasks -> Nat]
      /\ \A t \in Tasks : t # o => p[t] = prio[t]
      /\ p = prio \/ p[o] > prio[o]
  BY <1>1, <1>2, RaisedOwner DEF ListsInv
<1>4. PICK lst : lst = IF p = prio THEN os_rdy ELSE rt_resort_prio(os_rdy, o, p)
  OBVIOUS
<1>5. prio' = p /\ SwitchTo(lst)
  BY <1>1, <1>2, <1>4 DEF WaitFor
<1>6. List(os_rdy, prio) /\ ToSet(os_rdy) # {} /\ ToSet(os_rdy) \subseteq Tasks
  BY ReadyList, SomebodyReady
<1>7. /\ List(lst, p) /\ ToSet(lst) = ToSet(os_rdy)
      /\ \A v \in Tasks : \A u \in Ahead(v, lst) \ Ahead(v, os_rdy) : p[u] > p[v]
  <2>1. CASE p = prio
    BY <1>4, <1>6, <2>1
  <2>2. CASE p # prio
    <3>1. p[o] > prio[o] /\ lst = rt_resort_prio(os_rdy, o, p)
      BY <1>3, <1>4, <2>2
    <3> QED BY <1>3, <1>6, <3>1, Resort
  <2> QED BY <2>1, <2>2
<1>8. <<run'>> \o os_rdy' = lst
  BY <1>5, <1>6, <1>7, NotEmpty, SwitchedTo DEF List
<1>9. \A t \in ToSet(os_rdy) : \A u \in Ahead(t, lst) \ Ahead(t, os_rdy) : prio'[u] > prio'[t]
  BY <1>5, <1>6, <1>7
<1> QED BY <1>8, <1>9, OnlyUrgentAhead

(* A release that frees the mutex.                                         *)
LEMMA ReleaseFreeInTurn ==
  ASSUME IInv, run # Idle, NEW m \in held[run], ReleaseFree(m)
  PROVE  InTurn
<1>1. PICK h : h = Restored(run, held[run] \ {m})
  OBVIOUS
<1>2. /\ run \in Tasks /\ prio' = [prio EXCEPT ![run] = h] /\ Yield(prio')
      /\ held[run] \ {m} \in SUBSET Mutexes
  BY <1>1 DEF ReleaseFree, IInv, ListsInv, OwnersInv
<1>3. h \in Nat
  BY <1>1, <1>2, RestoredPriority DEF IInv
<1>4. prio' \in [Tasks -> Nat] /\ List(os_rdy, prio')
  BY <1>2, <1>3, ReleasedPriority DEF IInv
<1>5. SwitchTo(rt_put_prio(os_rdy, run, prio')) \/ UNCHANGED <<run, os_rdy>>
  BY <1>2 DEF Yield
<1> QED BY <1>4, <1>5, PutBackInTurn, SameInTurn DEF IInv

(* A hand-over: the waiter goes behind its equals, unless it is more       *)
(* urgent than the running task, which is at least as urgent as the rest.  *)
LEMMA HandOverInTurn ==
  ASSUME ListsInv, PlacesInv, run # Idle, NEW p \in [Tasks -> Nat], List(os_rdy, p),
         NEW w \in Tasks, w \notin Runnable, prio' = p, HandOver(w, p)
  PROVE  InTurn
<1>1. /\ run \notin ToSet(os_rdy) /\ run \in Tasks /\ os_rdy \in Seq(Tasks) /\ os_rdy # << >>
      /\ Head(os_rdy) \in ToSet(os_rdy) /\ ToSet(os_rdy) \subseteq Tasks
      /\ w # run /\ w \notin ToSet(os_rdy)
  BY ReadyList, SomebodyReady DEF ListsInv, Runnable
<1>2. /\ \A u \in ToSet(os_rdy) : p[Head(os_rdy)] >= p[u]
      /\ p[run] \in Nat /\ p[w] \in Nat /\ \A u \in ToSet(os_rdy) : p[u] \in Nat
  BY <1>1, TailOfList
<1>3. ASSUME NEW lst, List(lst, p), ToSet(lst) \subseteq Tasks, w \notin ToSet(lst),
             NEW res, res = rt_put_prio(lst, w, p)
      PROVE  /\ List(res, p) /\ res # << >> /\ ToSet(res) = ToSet(lst) \cup {w}
             /\ \A t \in ToSet(os_rdy) : \A u \in Ahead(t, res) \ Ahead(t, lst) : p[u] > p[t]
  <2>1. /\ List(res, p) /\ ToSet(res) = ToSet(lst) \cup {w} /\ res # << >>
        /\ \A v \in Tasks : \A u \in Ahead(v, res) \ Ahead(v, lst) :
             \/ v = w /\ u # w /\ p[u] >= p[w]
             \/ u = w /\ v # w /\ p[v] < p[w]
    BY <1>3, PutPrio
  <2>2. ASSUME NEW t \in ToSet(os_rdy), NEW u \in Ahead(t, res) \ Ahead(t, lst) PROVE p[u] > p[t]
    <3>1. t \in Tasks /\ t # w
      BY <1>1
    <3>2. u = w /\ p[t] < p[w]
      BY <2>1, <2>2, <3>1
    <3> QED BY <1>2, <3>2
  <2> QED BY <2>1, <2>2
<1>4. CASE p[run] < p[Head(os_rdy)]
  <2>1. PICK mid : mid = rt_put_prio(os_rdy, run, p)
    OBVIOUS
  <2>2. /\ List(mid, p) /\ ToSet(mid) = ToSet(os_rdy) \cup {run}
        /\ \A v \in Tasks : \A u \in Ahead(v, mid) \ Ahead(v, os_rdy) :
             \/ v = run /\ u # run /\ p[u] >= p[run]
             \/ u = run /\ v # run /\ p[v] < p[run]
    BY <1>1, <2>1, PutPrio
  <2>3. PICK lst : lst = rt_put_prio(mid, w, p)
    OBVIOUS
  <2>4. /\ List(lst, p) /\ lst # << >>
        /\ \A t \in ToSet(os_rdy) : \A u \in Ahead(t, lst) \ Ahead(t, mid) : p[u] > p[t]
    <3>1. ToSet(mid) \subseteq Tasks /\ w \notin ToSet(mid)
      BY <1>1, <2>2
    <3> QED BY <1>3, <2>2, <2>3, <3>1
  <2>5. SwitchTo(lst)
    BY <1>4, <2>1, <2>3 DEF HandOver
  <2>6. <<run'>> \o os_rdy' = lst
    BY <2>4, <2>5, SwitchedTo DEF List
  <2>7. ASSUME NEW t \in ToSet(os_rdy), NEW u \in Ahead(t, lst) \ Ahead(t, os_rdy)
        PROVE  u = run \/ p[u] > p[t]
    <3>1. CASE u \in Ahead(t, mid)
      BY <1>1, <2>2, <2>7, <3>1
    <3>2. CASE u \notin Ahead(t, mid)
      BY <2>4, <2>7, <3>2
    <3> QED BY <3>1, <3>2
  <2> QED BY <2>6, <2>7, OnlyUrgentAhead
<1>5. CASE ~(p[run] < p[Head(os_rdy)]) /\ p[w] > p[run]
  <2>1. PICK mid : mid = <<run>> \o os_rdy
    OBVIOUS
  <2>2. mid \in Seq(Tasks) /\ \A t \in ToSet(os_rdy) : t \in ToSet(mid)
    BY <1>1, <2>1, InFront
  <2>3. SwitchTo(<<w>> \o mid)
    <3>1. SwitchTo(<<w, run>> \o os_rdy)
      BY <1>5 DEF HandOver
    <3>2. <<w, run>> = <<w>> \o <<run>>
      OBVIOUS
    <3>3. (<<w>> \o <<run>>) \o os_rdy = <<w>> \o (<<run>> \o os_rdy)
      BY <1>1, ConcatAssociative
    <3> QED BY <2>1, <3>1, <3>2, <3>3
  <2>4. <<run'>> \o os_rdy' = <<w>> \o mid
    BY <2>2, <2>3, InFront, SwitchedTo
  <2>5. ASSUME NEW t \in ToSet(os_rdy), NEW u \in Ahead(t, <<w>> \o mid) \ Ahead(t, mid)
        PROVE  p[u] > p[t]
    <3>1. Ahead(t, <<w>> \o mid) = {w} \cup Ahead(t, mid)
      BY <2>2, AheadInFront
    <3>2. u = w
      BY <2>5, <3>1
    <3> QED BY <1>1, <1>2, <1>5, <3>2
  <2> QED BY <2>1, <2>4, <2>5 DEF InTurn
<1>6. CASE ~(p[run] < p[Head(os_rdy)]) /\ ~(p[w] > p[run])
  <2>1. os_rdy' = rt_put_prio(os_rdy, w, p) /\ run' = run
    BY <1>6 DEF HandOver
  <2>2. /\ List(os_rdy', p) /\ ToSet(os_rdy') = ToSet(os_rdy) \cup {w}
        /\ \A t \in ToSet(os_rdy) : \A u \in Ahead(t, os_rdy') \ Ahead(t, os_rdy) : p[u] > p[t]
    BY <1>1, <1>3, <2>1
  <2>3. ASSUME NEW t \in ToSet(os_rdy), NEW u \in Ahead(t, <<run>> \o os_rdy') \ Ahead(t, os_rdy)
        PROVE  u = run \/ p[u] > p[t]
    <3>1. Ahead(t, <<run>> \o os_rdy') = {run} \cup Ahead(t, os_rdy')
      BY <1>1, <2>2, AheadInFront DEF List
    <3> QED BY <2>2, <2>3, <3>1
  <2> QED BY <2>1, <2>3, OnlyUrgentAhead
<1> QED BY <1>4, <1>5, <1>6

(* A release that hands the mutex to its first waiter.                     *)
LEMMA ReleaseToInTurn ==
  ASSUME IInv, run # Idle, NEW m \in held[run], NEW w \in Tasks, ReleaseTo(m, w)
  PROVE  InTurn
<1>1. PICK h : h = Restored(run, held[run] \ {m})
  OBVIOUS
<1>2. /\ run \in Tasks /\ prio' = [prio EXCEPT ![run] = h] /\ HandOver(w, prio')
      /\ held[run] \ {m} \in SUBSET Mutexes
  BY <1>1 DEF ReleaseTo, IInv, ListsInv, OwnersInv
<1>3. h \in Nat
  BY <1>1, <1>2, RestoredPriority DEF IInv
<1>4. prio' \in [Tasks -> Nat] /\ List(os_rdy, prio')
  BY <1>2, <1>3, ReleasedPriority DEF IInv
<1>5. w \notin Runnable
  <2>1. w \in ToSet(wait[m]) /\ m \in Mutexes
    BY ReleaseToStep
  <2> QED BY <2>1 DEF IInv, PlacesInv
<1> QED BY <1>2, <1>4, <1>5, HandOverInTurn DEF IInv

(* Every step lets the ready tasks take turns.                             *)
LEMMA NextInTurn ==
  ASSUME IInv, Next
  PROVE  InTurn
<1>1. ASSUME run # Idle, NEW m \in Mutexes, rt_mut_release(m) PROVE InTurn
  <2>1. m \in held[run]
    BY <1>1 DEF rt_mut_release
  <2>2. CASE ReleaseLevel(m)
    BY <2>2, SameInTurn DEF ReleaseLevel, lists
  <2>3. CASE ReleaseFree(m)
    BY <1>1, <2>1, <2>3, ReleaseFreeInTurn
  <2>4. ASSUME NEW w \in Tasks, ReleaseTo(m, w) PROVE InTurn
    BY <1>1, <2>1, <2>4, ReleaseToInTurn
  <2> QED BY <1>1, <2>2, <2>3, <2>4 DEF rt_mut_release
<1>2. ASSUME run # Idle, NEW m \in Mutexes, NEW timed \in BOOLEAN, rt_mut_wait(m, timed)
      PROVE  InTurn
  <2>1. CASE TakeFree(m) \/ TakeAgain(m)
    BY <2>1, SameInTurn DEF TakeFree, TakeAgain, lists
  <2>2. CASE WaitFor(m, timed)
    BY <1>2, <2>2, WaitForInTurn DEF IInv
  <2> QED BY <1>2, <2>1, <2>2 DEF rt_mut_wait
<1>3. ASSUME run # Idle, rt_dly_wait PROVE InTurn
  BY <1>3, SleepInTurn DEF IInv
<1>4. ASSUME rt_chk_robin PROVE InTurn
  <2>1. prio \in [Tasks -> Nat] /\ List(os_rdy, prio)
    BY ReadyList DEF IInv, ListsInv
  <2> QED BY <1>4, <2>1, PutBackInTurn DEF rt_chk_robin, IInv
<1>5. ASSUME NEW w \in Tasks, rt_dec_dly(w) PROVE InTurn
  BY <1>5, TimeoutInTurn DEF IInv
<1> QED BY <1>1, <1>2, <1>3, <1>4, <1>5 DEF Next, rt_systick

(* Threads of one priority take turns (rt_dispatch, rt_mut_release,        *)
(* rt_systick): a ready task sees more urgent ones alone go ahead of it.   *)
THEOREM EqualsTakeTurns == Spec => ReadyInTurn
<1>1. IInv /\ [Next]_vars =>
        [\A t \in ToSet(os_rdy) :
           \A u \in Ahead(t, <<run'>> \o os_rdy') \ Ahead(t, <<run>> \o os_rdy) :
             prio'[u] > prio'[t]]_vars
  BY NextInTurn DEF InTurn
<1> QED BY <1>1, Invariance, PTL DEF Spec, ReadyInTurn
-------------------------------------------------------------------------------
(* The kernel's calls are those of the service.                            *)

waiting == [t \in Tasks |-> Waiting(t)]

(* A task waits for a mutex when it is in its list.                        *)
LEMMA WaitingMeaning ==
  ASSUME ListsInv, NEW t \in Tasks
  PROVE  waiting[t] = {m \in Mutexes : t \in ToSet(wait[m])}
<1>1. waiting[t] = Waiting(t) /\ Waiting(t) \subseteq Mutexes
  BY DEF waiting, Waiting
<1>2. \A m \in Mutexes : m \in Waiting(t) <=> t \in ToSet(wait[m])
  BY WaitingSets
<1> QED BY <1>1, <1>2

(* The same of the state after a step.                                     *)
LEMMA WaitingMeaningNext ==
  ASSUME ListsInv', NEW t \in Tasks
  PROVE  waiting'[t] = {m \in Mutexes : t \in ToSet(wait'[m])}
<1>1. waiting'[t] = Waiting(t)' /\ Waiting(t)' \subseteq Mutexes
  BY DEF waiting, Waiting
<1>2. ASSUME NEW m \in Mutexes PROVE m \in Waiting(t)' <=> t \in ToSet(wait'[m])
  <2>1. wait'[m] \in Seq(Tasks)
    BY DEF ListsInv
  <2>2. m \in Waiting(t)' <=> Contains(wait'[m], t)
    BY DEF Waiting
  <2> QED BY <2>1, <2>2, SetOfList
<1> QED BY <1>1, <1>2

(* What a task waits for changes with the lists alone.                     *)
LEMMA WaitingChange ==
  ASSUME ListsInv, ListsInv', NEW w \in Tasks, NEW S,
         \A m \in Mutexes : \A t \in Tasks \ {w} : t \in ToSet(wait'[m]) <=> t \in ToSet(wait[m]),
         {m \in Mutexes : w \in ToSet(wait'[m])} = S
  PROVE  waiting' = [waiting EXCEPT ![w] = S]
<1>1. ASSUME NEW t \in Tasks PROVE waiting'[t] = IF t = w THEN S ELSE waiting[t]
  BY WaitingMeaning, WaitingMeaningNext
<1>2. waiting' = [t \in Tasks |-> waiting'[t]] /\ waiting = [t \in Tasks |-> waiting[t]]
  BY DEF waiting
<1> QED BY <1>1, <1>2

(* The running task waits for no mutex.                                    *)
LEMMA RunDoesNotWait ==
  ASSUME IInv
  PROVE  run \in Tasks /\ waiting[run] = {}
<1>1. run \in Tasks /\ \A m \in Mutexes : run \notin ToSet(wait[m])
  BY DEF IInv, ListsInv, PlacesInv, Runnable
<1> QED BY <1>1, WaitingMeaning DEF IInv

(* The initial states are those of the lock its callers see.               *)
LEMMA InitService == Init => Service!MutexInit
<1> SUFFICES ASSUME Init PROVE Service!MutexInit
  OBVIOUS
<1>1. wait = [m \in Mutexes |-> << >>] /\ depth = [t \in Tasks |-> [m \in Mutexes |-> 0]]
  BY DEF Init
<1>2. \A t \in Tasks : Waiting(t) = {}
  BY <1>1 DEF Waiting, Contains
<1> QED BY <1>1, <1>2 DEF Service!MutexInit

(* Every step of the kernel is one of the lock's steps, or leaves it as it *)
(* is.                                                                     *)
LEMMA NextService ==
  ASSUME IInv, IInv', Next
  PROVE  Service!MutexNext \/ UNCHANGED <<depth, waiting>>
<1>0. /\ run \in Tasks /\ waiting[run] = {} /\ ListsInv /\ ListsInv'
      /\ depth \in [Tasks -> [Mutexes -> Nat]]
      /\ \A t \in Tasks, m \in Mutexes : depth[t][m] = IF m \in held[t] THEN level[m] ELSE 0
  BY RunDoesNotWait DEF IInv, OwnersInv
<1>1. ASSUME NEW m \in Mutexes, TakeFree(m) PROVE Service!Acquire(run, m)
  <2>1. \A t \in Tasks : depth[t][m] = 0
    BY <1>0, <1>1 DEF TakeFree, IInv, OwnersInv
  <2>2. waiting' = waiting /\ depth' = [depth EXCEPT ![run][m] = @ + 1]
    BY <1>1 DEF TakeFree, lists, waiting, Waiting
  <2> QED BY <1>0, <2>1, <2>2 DEF Service!Acquire, Service!Free, waiting
<1>2. ASSUME NEW m \in Mutexes, TakeAgain(m) PROVE Service!Acquire(run, m)
  <2>1. depth[run][m] \in 1 .. MaxLevel - 1
    <3>1. depth[run][m] = level[m] /\ level[m] < MaxLevel /\ level[m] \in 0 .. MaxLevel /\ level[m] # 0
      BY <1>0, <1>2 DEF TakeAgain, IInv, OwnersInv
    <3> QED BY <3>1, MaxLevelAssumption
  <2>2. waiting' = waiting /\ depth' = [depth EXCEPT ![run][m] = @ + 1]
    BY <1>2 DEF TakeAgain, lists, waiting, Waiting
  <2> QED BY <1>0, <2>1, <2>2 DEF Service!Acquire, waiting
<1>3. ASSUME run # Idle, NEW m \in Mutexes, NEW timed \in BOOLEAN, WaitFor(m, timed)
      PROVE  Service!AwaitMutex(run, m)
  <2>1. /\ \A n \in Mutexes :
             ToSet(wait'[n]) = IF n = m THEN ToSet(wait[n]) \cup {run} ELSE ToSet(wait[n])
        /\ depth' = depth /\ level[m] > 0 /\ m \notin held[run]
    BY <1>3, WaitForLists DEF IInv, WaitFor
  <2>2. \A n \in Mutexes : run \notin ToSet(wait[n])
    BY DEF IInv, PlacesInv, Runnable
  <2>3. waiting' = [waiting EXCEPT ![run] = {m}]
    <3>1. {n \in Mutexes : run \in ToSet(wait'[n])} = {m}
      BY <2>1, <2>2
    <3>2. \A n \in Mutexes : \A t \in Tasks \ {run} : t \in ToSet(wait'[n]) <=> t \in ToSet(wait[n])
      BY <2>1
    <3> QED BY <1>0, <3>1, <3>2, WaitingChange
  <2>4. \E t \in Tasks : depth[t][m] # 0
    <3>1. Owner(m) \in Tasks /\ m \in held[Owner(m)]
      BY <2>1, OwnerHolds DEF IInv
    <3> QED BY <1>0, <2>1, <3>1
  <2>5. depth[run][m] = 0
    BY <1>0, <2>1
  <2> QED BY <1>0, <2>1, <2>3, <2>4, <2>5 DEF Service!AwaitMutex, Service!Free, waiting
<1>4. ASSUME NEW m \in held[run], ReleaseLevel(m)
      PROVE  m \in Mutexes /\ Service!ReleaseOnce(run, m)
  <2>1. m \in Mutexes
    BY <1>0 DEF IInv, OwnersInv
  <2>2. depth[run][m] = level[m] /\ level[m] > 1 /\ level[m] \in Nat
    BY <1>0, <1>4, <2>1 DEF ReleaseLevel
  <2>3. waiting' = waiting /\ depth' = [depth EXCEPT ![run][m] = @ - 1]
    BY <1>4 DEF ReleaseLevel, lists, waiting, Waiting
  <2> QED BY <1>0, <2>1, <2>2, <2>3 DEF Service!ReleaseOnce, waiting
<1>5. ASSUME NEW m \in held[run], ReleaseFree(m)
      PROVE  m \in Mutexes /\ Service!ReleaseOnce(run, m)
  <2>1. m \in Mutexes
    BY <1>0 DEF IInv, OwnersInv
  <2>2. depth[run][m] = 1
    BY <1>0, <1>5, <2>1 DEF ReleaseFree
  <2>3. waiting' = waiting /\ depth' = [depth EXCEPT ![run][m] = @ - 1]
    BY <1>5 DEF ReleaseFree, waiting, Waiting
  <2>4. ToSet(wait[m]) = {}
    BY <1>5 DEF ReleaseFree, ToSet
  <2>5. \A w \in Tasks : m \notin waiting[w]
    BY <1>0, <2>4, WaitingMeaning
  <2> QED BY <1>0, <2>1, <2>2, <2>3, <2>5 DEF Service!ReleaseOnce, waiting
<1>6. ASSUME run # Idle, NEW m \in held[run], NEW w \in Tasks, ReleaseTo(m, w)
      PROVE  m \in Mutexes /\ Service!HandOver(run, m, w)
  <2>1. /\ w # run /\ w \in ToSet(wait[m]) /\ m \in Mutexes
        /\ \A n \in Mutexes : ToSet(wait'[n]) = ToSet(wait[n]) \ {w}
        /\ depth' = [depth EXCEPT ![run][m] = 0, ![w][m] = 1]
    BY <1>6, ReleaseToStep
  <2>2. depth[run][m] = 1
    BY <1>0, <1>6, <2>1 DEF ReleaseTo
  <2>3. waiting[w] = {m}
    <3>1. \A n \in Mutexes : w \in ToSet(wait[n]) <=> n = m
      BY <2>1 DEF IInv, PlacesInv
    <3> QED BY <1>0, <2>1, <3>1, WaitingMeaning
  <2>4. waiting' = [waiting EXCEPT ![w] = {}]
    <3>1. {n \in Mutexes : w \in ToSet(wait'[n])} = {}
      BY <2>1
    <3>2. \A n \in Mutexes : \A t \in Tasks \ {w} : t \in ToSet(wait'[n]) <=> t \in ToSet(wait[n])
      BY <2>1
    <3> QED BY <1>0, <3>1, <3>2, WaitingChange
  <2> QED BY <1>0, <2>1, <2>2, <2>3, <2>4 DEF Service!HandOver, waiting
<1>7. ASSUME rt_dly_wait \/ rt_chk_robin PROVE UNCHANGED <<depth, waiting>>
  BY <1>7 DEF rt_dly_wait, rt_chk_robin, waiting, Waiting
<1>8. ASSUME NEW t \in Tasks, rt_dec_dly(t) PROVE Service!TimeOut(t)
  <2>1. \A m \in Mutexes : ToSet(wait'[m]) = ToSet(wait[m]) \ {t}
    BY <1>8, TimeoutLists DEF IInv
  <2>2. waiting' = [waiting EXCEPT ![t] = {}]
    <3>1. {n \in Mutexes : t \in ToSet(wait'[n])} = {}
      BY <2>1
    <3>2. \A n \in Mutexes : \A u \in Tasks \ {t} : u \in ToSet(wait'[n]) <=> u \in ToSet(wait[n])
      BY <2>1
    <3> QED BY <1>0, <3>1, <3>2, WaitingChange
  <2>3. depth' = depth
    BY <1>8 DEF rt_dec_dly
  <2> QED BY <2>2, <2>3 DEF Service!TimeOut, waiting
<1>9. ASSUME run # Idle, NEW m \in Mutexes, rt_mut_release(m) PROVE Service!MutexNext
  <2>1. m \in held[run]
    BY <1>9 DEF rt_mut_release
  <2> QED BY <1>0, <1>4, <1>5, <1>6, <1>9, <2>1 DEF rt_mut_release, Service!MutexNext
<1>10. ASSUME run # Idle, NEW m \in Mutexes, NEW timed \in BOOLEAN, rt_mut_wait(m, timed)
       PROVE  Service!MutexNext
  BY <1>0, <1>1, <1>2, <1>3, <1>10 DEF rt_mut_wait, Service!MutexNext
<1>11. ASSUME rt_systick PROVE Service!MutexNext \/ UNCHANGED <<depth, waiting>>
  BY <1>7, <1>8, <1>11 DEF rt_systick, Service!MutexNext
<1> QED BY <1>7, <1>9, <1>10, <1>11 DEF Next

(* What callers are told is a mutual exclusion: every step of the kernel   *)
(* is a step of the service, or none at all.                               *)
THEOREM MutexServiceImplemented == Spec => ImplementsMutexService
<1>1. IInv /\ IInv' /\ [Next]_vars => [Service!MutexNext]_(Service!mutexVars)
  <2>1. ASSUME IInv, IInv', Next PROVE [Service!MutexNext]_(Service!mutexVars)
    BY <2>1, NextService DEF Service!mutexVars, waiting
  <2>2. ASSUME UNCHANGED vars PROVE UNCHANGED Service!mutexVars
    BY <2>2 DEF vars, lists, Service!mutexVars, Waiting
  <2> QED BY <2>1, <2>2
<1> QED BY <1>1, Invariance, InitService, PTL
    DEF Spec, ImplementsMutexService, Service!MutexSpec
===============================================================================
