--------------------------- MODULE RTXTimersProofs ---------------------------
(***************************************************************************)
(* Theorems about the kernel's timers, for every set of timers, every      *)
(* longest time and every size of the queue.                               *)
(***************************************************************************)
EXTENDS RTXTimers, ListLemmas

Entry == [timer : Timers, tcnt : Nat]

(* What a list of entries is made of.                                      *)
LEMMA Entries ==
  ASSUME NEW lst \in Seq(Entry)
  PROVE  /\ Len(lst) \in Nat /\ DOMAIN lst = 1 .. Len(lst)
         /\ \A i \in 1 .. Len(lst) :
              /\ lst[i] \in Entry /\ lst[i].timer \in Timers /\ lst[i].tcnt \in Nat
              /\ lst[i] = [timer |-> lst[i].timer, tcnt |-> lst[i].tcnt]
<1>1. Len(lst) \in Nat /\ DOMAIN lst = 1 .. Len(lst) /\ \A i \in 1 .. Len(lst) : lst[i] \in Entry
  BY LenProperties, ElementOfSeq
<1>2. \A e \in Entry : e.timer \in Timers /\ e.tcnt \in Nat
                         /\ e = [timer |-> e.timer, tcnt |-> e.tcnt]
  BY DEF Entry
<1> QED BY <1>1, <1>2

(* Sums of differences.                                                    *)

(* g is the sums of the first n differences.                               *)
SumsOf(g, lst, n) == g = [i \in 0 .. n |-> IF i = 0 THEN 0 ELSE g[i - 1] + lst[i].tcnt]

(* There are such sums, by the least n for which there were none.          *)
LEMMA SumsExist == ASSUME NEW lst, NEW n \in Nat PROVE \E g : SumsOf(g, lst, n)
<1> DEFINE S == {k \in Nat : ~\E g : SumsOf(g, lst, k)}
<1>1. SUFFICES ASSUME S # {} PROVE FALSE
  OBVIOUS
<1>2. PICK x \in S : \A y \in S : x <= y
  BY <1>1, LeastExists
<1>3. x # 0
  <2>1. SumsOf([i \in 0 .. 0 |-> 0], lst, 0)
    BY DEF SumsOf
  <2> QED BY <2>1
<1>4. PICK g : SumsOf(g, lst, x - 1)
  BY <1>2, <1>3
<1> DEFINE h == [i \in 0 .. x |-> IF i = x THEN g[x-1] + lst[x].tcnt ELSE g[i]]
<1>5. SumsOf(h, lst, x)
  <2>1. g = [i \in 0 .. x - 1 |-> IF i = 0 THEN 0 ELSE g[i - 1] + lst[i].tcnt]
    BY <1>4 DEF SumsOf
  <2>2. \A i \in 0 .. x : h[i] = IF i = 0 THEN 0 ELSE h[i - 1] + lst[i].tcnt
    BY <2>1, <1>3
  <2>3. h = [i \in 0 .. x |-> h[i]]
    OBVIOUS
  <2> QED BY <2>2, <2>3 DEF SumsOf
<1> QED BY <1>5

(* Expiries satisfies its recursive definition.                            *)
LEMMA ExpiriesDef ==
  ASSUME NEW lst \in Seq(Entry)
  PROVE  /\ Expiries(lst) = [i \in 0 .. Len(lst) |->
                               IF i = 0 THEN 0 ELSE Expiries(lst)[i - 1] + lst[i].tcnt]
         /\ Expiries(lst)[0] = 0
         /\ \A i \in 1 .. Len(lst) : Expiries(lst)[i] = Expiries(lst)[i - 1] + lst[i].tcnt
<1>1. Len(lst) \in Nat
  BY LenProperties
<1>2. \E g : g = [i \in 0 .. Len(lst) |-> IF i = 0 THEN 0 ELSE g[i - 1] + lst[i].tcnt]
  BY <1>1, SumsExist DEF SumsOf
<1>3. Expiries(lst) = [i \in 0 .. Len(lst) |->
                         IF i = 0 THEN 0 ELSE Expiries(lst)[i - 1] + lst[i].tcnt]
  BY <1>2, Zenon DEF Expiries
<1> DEFINE at == Expiries(lst)
<1>4. at = [i \in 0 .. Len(lst) |-> IF i = 0 THEN 0 ELSE at[i - 1] + lst[i].tcnt]
  BY <1>3
<1> HIDE DEF at
<1>5. at[0] = 0 /\ \A i \in 1 .. Len(lst) : at[i] = at[i - 1] + lst[i].tcnt
  BY <1>1, <1>4
<1> QED BY <1>3, <1>5 DEF at

(* What satisfies it on the first n entries agrees with Expiries there.    *)
LEMMA ExpiriesUnique ==
  ASSUME NEW lst \in Seq(Entry), NEW n \in 0 .. Len(lst), NEW g, g[0] = 0,
         \A i \in 1 .. n : g[i] = g[i - 1] + lst[i].tcnt
  PROVE  \A i \in 0 .. n : Expiries(lst)[i] = g[i]
<1> DEFINE S == {k \in 0 .. n : Expiries(lst)[k] # g[k]}
<1>1. SUFFICES ASSUME S # {} PROVE FALSE
  OBVIOUS
<1>2. Len(lst) \in Nat
  BY LenProperties
<1>3. PICK x \in S : \A y \in S : x <= y
  <2>1. S \in SUBSET Nat
    BY <1>2
  <2> QED BY <1>1, <2>1, LeastExists
<1>4. x # 0
  BY ExpiriesDef
<1>5. x \in 1 .. n /\ x \in 1 .. Len(lst) /\ x - 1 \in 0 .. n /\ ~(x <= x - 1)
  BY <1>2, <1>4
<1>6. Expiries(lst)[x - 1] = g[x - 1]
  BY <1>3, <1>5
<1>7. Expiries(lst)[x] = g[x]
  BY <1>5, <1>6, ExpiriesDef
<1> QED BY <1>7

(* Expiries are numbers, and those of later entries are not earlier.       *)
LEMMA ExpiriesOrder ==
  ASSUME NEW lst \in Seq(Entry)
  PROVE  /\ \A i \in 0 .. Len(lst) : Expiries(lst)[i] \in Nat
         /\ \A i, j \in 0 .. Len(lst) : i <= j => Expiries(lst)[i] <= Expiries(lst)[j]
<1> DEFINE at == Expiries(lst)
<1>1. Len(lst) \in Nat /\ \A i \in 1 .. Len(lst) : lst[i].tcnt \in Nat
  BY Entries
<1>2. at[0] = 0 /\ \A i \in 1 .. Len(lst) : at[i] = at[i - 1] + lst[i].tcnt
  BY ExpiriesDef
<1> HIDE DEF at
<1>3. \A i \in 0 .. Len(lst) : at[i] \in Nat
  <2> DEFINE S == {k \in 0 .. Len(lst) : at[k] \notin Nat}
  <2>1. SUFFICES ASSUME S # {} PROVE FALSE
    OBVIOUS
  <2>2. PICK x \in S : \A y \in S : x <= y
    <3>1. S \in SUBSET Nat
      BY <1>1
    <3> QED BY <2>1, <3>1, LeastExists
  <2>3. x # 0
    BY <1>2
  <2>4. x \in 1 .. Len(lst) /\ x - 1 \in 0 .. Len(lst) /\ ~(x <= x - 1)
    BY <1>1, <2>3
  <2>5. at[x - 1] \in Nat
    BY <2>2, <2>4
  <2> QED BY <1>1, <1>2, <2>4, <2>5
<1>4. ASSUME NEW i \in 0 .. Len(lst) PROVE \A j \in 0 .. Len(lst) : i <= j => at[i] <= at[j]
  <2> DEFINE S == {k \in 0 .. Len(lst) : i <= k /\ ~(at[i] <= at[k])}
  <2>1. SUFFICES ASSUME S # {} PROVE FALSE
    OBVIOUS
  <2>2. PICK x \in S : \A y \in S : x <= y
    <3>1. S \in SUBSET Nat
      BY <1>1
    <3> QED BY <2>1, <3>1, LeastExists
  <2>3. x # i
    BY <1>3
  <2>4. x \in 1 .. Len(lst) /\ x - 1 \in 0 .. Len(lst) /\ ~(x <= x - 1) /\ i <= x - 1
    BY <1>1, <2>3
  <2>5. at[i] <= at[x - 1]
    BY <2>2, <2>4
  <2>6. at[x] = at[x - 1] + lst[x].tcnt /\ lst[x].tcnt \in Nat /\ at[x - 1] \in Nat /\ at[i] \in Nat
    BY <1>1, <1>2, <1>3, <2>4
  <2>7. at[i] <= at[x]
    BY <2>5, <2>6
  <2> QED BY <2>7
<1> QED BY <1>3, <1>4 DEF at

(* Later is the first position that expires after tcnt: all before it      *)
(* have expired by then.                                                   *)
LEMMA LaterProperties ==
  ASSUME NEW lst \in Seq(Entry), NEW tcnt \in Nat
  PROVE  /\ Later(lst, tcnt) \in 1 .. Len(lst) + 1
         /\ \A i \in 0 .. Later(lst, tcnt) - 1 : Expiries(lst)[i] <= tcnt
         /\ \A i \in Later(lst, tcnt) .. Len(lst) : Expiries(lst)[i] > tcnt
<1> DEFINE at == Expiries(lst)
           S  == {i \in DOMAIN lst : tcnt < at[i]} \cup {Len(lst) + 1}
           p  == Later(lst, tcnt)
<1>1. Len(lst) \in Nat /\ DOMAIN lst = 1 .. Len(lst)
  BY LenProperties
<1>2. /\ \A i \in 0 .. Len(lst) : at[i] \in Nat
      /\ \A i, j \in 0 .. Len(lst) : i <= j => at[i] <= at[j]
      /\ at[0] = 0
  BY ExpiriesOrder, ExpiriesDef
<1>3. p \in S /\ \A y \in S : p <= y
  <2>1. S \in SUBSET Nat /\ S # {}
    BY <1>1
  <2>2. p = Min(S)
    BY DEF Later
  <2> HIDE DEF S, p
  <2> QED BY <2>1, <2>2, MinProperty
<1> HIDE DEF at, p
<1>4. p \in 1 .. Len(lst) + 1
  BY <1>1, <1>3
<1>5. ASSUME NEW i \in 0 .. p - 1 PROVE at[i] <= tcnt
  <2>1. CASE i = 0
    BY <1>2, <2>1
  <2>2. CASE i # 0
    <3>1. i \in 1 .. Len(lst) /\ ~(p <= i) /\ i \in 0 .. Len(lst)
      BY <1>1, <1>4, <2>2
    <3>2. i \notin S
      BY <1>3, <3>1
    <3>3. ~(tcnt < at[i])
      BY <1>1, <3>1, <3>2
    <3> QED BY <1>2, <3>1, <3>3
  <2> QED BY <2>1, <2>2
<1>6. ASSUME NEW i \in p .. Len(lst) PROVE at[i] > tcnt
  <2>1. p \in 1 .. Len(lst) /\ i \in 0 .. Len(lst) /\ p \in 0 .. Len(lst) /\ p <= i
    BY <1>1, <1>4
  <2>2. tcnt < at[p]
    BY <1>1, <1>3, <2>1
  <2>3. at[p] <= at[i] /\ at[p] \in Nat /\ at[i] \in Nat
    BY <1>2, <2>1
  <2> QED BY <2>2, <2>3
<1> QED BY <1>4, <1>5, <1>6 DEF at, p

(* Operations on the list.                                                 *)

(* No timer is in a list twice.                                            *)
WellFormed(lst) ==
  /\ lst \in Seq(Entry)
  /\ \A i, j \in DOMAIN lst : lst[i].timer = lst[j].timer => i = j

(* t is in the list and expires in d ticks.                                *)
Expires(lst, t, d) == \E i \in DOMAIN lst : lst[i].timer = t /\ Expiries(lst)[i] = d

(* What rt_timer_insert does to the entries.                               *)
LEMMA InsertEntries ==
  ASSUME NEW lst \in Seq(Entry), NEW t \in Timers, NEW n \in Nat,
         NEW p, p = Later(lst, n), NEW new, new = rt_timer_insert(lst, t, n)
  PROVE  /\ p \in 1 .. Len(lst) + 1 /\ new \in Seq(Entry) /\ Len(new) = Len(lst) + 1
         /\ \A i \in 1 .. p - 1 : new[i] = lst[i]
         /\ new[p] = [timer |-> t, tcnt |-> n - Expiries(lst)[p - 1]]
         /\ p <= Len(lst) => new[p + 1] = [timer |-> lst[p].timer,
                                            tcnt |-> Expiries(lst)[p] - n]
         /\ \A i \in p + 1 .. Len(lst) : new[i + 1] = lst[i]
<1> DEFINE at    == Expiries(lst)
           delta == n - at[p - 1]
           next  == IF p > Len(lst) THEN lst ELSE [lst EXCEPT ![p].tcnt = @ - delta]
           e     == [timer |-> t, tcnt |-> delta]
<1>1. new = InsertAt(next, p, e)
  BY DEF rt_timer_insert
<1>2. /\ Len(lst) \in Nat /\ DOMAIN lst = 1 .. Len(lst)
      /\ \A i \in 1 .. Len(lst) : /\ lst[i].timer \in Timers /\ lst[i].tcnt \in Nat
                                  /\ lst[i] = [timer |-> lst[i].timer, tcnt |-> lst[i].tcnt]
  BY Entries
<1>3. /\ p \in 1 .. Len(lst) + 1 /\ at[p - 1] <= n /\ at[p - 1] \in Nat
      /\ p <= Len(lst) => at[p] > n /\ at[p] \in Nat /\ at[p] = at[p - 1] + lst[p].tcnt
  <2>1. /\ p \in 1 .. Len(lst) + 1 /\ \A i \in 0 .. p - 1 : at[i] <= n
        /\ \A i \in p .. Len(lst) : at[i] > n
    BY LaterProperties
  <2>2. \A i \in 0 .. Len(lst) : at[i] \in Nat
    BY ExpiriesOrder
  <2>3. \A i \in 1 .. Len(lst) : at[i] = at[i - 1] + lst[i].tcnt
    BY ExpiriesDef
  <2> HIDE DEF at
  <2>4. p - 1 \in 0 .. p - 1 /\ p - 1 \in 0 .. Len(lst)
    BY <1>2, <2>1
  <2>5. p <= Len(lst) => p \in p .. Len(lst) /\ p \in 1 .. Len(lst) /\ p \in 0 .. Len(lst)
    BY <1>2, <2>1
  <2> QED BY <2>1, <2>2, <2>3, <2>4, <2>5
<1> HIDE DEF at
<1>4. delta \in Nat /\ e \in Entry
  <2>1. delta \in Nat
    BY <1>3
  <2> QED BY <2>1 DEF Entry
<1>5. /\ next \in Seq(Entry) /\ Len(next) = Len(lst)
      /\ \A i \in 1 .. Len(lst) : i # p => next[i] = lst[i]
      /\ p <= Len(lst) => next[p] = [timer |-> lst[p].timer, tcnt |-> at[p] - n]
  <2>1. CASE p > Len(lst)
    BY <1>2, <1>3, <2>1
  <2>2. CASE p <= Len(lst)
    <3>1. p \in 1 .. Len(lst) /\ ~(p > Len(lst)) /\ p \in DOMAIN lst
      BY <1>2, <1>3, <2>2
    <3>2. lst[p].tcnt - delta = at[p] - n /\ at[p] - n \in Nat
      BY <1>2, <1>3, <2>2, <3>1
    <3> DEFINE f == [timer |-> lst[p].timer, tcnt |-> at[p] - n]
    <3>3. f \in Entry
      BY <1>2, <3>1, <3>2 DEF Entry
    <3>4. next = [lst EXCEPT ![p] = f]
      <4>1. next = [lst EXCEPT ![p] = [lst[p] EXCEPT !.tcnt = lst[p].tcnt - delta]]
        BY <3>1
      <4>2. [lst[p] EXCEPT !.tcnt = lst[p].tcnt - delta] = f
        BY <1>2, <3>1, <3>2
      <4> QED BY <4>1, <4>2
    <3>5. /\ [lst EXCEPT ![p] = f] \in Seq(Entry) /\ Len([lst EXCEPT ![p] = f]) = Len(lst)
          /\ \A i \in 1 .. Len(lst) : [lst EXCEPT ![p] = f][i] = IF i = p THEN f ELSE lst[i]
      BY <3>1, <3>3, ExceptSeq
    <3> QED BY <3>1, <3>4, <3>5
  <2> QED BY <1>2, <1>3, <2>1, <2>2
<1> HIDE DEF next, e
<1>6. p \in 1 .. Len(next) + 1 /\ next \in Seq(Entry) /\ e \in Entry
  BY <1>3, <1>4, <1>5
<1>7. /\ new \in Seq(Entry) /\ Len(new) = Len(next) + 1
      /\ \A i \in 1 .. p - 1 : new[i] = next[i]
      /\ new[p] = e
      /\ \A i \in p .. Len(next) : new[i + 1] = next[i]
  BY <1>1, <1>6, InsertAtProperties
<1>8. /\ new \in Seq(Entry) /\ Len(new) = Len(lst) + 1
      /\ \A i \in 1 .. p - 1 : new[i] = next[i]
      /\ new[p] = e
      /\ \A i \in p .. Len(lst) : new[i + 1] = next[i]
  BY <1>5, <1>7
<1>9. \A i \in 1 .. p - 1 : i \in 1 .. Len(lst) /\ i # p
  BY <1>2, <1>3
<1>10. \A i \in p + 1 .. Len(lst) : i \in 1 .. Len(lst) /\ i # p /\ i \in p .. Len(lst)
  BY <1>2, <1>3
<1>11. p <= Len(lst) => p \in p .. Len(lst)
  BY <1>2, <1>3
<1> QED BY <1>3, <1>5, <1>8, <1>9, <1>10, <1>11 DEF at, e

(* A timer inserted expires when it should, and the others when they did.  *)
LEMMA InsertExpires ==
  ASSUME NEW lst, WellFormed(lst), NEW t \in Timers, NEW n \in Nat, \A d : ~Expires(lst, t, d),
         NEW new, new = rt_timer_insert(lst, t, n)
  PROVE  /\ WellFormed(new)
         /\ \A u, d : Expires(new, u, d) <=> Expires(lst, u, d) \/ (u = t /\ d = n)
<1>1. lst \in Seq(Entry)
  BY DEF WellFormed
<1>2. PICK p : p = Later(lst, n)
  OBVIOUS
<1>3. /\ p \in 1 .. Len(lst) + 1 /\ new \in Seq(Entry) /\ Len(new) = Len(lst) + 1
      /\ \A i \in 1 .. p - 1 : new[i] = lst[i]
      /\ new[p] = [timer |-> t, tcnt |-> n - Expiries(lst)[p - 1]]
      /\ p <= Len(lst) => new[p + 1] = [timer |-> lst[p].timer, tcnt |-> Expiries(lst)[p] - n]
      /\ \A i \in p + 1 .. Len(lst) : new[i + 1] = lst[i]
  BY <1>1, <1>2, InsertEntries
<1>4. Len(lst) \in Nat /\ DOMAIN lst = 1 .. Len(lst) /\ DOMAIN new = 1 .. Len(lst) + 1
  BY <1>1, <1>3, Entries
<1> DEFINE at == Expiries(lst)
           g  == [i \in 0 .. Len(lst) + 1 |->
                    IF i < p THEN at[i] ELSE IF i = p THEN n ELSE at[i - 1]]
<1>5. /\ at[0] = 0 /\ \A i \in 0 .. Len(lst) : at[i] \in Nat
      /\ \A i \in 1 .. Len(lst) : at[i] = at[i - 1] + lst[i].tcnt
  BY <1>1, ExpiriesDef, ExpiriesOrder
<1> HIDE DEF at
<1>6. ASSUME NEW i \in 1 .. Len(lst) + 1 PROVE g[i] = g[i - 1] + new[i].tcnt
  <2>1. CASE i < p
    <3>1. i \in 1 .. p - 1 /\ i \in 1 .. Len(lst)
      BY <1>3, <1>4, <2>1
    <3>2. g[i] = at[i] /\ g[i - 1] = at[i - 1]
      BY <1>3, <1>4, <2>1
    <3> QED BY <1>3, <1>5, <3>1, <3>2
  <2>2. CASE i = p
    <3>1. g[i] = n /\ g[i - 1] = at[p - 1]
      BY <1>3, <1>4, <2>2
    <3>2. new[i].tcnt = n - at[p - 1]
      BY <1>3, <2>2 DEF at
    <3>3. at[p - 1] \in Nat
      BY <1>3, <1>4, <1>5
    <3> QED BY <3>1, <3>2, <3>3
  <2>3. CASE i = p + 1
    <3>1. g[i] = at[p] /\ g[i - 1] = n /\ p \in 0 .. Len(lst) /\ p <= Len(lst)
      BY <1>3, <1>4, <2>3
    <3>2. new[i].tcnt = at[p] - n
      BY <1>3, <2>3, <3>1 DEF at
    <3>3. at[p] \in Nat
      BY <1>5, <3>1
    <3> QED BY <3>1, <3>2, <3>3
  <2>4. CASE i > p + 1
    <3>1. i - 1 \in p + 1 .. Len(lst) /\ i - 1 \in 1 .. Len(lst) /\ (i - 1) + 1 = i
      BY <1>3, <1>4, <2>4
    <3>2. g[i] = at[i - 1] /\ g[i - 1] = at[(i - 1) - 1]
      BY <1>3, <1>4, <2>4
    <3>3. new[i] = lst[i - 1]
      BY <1>3, <3>1
    <3> QED BY <1>5, <3>1, <3>2, <3>3
  <2> QED BY <1>3, <1>4, <2>1, <2>2, <2>3, <2>4
<1>7. g[0] = 0
  BY <1>3, <1>4, <1>5
<1> HIDE DEF g
<1>8. \A i \in 0 .. Len(lst) + 1 : Expiries(new)[i] = g[i]
  <2>1. Len(lst) + 1 \in 0 .. Len(new)
    BY <1>3, <1>4
  <2> QED BY <1>3, <1>6, <1>7, <2>1, ExpiriesUnique
<1>9. new[p].timer = t /\ Expiries(new)[p] = n /\ p \in DOMAIN new
  <2>1. p \in 0 .. Len(lst) + 1
    BY <1>3, <1>4
  <2>2. g[p] = n
    BY <1>3, <2>1 DEF g
  <2> QED BY <1>3, <1>4, <1>8, <2>1, <2>2
<1> DEFINE old(i) == IF i < p THEN i ELSE i - 1
<1>10. ASSUME NEW i \in 1 .. Len(lst) + 1, i # p
       PROVE  /\ old(i) \in 1 .. Len(lst)
              /\ new[i].timer = lst[old(i)].timer /\ Expiries(new)[i] = at[old(i)]
  <2>1. CASE i < p
    <3>1. i \in 1 .. p - 1 /\ i \in 1 .. Len(lst) /\ i \in 0 .. Len(lst) + 1
      BY <1>3, <1>4, <2>1
    <3>2. g[i] = at[i]
      BY <2>1, <3>1 DEF g
    <3> QED BY <1>3, <1>8, <2>1, <3>1, <3>2
  <2>2. CASE i > p
    <3>1. /\ i - 1 \in 1 .. Len(lst) /\ i \in 0 .. Len(lst) + 1 /\ ~(i < p) /\ i # p
          /\ (i - 1) + 1 = i
          /\ i - 1 \in p + 1 .. Len(lst) \/ (i = p + 1 /\ p <= Len(lst) /\ i - 1 = p)
      BY <1>3, <1>4, <2>2
    <3>2. g[i] = at[i - 1]
      BY <3>1 DEF g
    <3>3. new[i].timer = lst[i - 1].timer
      BY <1>3, <3>1
    <3> QED BY <1>8, <3>1, <3>2, <3>3
  <2> QED BY <1>3, <1>4, <1>10, <2>1, <2>2
<1>11. ASSUME NEW j \in 1 .. Len(lst)
       PROVE  \E i \in 1 .. Len(lst) + 1 : i # p /\ old(i) = j
  <2>1. CASE j < p
    BY <1>3, <1>4, <2>1
  <2>2. CASE j >= p
    <3>1. j + 1 \in 1 .. Len(lst) + 1 /\ j + 1 # p /\ ~(j + 1 < p) /\ (j + 1) - 1 = j
      BY <1>3, <1>4, <2>2
    <3> QED BY <3>1
  <2> QED BY <1>3, <1>4, <2>1, <2>2
<1>12. \A i, j \in 1 .. Len(lst) + 1 : i # p /\ j # p /\ old(i) = old(j) => i = j
  BY <1>3, <1>4
<1>13. \A i \in 1 .. Len(lst) : lst[i].timer # t
  BY <1>4 DEF Expires
<1> HIDE DEF old
<1>14. WellFormed(new)
  <2>1. ASSUME NEW i \in 1 .. Len(lst) + 1, NEW j \in 1 .. Len(lst) + 1,
               new[i].timer = new[j].timer
        PROVE  i = j
    <3>1. CASE i # p /\ j # p
      <4>1. old(i) = old(j)
        BY <1>4, <1>10, <2>1, <3>1 DEF WellFormed
      <4> QED BY <1>12, <3>1, <4>1
    <3>2. CASE i = p \/ j = p
      BY <1>9, <1>10, <1>13, <2>1, <3>2
    <3> QED BY <3>1, <3>2
  <2> QED BY <1>3, <1>4, <2>1 DEF WellFormed
<1>15. ASSUME NEW u, NEW d
       PROVE  Expires(new, u, d) <=> Expires(lst, u, d) \/ (u = t /\ d = n)
  <2>1. ASSUME Expires(new, u, d) PROVE Expires(lst, u, d) \/ (u = t /\ d = n)
    <3>1. PICK i \in 1 .. Len(lst) + 1 : new[i].timer = u /\ Expiries(new)[i] = d
      BY <1>4, <2>1 DEF Expires
    <3>2. CASE i = p
      BY <1>9, <3>1, <3>2
    <3>3. CASE i # p
      BY <1>4, <1>10, <3>1, <3>3 DEF Expires, at
    <3> QED BY <3>2, <3>3
  <2>2. ASSUME Expires(lst, u, d) PROVE Expires(new, u, d)
    <3>1. PICK j \in 1 .. Len(lst) : lst[j].timer = u /\ at[j] = d
      BY <1>4, <2>2 DEF Expires, at
    <3>2. PICK i \in 1 .. Len(lst) + 1 : i # p /\ old(i) = j
      BY <1>11
    <3> QED BY <1>4, <1>10, <3>1, <3>2 DEF Expires
  <2>3. ASSUME u = t, d = n PROVE Expires(new, u, d)
    BY <1>9, <2>3 DEF Expires
  <2> QED BY <2>1, <2>2, <2>3
<1> QED BY <1>14, <1>15

(* What rt_timer_remove does to the entries.                               *)
LEMMA RemoveEntries ==
  ASSUME NEW lst, WellFormed(lst), NEW k \in DOMAIN lst,
         NEW new, new = rt_timer_remove(lst, lst[k].timer)
  PROVE  /\ new \in Seq(Entry) /\ Len(new) = Len(lst) - 1
         /\ \A i \in 1 .. k - 1 : new[i] = lst[i]
         /\ k < Len(lst) => new[k] = [timer |-> lst[k + 1].timer,
                                      tcnt |-> lst[k + 1].tcnt + lst[k].tcnt]
         /\ \A i \in k + 1 .. Len(lst) - 1 : new[i] = lst[i + 1]
<1>1. lst \in Seq(Entry)
  BY DEF WellFormed
<1>2. /\ Len(lst) \in Nat /\ DOMAIN lst = 1 .. Len(lst)
      /\ \A i \in 1 .. Len(lst) : /\ lst[i].timer \in Timers /\ lst[i].tcnt \in Nat
                                  /\ lst[i] = [timer |-> lst[i].timer, tcnt |-> lst[i].tcnt]
  BY <1>1, Entries
<1> DEFINE next == IF k = Len(lst) THEN lst
                   ELSE [lst EXCEPT ![k + 1].tcnt = @ + lst[k].tcnt]
<1>3. new = RemoveAt(next, k)
  <2>1. k = CHOOSE i \in DOMAIN lst : lst[i].timer = lst[k].timer
    BY DEF WellFormed
  <2> QED BY <2>1 DEF rt_timer_remove
<1> DEFINE f == [timer |-> lst[k + 1].timer, tcnt |-> lst[k + 1].tcnt + lst[k].tcnt]
<1>4. /\ next \in Seq(Entry) /\ Len(next) = Len(lst)
      /\ \A i \in 1 .. Len(lst) : i # k + 1 => next[i] = lst[i]
      /\ k < Len(lst) => next[k + 1] = f
  <2>1. CASE k = Len(lst)
    BY <1>1, <1>2, <2>1
  <2>2. CASE k # Len(lst)
    <3>1. k + 1 \in 1 .. Len(lst) /\ k \in 1 .. Len(lst) /\ k < Len(lst)
      BY <1>2, <2>2
    <3>2. f \in Entry
      <4>1. lst[k + 1].tcnt + lst[k].tcnt \in Nat
        BY <1>2, <3>1
      <4> QED BY <1>2, <3>1, <4>1 DEF Entry
    <3>3. next = [lst EXCEPT ![k + 1] = f]
      <4>1. next = [lst EXCEPT ![k + 1] = [lst[k + 1] EXCEPT !.tcnt = lst[k + 1].tcnt + lst[k].tcnt]]
        BY <2>2, <3>1
      <4>2. [lst[k + 1] EXCEPT !.tcnt = lst[k + 1].tcnt + lst[k].tcnt] = f
        BY <1>2, <3>1
      <4> QED BY <4>1, <4>2
    <3> HIDE DEF f
    <3>4. /\ [lst EXCEPT ![k + 1] = f] \in Seq(Entry) /\ Len([lst EXCEPT ![k + 1] = f]) = Len(lst)
          /\ \A i \in 1 .. Len(lst) : [lst EXCEPT ![k + 1] = f][i] = IF i = k + 1 THEN f ELSE lst[i]
      BY <1>1, <3>1, <3>2, ExceptSeq
    <3> QED BY <3>1, <3>3, <3>4
  <2> QED BY <2>1, <2>2
<1> HIDE DEF next, f
<1>5. k \in 1 .. Len(next)
  BY <1>2, <1>4
<1>6. /\ new \in Seq(Entry) /\ Len(new) = Len(next) - 1
      /\ \A i \in 1 .. k - 1 : new[i] = next[i]
      /\ \A i \in k .. Len(next) - 1 : new[i] = next[i + 1]
  BY <1>3, <1>4, <1>5, RemoveAtProperties
<1>7. \A i \in 1 .. k - 1 : i \in 1 .. Len(lst) /\ i # k + 1
  BY <1>2
<1>8. \A i \in k + 1 .. Len(lst) - 1 :
        i + 1 \in 1 .. Len(lst) /\ i + 1 # k + 1 /\ i \in k .. Len(lst) - 1
  BY <1>2
<1>9. k < Len(lst) => k \in k .. Len(lst) - 1
  BY <1>2
<1> QED BY <1>4, <1>6, <1>7, <1>8, <1>9 DEF f

(* A timer removed is gone, and the others expire when they did.           *)
LEMMA RemoveExpires ==
  ASSUME NEW lst, WellFormed(lst), NEW t, NEW e, Expires(lst, t, e),
         NEW new, new = rt_timer_remove(lst, t)
  PROVE  /\ WellFormed(new)
         /\ \A u, d : Expires(new, u, d) <=> u # t /\ Expires(lst, u, d)
<1>1. lst \in Seq(Entry)
  BY DEF WellFormed
<1>2. PICK k \in DOMAIN lst : lst[k].timer = t
  BY DEF Expires
<1>3. /\ new \in Seq(Entry) /\ Len(new) = Len(lst) - 1
      /\ \A i \in 1 .. k - 1 : new[i] = lst[i]
      /\ k < Len(lst) => new[k] = [timer |-> lst[k + 1].timer,
                                   tcnt |-> lst[k + 1].tcnt + lst[k].tcnt]
      /\ \A i \in k + 1 .. Len(lst) - 1 : new[i] = lst[i + 1]
  BY <1>2, RemoveEntries
<1>4. /\ Len(lst) \in Nat /\ DOMAIN lst = 1 .. Len(lst) /\ DOMAIN new = 1 .. Len(lst) - 1
      /\ \A i \in 1 .. Len(lst) : lst[i].tcnt \in Nat
  BY <1>1, <1>3, Entries
<1> DEFINE at == Expiries(lst)
           g  == [i \in 0 .. Len(lst) - 1 |-> IF i < k THEN at[i] ELSE at[i + 1]]
<1>5. /\ at[0] = 0 /\ \A i \in 0 .. Len(lst) : at[i] \in Nat
      /\ \A i \in 1 .. Len(lst) : at[i] = at[i - 1] + lst[i].tcnt
  BY <1>1, ExpiriesDef, ExpiriesOrder
<1> HIDE DEF at
<1>6. ASSUME NEW i \in 1 .. Len(lst) - 1 PROVE g[i] = g[i - 1] + new[i].tcnt
  <2>1. CASE i < k
    <3>1. i \in 1 .. k - 1 /\ i \in 1 .. Len(lst)
      BY <1>4, <2>1
    <3>2. g[i] = at[i] /\ g[i - 1] = at[i - 1]
      BY <1>4, <2>1
    <3> QED BY <1>3, <1>5, <3>1, <3>2
  <2>2. CASE i = k
    <3>1. g[i] = at[k + 1] /\ g[i - 1] = at[k - 1] /\ k < Len(lst)
      BY <1>4, <2>2
    <3>2. new[i].tcnt = lst[k + 1].tcnt + lst[k].tcnt
      BY <1>3, <2>2, <3>1
    <3>3. /\ k \in 1 .. Len(lst) /\ k + 1 \in 1 .. Len(lst) /\ (k + 1) - 1 = k
          /\ k - 1 \in 0 .. Len(lst)
      BY <1>4, <2>2
    <3>4. at[k + 1] = at[k] + lst[k + 1].tcnt /\ at[k] = at[k - 1] + lst[k].tcnt
      BY <1>5, <3>3
    <3>5. at[k - 1] \in Nat /\ lst[k].tcnt \in Nat /\ lst[k + 1].tcnt \in Nat
      BY <1>4, <1>5, <3>3
    <3> QED BY <3>1, <3>2, <3>4, <3>5
  <2>3. CASE i > k
    <3>1. i \in k + 1 .. Len(lst) - 1 /\ i + 1 \in 1 .. Len(lst) /\ (i - 1) + 1 = (i + 1) - 1
      BY <1>4, <2>3
    <3>2. g[i] = at[i + 1] /\ g[i - 1] = at[(i - 1) + 1]
      BY <1>4, <2>3
    <3>3. new[i] = lst[i + 1]
      BY <1>3, <3>1
    <3> QED BY <1>5, <3>1, <3>2, <3>3
  <2> QED BY <1>4, <2>1, <2>2, <2>3
<1>7. g[0] = 0
  BY <1>4, <1>5
<1> HIDE DEF g
<1>8. \A i \in 0 .. Len(lst) - 1 : Expiries(new)[i] = g[i]
  <2>1. Len(lst) - 1 \in 0 .. Len(new)
    BY <1>3, <1>4
  <2> QED BY <1>3, <1>6, <1>7, <2>1, ExpiriesUnique
<1> DEFINE old(i) == IF i < k THEN i ELSE i + 1
<1>9. ASSUME NEW i \in 1 .. Len(lst) - 1
      PROVE  /\ old(i) \in 1 .. Len(lst) /\ old(i) # k
             /\ new[i].timer = lst[old(i)].timer /\ Expiries(new)[i] = at[old(i)]
  <2>1. CASE i < k
    <3>1. i \in 1 .. k - 1 /\ i \in 1 .. Len(lst) /\ i \in 0 .. Len(lst) - 1
      BY <1>4, <2>1
    <3>2. g[i] = at[i]
      BY <2>1, <3>1 DEF g
    <3> QED BY <1>3, <1>8, <2>1, <3>1, <3>2
  <2>2. CASE i >= k
    <3>1. /\ i + 1 \in 1 .. Len(lst) /\ i \in 0 .. Len(lst) - 1 /\ ~(i < k) /\ i + 1 # k
          /\ i \in k + 1 .. Len(lst) - 1 \/ (i = k /\ k < Len(lst))
      BY <1>4, <2>2
    <3>2. g[i] = at[i + 1]
      BY <3>1 DEF g
    <3>3. new[i].timer = lst[i + 1].timer
      BY <1>3, <3>1
    <3> QED BY <1>8, <3>1, <3>2, <3>3
  <2> QED BY <1>4, <2>1, <2>2
<1>10. ASSUME NEW j \in 1 .. Len(lst), j # k
       PROVE  \E i \in 1 .. Len(lst) - 1 : old(i) = j
  <2>1. CASE j < k
    BY <1>4, <2>1
  <2>2. CASE j > k
    <3>1. j - 1 \in 1 .. Len(lst) - 1 /\ ~(j - 1 < k) /\ (j - 1) + 1 = j
      BY <1>4, <2>2
    <3> QED BY <3>1
  <2> QED BY <1>4, <1>10, <2>1, <2>2
<1>11. \A i, j \in 1 .. Len(lst) - 1 : old(i) = old(j) => i = j
  BY <1>4
<1>12. \A i \in 1 .. Len(lst) : lst[i].timer = t <=> i = k
  BY <1>2, <1>4 DEF WellFormed
<1> HIDE DEF old
<1>13. WellFormed(new)
  <2>1. ASSUME NEW i \in 1 .. Len(lst) - 1, NEW j \in 1 .. Len(lst) - 1,
               new[i].timer = new[j].timer
        PROVE  i = j
    <3>1. old(i) = old(j)
      BY <1>4, <1>9, <2>1 DEF WellFormed
    <3> QED BY <1>11, <3>1
  <2> QED BY <1>3, <1>4, <2>1 DEF WellFormed
<1>14. ASSUME NEW u, NEW d
       PROVE  Expires(new, u, d) <=> u # t /\ Expires(lst, u, d)
  <2>1. ASSUME Expires(new, u, d) PROVE u # t /\ Expires(lst, u, d)
    <3>1. PICK i \in 1 .. Len(lst) - 1 : new[i].timer = u /\ Expiries(new)[i] = d
      BY <1>4, <2>1 DEF Expires
    <3> QED BY <1>4, <1>9, <1>12, <3>1 DEF Expires, at
  <2>2. ASSUME u # t, Expires(lst, u, d) PROVE Expires(new, u, d)
    <3>1. PICK j \in 1 .. Len(lst) : lst[j].timer = u /\ at[j] = d
      BY <1>4, <2>2 DEF Expires, at
    <3>2. j # k
      BY <1>12, <2>2, <3>1
    <3>3. PICK i \in 1 .. Len(lst) - 1 : old(i) = j
      BY <1>10, <3>2
    <3> QED BY <1>4, <1>9, <3>1, <3>3 DEF Expires
  <2> QED BY <2>1, <2>2
<1> QED BY <1>13, <1>14

CountDown(lst) == [lst EXCEPT ![1].tcnt = @ - 1]

(* SysTick counts the first difference down, which brings every expiry     *)
(* one tick nearer.                                                        *)
LEMMA CountExpires ==
  ASSUME NEW lst, WellFormed(lst), lst # << >>, lst[1].tcnt # 0,
         NEW new, new = CountDown(lst)
  PROVE  /\ WellFormed(new) /\ Len(new) = Len(lst)
         /\ \A i \in 1 .. Len(lst) : /\ new[i].timer = lst[i].timer
                                     /\ Expiries(new)[i] = Expiries(lst)[i] - 1
<1>1. lst \in Seq(Entry)
  BY DEF WellFormed
<1>2. /\ Len(lst) \in Nat /\ DOMAIN lst = 1 .. Len(lst)
      /\ \A i \in 1 .. Len(lst) : /\ lst[i].timer \in Timers /\ lst[i].tcnt \in Nat
                                  /\ lst[i] = [timer |-> lst[i].timer, tcnt |-> lst[i].tcnt]
  BY <1>1, Entries
<1>3. 1 \in 1 .. Len(lst)
  <2>1. Len(lst) # 0
    BY <1>1, EmptySeq
  <2> QED BY <1>2, <2>1
<1> DEFINE f == [timer |-> lst[1].timer, tcnt |-> lst[1].tcnt - 1]
<1>4. f \in Entry
  <2>1. lst[1].tcnt - 1 \in Nat
    BY <1>2, <1>3
  <2> QED BY <1>2, <1>3, <2>1 DEF Entry
<1>5. new = [lst EXCEPT ![1] = f]
  <2>1. new = [lst EXCEPT ![1] = [lst[1] EXCEPT !.tcnt = lst[1].tcnt - 1]]
    BY <1>2, <1>3 DEF CountDown
  <2>2. [lst[1] EXCEPT !.tcnt = lst[1].tcnt - 1] = f
    BY <1>2, <1>3
  <2> QED BY <2>1, <2>2
<1> HIDE DEF f
<1>6. /\ new \in Seq(Entry) /\ Len(new) = Len(lst)
      /\ \A i \in 1 .. Len(lst) : new[i] = IF i = 1 THEN f ELSE lst[i]
  <2>1. /\ [lst EXCEPT ![1] = f] \in Seq(Entry) /\ Len([lst EXCEPT ![1] = f]) = Len(lst)
        /\ \A i \in 1 .. Len(lst) : [lst EXCEPT ![1] = f][i] = IF i = 1 THEN f ELSE lst[i]
    BY <1>1, <1>3, <1>4, ExceptSeq
  <2> QED BY <1>5, <2>1
<1>7. \A i \in 1 .. Len(lst) : new[i].timer = lst[i].timer
  BY <1>6 DEF f
<1>8. WellFormed(new)
  <2>1. DOMAIN new = 1 .. Len(lst)
    BY <1>6, Entries
  <2> QED BY <1>2, <1>6, <1>7, <2>1 DEF WellFormed
<1> DEFINE at == Expiries(lst)
           g  == [i \in 0 .. Len(lst) |-> IF i = 0 THEN 0 ELSE at[i] - 1]
<1>9. /\ at[0] = 0 /\ \A i \in 0 .. Len(lst) : at[i] \in Nat
      /\ \A i \in 1 .. Len(lst) : at[i] = at[i - 1] + lst[i].tcnt
  BY <1>1, ExpiriesDef, ExpiriesOrder
<1> HIDE DEF at
<1>10. ASSUME NEW i \in 1 .. Len(lst) PROVE g[i] = g[i - 1] + new[i].tcnt
  <2>1. g[i] = at[i] - 1 /\ at[i] = at[i - 1] + lst[i].tcnt
    BY <1>2, <1>9
  <2>2. CASE i = 1
    <3>1. g[i - 1] = 0 /\ at[i - 1] = 0 /\ new[i].tcnt = lst[i].tcnt - 1 /\ lst[i].tcnt \in Nat
      BY <1>2, <1>6, <1>9, <2>2 DEF f
    <3> QED BY <2>1, <3>1
  <2>3. CASE i # 1
    <3>1. i - 1 \in 0 .. Len(lst) /\ i - 1 # 0
      BY <1>2, <2>3
    <3>2. g[i - 1] = at[i - 1] - 1
      BY <3>1
    <3>3. new[i].tcnt = lst[i].tcnt /\ at[i - 1] \in Nat /\ lst[i].tcnt \in Nat
      BY <1>2, <1>6, <1>9, <2>3, <3>1
    <3> HIDE DEF g
    <3> QED BY <2>1, <3>2, <3>3
  <2> QED BY <2>2, <2>3
<1>11. g[0] = 0
  BY <1>2
<1> HIDE DEF g
<1>12. \A i \in 0 .. Len(lst) : Expiries(new)[i] = g[i]
  <2>1. Len(lst) \in 0 .. Len(new)
    BY <1>2, <1>6
  <2>2. new \in Seq(Entry) /\ \A i \in 1 .. Len(lst) : g[i] = g[i - 1] + new[i].tcnt
    BY <1>6, <1>10
  <2> QED BY <1>11, <2>1, <2>2, ExpiriesUnique
<1>13. \A i \in 1 .. Len(lst) : i \in 0 .. Len(lst) /\ g[i] = at[i] - 1
  BY <1>2 DEF g
<1> QED BY <1>6, <1>7, <1>8, <1>12, <1>13 DEF at

(* What is left behind the entries that have expired: all that expire      *)
(* later, when they did.                                                   *)
LEMMA RestExpires ==
  ASSUME NEW lst, WellFormed(lst), NEW p, p = Later(lst, 0),
         NEW new, new = SubSeq(lst, p, Len(lst))
  PROVE  /\ WellFormed(new)
         /\ \A u, d : Expires(new, u, d) <=> d # 0 /\ Expires(lst, u, d)
<1>1. lst \in Seq(Entry)
  BY DEF WellFormed
<1>2. /\ Len(lst) \in Nat /\ DOMAIN lst = 1 .. Len(lst)
      /\ \A i \in 1 .. Len(lst) : lst[i] \in Entry /\ lst[i].tcnt \in Nat
  BY <1>1, Entries
<1> DEFINE at == Expiries(lst)
           n  == Len(lst) - p + 1
           g  == [i \in 0 .. n |-> at[p - 1 + i]]
<1>3. /\ at[0] = 0 /\ \A i \in 0 .. Len(lst) : at[i] \in Nat
      /\ \A i \in 1 .. Len(lst) : at[i] = at[i - 1] + lst[i].tcnt
  BY <1>1, ExpiriesDef, ExpiriesOrder
<1>4. /\ p \in 1 .. Len(lst) + 1 /\ \A i \in 0 .. p - 1 : at[i] <= 0
      /\ \A i \in p .. Len(lst) : at[i] > 0
  BY <1>1, LaterProperties
<1> HIDE DEF at
<1>5. new \in Seq(Entry) /\ Len(new) = n /\ \A i \in 1 .. n : new[i] = lst[p - 1 + i]
  <2>1. \A i \in p .. Len(lst) : lst[i] \in Entry
    BY <1>2, <1>4
  <2>2. p \in Int /\ Len(lst) \in Int
    BY <1>2, <1>4
  <2>3. /\ SubSeq(lst, p, Len(lst)) \in Seq(Entry)
        /\ Len(SubSeq(lst, p, Len(lst))) = IF p <= Len(lst) THEN Len(lst) - p + 1 ELSE 0
        /\ \A i \in 1 .. Len(lst) - p + 1 : SubSeq(lst, p, Len(lst))[i] = lst[p + i - 1]
    BY <2>1, <2>2, SubSeqProperties
  <2>4. Len(new) = n
    BY <1>2, <1>4, <2>3
  <2>5. \A i \in 1 .. n : p + i - 1 = p - 1 + i
    BY <1>2, <1>4
  <2> QED BY <2>3, <2>4, <2>5
<1>6. n \in Nat /\ DOMAIN new = 1 .. n /\ \A i \in 1 .. n : p - 1 + i \in p .. Len(lst)
  BY <1>2, <1>4, <1>5, Entries
<1>7. ASSUME NEW i \in 1 .. n PROVE g[i] = g[i - 1] + new[i].tcnt
  <2>1. /\ i \in 0 .. n /\ i - 1 \in 0 .. n /\ p - 1 + i \in 1 .. Len(lst)
        /\ (p - 1 + i) - 1 = p - 1 + (i - 1)
    BY <1>2, <1>4
  <2>2. at[p - 1 + i] = at[(p - 1 + i) - 1] + lst[p - 1 + i].tcnt
    BY <1>3, <2>1
  <2>3. new[i] = lst[p - 1 + i]
    BY <1>5
  <2>4. g[i] = at[p - 1 + i] /\ g[i - 1] = at[p - 1 + (i - 1)]
    BY <2>1
  <2> HIDE DEF g, n
  <2> QED BY <2>1, <2>2, <2>3, <2>4
<1>8. g[0] = 0
  <2>1. 0 \in 0 .. n /\ p - 1 + 0 = p - 1 /\ p - 1 \in 0 .. p - 1 /\ p - 1 \in 0 .. Len(lst)
    BY <1>2, <1>4, <1>6
  <2>2. g[0] = at[p - 1]
    BY <2>1
  <2>3. at[p - 1] \in Nat /\ at[p - 1] <= 0
    BY <1>3, <1>4, <2>1
  <2> QED BY <2>2, <2>3
<1> HIDE DEF g
<1>9. \A i \in 0 .. n : Expiries(new)[i] = g[i]
  <2>1. n \in 0 .. Len(new)
    BY <1>5, <1>6
  <2>2. new \in Seq(Entry) /\ \A i \in 1 .. n : g[i] = g[i - 1] + new[i].tcnt
    BY <1>5, <1>7
  <2> HIDE DEF n
  <2> QED BY <1>8, <2>1, <2>2, ExpiriesUnique
<1>10. \A i \in 1 .. n : Expiries(new)[i] = at[p - 1 + i]
  BY <1>6, <1>9 DEF g
<1>11. WellFormed(new)
  <2>1. ASSUME NEW i \in 1 .. n, NEW j \in 1 .. n, new[i].timer = new[j].timer PROVE i = j
    <3>1. p - 1 + i \in DOMAIN lst /\ p - 1 + j \in DOMAIN lst
      BY <1>2, <1>4
    <3>2. p - 1 + i = p - 1 + j
      BY <1>5, <2>1, <3>1 DEF WellFormed
    <3> QED BY <1>2, <1>4, <3>2
  <2> HIDE DEF n
  <2> QED BY <1>5, <1>6, <2>1 DEF WellFormed
<1>12. ASSUME NEW u, NEW d PROVE Expires(new, u, d) <=> d # 0 /\ Expires(lst, u, d)
  <2>1. ASSUME Expires(new, u, d) PROVE d # 0 /\ Expires(lst, u, d)
    <3>1. PICK i \in 1 .. n : new[i].timer = u /\ Expiries(new)[i] = d
      BY <1>6, <2>1 DEF Expires
    <3>2. p - 1 + i \in p .. Len(lst) /\ p - 1 + i \in 1 .. Len(lst)
      BY <1>2, <1>4
    <3>3. lst[p - 1 + i].timer = u /\ at[p - 1 + i] = d
      BY <1>5, <1>10, <3>1
    <3>4. d # 0
      BY <1>4, <3>2, <3>3
    <3> QED BY <1>2, <3>2, <3>3, <3>4 DEF Expires, at
  <2>2. ASSUME d # 0, Expires(lst, u, d) PROVE Expires(new, u, d)
    <3>1. PICK j \in 1 .. Len(lst) : lst[j].timer = u /\ at[j] = d
      BY <1>2, <2>2 DEF Expires, at
    <3>2. j >= p
      <4>1. SUFFICES ASSUME ~(j >= p) PROVE FALSE
        OBVIOUS
      <4>2. j \in 0 .. p - 1 /\ j \in 0 .. Len(lst)
        BY <1>2, <1>4, <4>1
      <4>3. at[j] \in Nat /\ at[j] <= 0
        BY <1>3, <1>4, <4>2
      <4> QED BY <2>2, <3>1, <4>3
    <3>3. j - p + 1 \in 1 .. n /\ p - 1 + (j - p + 1) = j
      BY <1>2, <1>4, <3>2
    <3>4. new[j - p + 1].timer = u /\ Expiries(new)[j - p + 1] = d
      BY <1>5, <1>10, <3>1, <3>3
    <3> HIDE DEF n
    <3> QED BY <1>6, <3>3, <3>4 DEF Expires
  <2> QED BY <2>1, <2>2
<1> QED BY <1>11, <1>12

(* after is the lists that inserting the first n periodic timers of ts     *)
(* into lst one by one goes through.                                       *)
InsertsOf(after, lst, ts, n) ==
  after = [i \in 0 .. n |->
             IF i = 0 THEN lst
             ELSE IF ts[i] \in Periodic THEN rt_timer_insert(after[i - 1], ts[i], icnt[ts[i]])
             ELSE after[i - 1]]

(* There are such lists.                                                   *)
LEMMA InsertsExist == ASSUME NEW lst, NEW ts, NEW n \in Nat PROVE \E g : InsertsOf(g, lst, ts, n)
<1> DEFINE S == {k \in Nat : ~\E g : InsertsOf(g, lst, ts, k)}
<1>1. SUFFICES ASSUME S # {} PROVE FALSE
  OBVIOUS
<1>2. PICK x \in S : \A y \in S : x <= y
  BY <1>1, LeastExists
<1>3. x # 0
  <2>1. InsertsOf([i \in 0 .. 0 |-> lst], lst, ts, 0)
    BY DEF InsertsOf
  <2> QED BY <2>1
<1>4. PICK g : InsertsOf(g, lst, ts, x - 1)
  BY <1>2, <1>3
<1> DEFINE h == [i \in 0 .. x |-> IF i = x
                                  THEN IF ts[x] \in Periodic
                                       THEN rt_timer_insert(g[x - 1], ts[x], icnt[ts[x]])
                                       ELSE g[x - 1]
                                  ELSE g[i]]
<1>5. InsertsOf(h, lst, ts, x)
  <2>1. g = [i \in 0 .. x - 1 |->
               IF i = 0 THEN lst
               ELSE IF ts[i] \in Periodic THEN rt_timer_insert(g[i - 1], ts[i], icnt[ts[i]])
               ELSE g[i - 1]]
    BY <1>4 DEF InsertsOf
  <2>2. \A i \in 0 .. x :
          h[i] = IF i = 0 THEN lst
                 ELSE IF ts[i] \in Periodic THEN rt_timer_insert(h[i - 1], ts[i], icnt[ts[i]])
                 ELSE h[i - 1]
    BY <2>1, <1>3
  <2>3. h = [i \in 0 .. x |-> h[i]]
    OBVIOUS
  <2> HIDE DEF h
  <2> QED BY <2>2, <2>3 DEF InsertsOf
<1> QED BY <1>5

(* Restarted is the last of them.                                          *)
LEMMA RestartedDef ==
  ASSUME NEW lst, NEW ts \in Seq(Timers)
  PROVE  \E after : InsertsOf(after, lst, ts, Len(ts)) /\ Restarted(lst, ts) = after[Len(ts)]
<1>1. Len(ts) \in Nat
  BY LenProperties
<1>2. \E g : InsertsOf(g, lst, ts, Len(ts))
  BY <1>1, InsertsExist
<1> QED BY <1>2, Zenon DEF Restarted, InsertsOf

(* The periodic timers among ts are back in the list with their periods.   *)
LEMMA RestartedExpires ==
  ASSUME NEW lst, WellFormed(lst), NEW ts \in Seq(Timers),
         \A i, j \in 1 .. Len(ts) : ts[i] = ts[j] => i = j,
         \A i \in 1 .. Len(ts) : icnt[ts[i]] \in Nat /\ \A d : ~Expires(lst, ts[i], d),
         NEW new, new = Restarted(lst, ts)
  PROVE  /\ WellFormed(new)
         /\ \A u, d : Expires(new, u, d) <=>
              \/ Expires(lst, u, d)
              \/ u \in Periodic /\ d = icnt[u] /\ \E i \in 1 .. Len(ts) : ts[i] = u
<1>1. Len(ts) \in Nat /\ \A i \in 1 .. Len(ts) : ts[i] \in Timers
  BY LenProperties, ElementOfSeq
<1>2. PICK after : InsertsOf(after, lst, ts, Len(ts)) /\ Restarted(lst, ts) = after[Len(ts)]
  BY RestartedDef
<1>3. /\ after[0] = lst
      /\ \A i \in 1 .. Len(ts) :
           after[i] = IF ts[i] \in Periodic
                      THEN rt_timer_insert(after[i - 1], ts[i], icnt[ts[i]]) ELSE after[i - 1]
  <2> DEFINE F(i) == IF i = 0 THEN lst
                     ELSE IF ts[i] \in Periodic
                     THEN rt_timer_insert(after[i - 1], ts[i], icnt[ts[i]]) ELSE after[i - 1]
  <2>1. after = [i \in 0 .. Len(ts) |-> F(i)]
    BY <1>2 DEF InsertsOf
  <2> HIDE DEF F
  <2>2. after[0] = F(0) /\ \A i \in 1 .. Len(ts) : after[i] = F(i)
    BY <1>1, <2>1
  <2>3. F(0) = lst
    BY DEF F
  <2>4. ASSUME NEW i \in 1 .. Len(ts)
        PROVE  F(i) = IF ts[i] \in Periodic
                      THEN rt_timer_insert(after[i - 1], ts[i], icnt[ts[i]]) ELSE after[i - 1]
    <3>1. i # 0
      BY <1>1
    <3> QED BY <3>1 DEF F
  <2> QED BY <2>2, <2>3, <2>4
<1> DEFINE Back(k, u, d) == u \in Periodic /\ d = icnt[u] /\ \E i \in 1 .. k : ts[i] = u
           Good(k) == /\ WellFormed(after[k])
                      /\ \A u, d : Expires(after[k], u, d) <=> Expires(lst, u, d) \/ Back(k, u, d)
           S == {k \in 0 .. Len(ts) : ~Good(k)}
<1>4. SUFFICES ASSUME S # {} PROVE FALSE
  <2> HIDE DEF Good
  <2>1. Len(ts) \in 0 .. Len(ts)
    BY <1>1
  <2>2. Good(Len(ts))
    BY <1>4, <2>1
  <2>3. WellFormed(after[Len(ts)]) /\ \A u, d :
          Expires(after[Len(ts)], u, d) <=> Expires(lst, u, d) \/ Back(Len(ts), u, d)
    BY <2>2 DEF Good
  <2> QED BY <1>2, <2>3
<1>5. PICK k \in S : \A y \in S : k <= y
  <2>1. S \in SUBSET Nat
    BY <1>1
  <2> QED BY <1>4, <2>1, LeastExists
<1>6. k # 0
  <2>1. Good(0)
    BY <1>3
  <2> QED BY <1>5, <2>1
<1>7. k \in 1 .. Len(ts) /\ k - 1 \in 0 .. Len(ts) /\ ~(k <= k - 1)
  BY <1>1, <1>5, <1>6
<1>8. Good(k - 1)
  BY <1>5, <1>7
<1>9. \A u, d : Back(k, u, d) <=> Back(k - 1, u, d) \/ (u = ts[k] /\ u \in Periodic /\ d = icnt[u])
  <2>1. \A i \in 1 .. k : i \in 1 .. k - 1 \/ i = k
    BY <1>7
  <2>2. \A i \in 1 .. k - 1 : i \in 1 .. k
    BY <1>7
  <2>3. k \in 1 .. k
    BY <1>7
  <2> QED BY <2>1, <2>2, <2>3
<1> HIDE DEF Back
<1>10. CASE ts[k] \notin Periodic
  <2>1. after[k] = after[k - 1]
    BY <1>3, <1>7, <1>10
  <2>2. Good(k)
    BY <1>8, <1>9, <1>10, <2>1
  <2> QED BY <1>5, <2>2
<1>11. CASE ts[k] \in Periodic
  <2>1. after[k] = rt_timer_insert(after[k - 1], ts[k], icnt[ts[k]])
    BY <1>3, <1>7, <1>11
  <2>2. \A d : ~Back(k - 1, ts[k], d)
    <3>1. \A i \in 1 .. k - 1 : i \in 1 .. Len(ts) /\ i # k
      BY <1>1, <1>7
    <3> QED BY <1>7, <3>1 DEF Back
  <2>3. \A d : ~Expires(after[k - 1], ts[k], d)
    BY <1>7, <1>8, <2>2
  <2>4. /\ WellFormed(after[k])
        /\ \A u, d : Expires(after[k], u, d) <=>
                       Expires(after[k - 1], u, d) \/ (u = ts[k] /\ d = icnt[ts[k]])
    <3>1. WellFormed(after[k - 1]) /\ ts[k] \in Timers /\ icnt[ts[k]] \in Nat
      BY <1>1, <1>7, <1>8
    <3> HIDE DEF Good
    <3> QED BY <2>1, <2>3, <3>1, InsertExpires
  <2>5. Good(k)
    BY <1>8, <1>9, <1>11, <2>4
  <2> QED BY <1>5, <2>5
<1> QED BY <1>10, <1>11

(* The invariant.                                                          *)

(* Exactly the running timers are in the list lst, each once; none expires *)
(* now or later than the longest time, and each has a period.              *)
Listed(lst, st, period) ==
  /\ WellFormed(lst)
  /\ \A i \in DOMAIN lst : Expiries(lst)[i] \in 1 .. MaxTicks
  /\ st \in [Timers -> {"osTimerInvalid", "osTimerStopped", "osTimerRunning"}]
  /\ period \in [Timers -> 0 .. MaxTicks]
  /\ \A t \in Timers : st[t] = "osTimerRunning" <=> \E i \in DOMAIN lst : lst[i].timer = t
  /\ \A t \in Timers : st[t] = "osTimerRunning" => period[t] # 0

(* The thread waits only while there is nothing for it to do.              *)
QueueInv ==
  /\ os_psq \in Seq(Timers)
  /\ msg \in Seq(Timers) /\ Len(msg) <= QueueSize
  /\ thread \in {"runs", "waits"}
  /\ handed = << >> \/ \E t \in Timers : handed = <<t>>
  /\ thread = "waits" => handed = << >> /\ msg = << >>
  /\ failed \in BOOLEAN

IInv == Listed(list, state, icnt) /\ QueueInv

(* Due is when a timer in the list expires, and 0 for the others.          *)
LEMMA DueMeaning ==
  ASSUME NEW lst, WellFormed(lst), \A u : ~Expires(lst, u, 0)
  PROVE  /\ \A u, d : Expires(lst, u, d) <=> d # 0 /\ d = Due(lst, u)
         /\ \A u : Due(lst, u) \in Nat /\ (u \notin Timers => Due(lst, u) = 0)
<1>1. lst \in Seq(Entry)
  BY DEF WellFormed
<1>2. /\ Len(lst) \in Nat /\ DOMAIN lst = 1 .. Len(lst)
      /\ \A i \in 1 .. Len(lst) : lst[i].timer \in Timers /\ Expiries(lst)[i] \in Nat
  <2>1. \A i \in 1 .. Len(lst) : i \in 0 .. Len(lst)
    OBVIOUS
  <2> QED BY <1>1, <2>1, Entries, ExpiriesOrder
<1>3. ASSUME NEW u PROVE /\ \A d : Expires(lst, u, d) <=> d # 0 /\ d = Due(lst, u)
                         /\ Due(lst, u) \in Nat /\ (u \notin Timers => Due(lst, u) = 0)
  <2> DEFINE at == {i \in DOMAIN lst : lst[i].timer = u}
  <2>1. CASE at = {}
    <3>1. Due(lst, u) = 0
      BY <2>1 DEF Due
    <3>2. \A d : ~Expires(lst, u, d)
      BY <2>1 DEF Expires
    <3> QED BY <3>1, <3>2
  <2>2. CASE at # {}
    <3>1. PICK k \in DOMAIN lst : lst[k].timer = u
      BY <2>2
    <3>2. at = {k}
      BY <3>1 DEF WellFormed
    <3>3. Due(lst, u) = Expiries(lst)[k]
      BY <2>2, <3>2 DEF Due
    <3>4. \A d : Expires(lst, u, d) <=> d = Expiries(lst)[k]
      BY <3>1 DEF Expires, WellFormed
    <3>5. Expiries(lst)[k] # 0
      BY <3>4
    <3> QED BY <1>2, <3>1, <3>3, <3>4, <3>5
  <2> QED BY <2>1, <2>2
<1> QED BY <1>3

(* The invariant in these terms.                                           *)
LEMMA ListedMeaning ==
  ASSUME NEW lst, NEW st, NEW period
  PROVE  Listed(lst, st, period) <=>
           /\ WellFormed(lst)
           /\ \A u : ~Expires(lst, u, 0) /\ Due(lst, u) <= MaxTicks
           /\ st \in [Timers -> {"osTimerInvalid", "osTimerStopped", "osTimerRunning"}]
           /\ period \in [Timers -> 0 .. MaxTicks]
           /\ \A t \in Timers : st[t] = "osTimerRunning" <=> Due(lst, t) # 0
           /\ \A t \in Timers : st[t] = "osTimerRunning" => period[t] # 0
<1> USE MaxTicksAssumption
<1>1. ASSUME WellFormed(lst)
      PROVE  /\ \A i \in DOMAIN lst : Expiries(lst)[i] \in Nat
             /\ \A i \in DOMAIN lst : Expires(lst, lst[i].timer, Expiries(lst)[i])
  <2>1. lst \in Seq(Entry)
    BY <1>1 DEF WellFormed
  <2>2. \A i \in DOMAIN lst : i \in 0 .. Len(lst)
    BY <2>1, Entries
  <2> QED BY <2>1, <2>2, ExpiriesOrder DEF Expires
<1>2. ASSUME WellFormed(lst), \A i \in DOMAIN lst : Expiries(lst)[i] \in 1 .. MaxTicks
      PROVE  \A u : ~Expires(lst, u, 0) /\ Due(lst, u) <= MaxTicks
  <2>1. ASSUME NEW u, Expires(lst, u, 0) PROVE FALSE
    BY <1>2, <2>1 DEF Expires
  <2>2. ASSUME NEW u PROVE Due(lst, u) <= MaxTicks
    <3>1. Due(lst, u) = 0 \/ Expires(lst, u, Due(lst, u))
      BY <1>2, <2>1, DueMeaning
    <3>2. ASSUME Expires(lst, u, Due(lst, u)) PROVE Due(lst, u) <= MaxTicks
      BY <1>2, <3>2 DEF Expires
    <3> QED BY <3>1, <3>2
  <2> QED BY <2>1, <2>2
<1>3. ASSUME WellFormed(lst), \A u : ~Expires(lst, u, 0) /\ Due(lst, u) <= MaxTicks
      PROVE  \A i \in DOMAIN lst : Expiries(lst)[i] \in 1 .. MaxTicks
  <2>1. ASSUME NEW i \in DOMAIN lst PROVE Expiries(lst)[i] \in 1 .. MaxTicks
    <3>1. Expires(lst, lst[i].timer, Expiries(lst)[i]) /\ Expiries(lst)[i] \in Nat
      BY <1>1, <1>3
    <3>2. Expiries(lst)[i] # 0 /\ Expiries(lst)[i] = Due(lst, lst[i].timer)
      BY <1>3, <3>1, DueMeaning
    <3> QED BY <1>3, <3>1, <3>2
  <2> QED BY <2>1
<1>4. ASSUME WellFormed(lst), \A u : ~Expires(lst, u, 0)
      PROVE  \A t : (\E i \in DOMAIN lst : lst[i].timer = t) <=> Due(lst, t) # 0
  <2>1. ASSUME NEW t, NEW i \in DOMAIN lst, lst[i].timer = t PROVE Due(lst, t) # 0
    BY <1>1, <1>4, <2>1, DueMeaning
  <2>2. ASSUME NEW t, Due(lst, t) # 0 PROVE \E i \in DOMAIN lst : lst[i].timer = t
    <3>1. Expires(lst, t, Due(lst, t))
      BY <1>4, <2>2, DueMeaning
    <3> QED BY <3>1 DEF Expires
  <2> QED BY <2>1, <2>2
<1>5. ASSUME Listed(lst, st, period)
      PROVE  /\ WellFormed(lst)
             /\ \A u : ~Expires(lst, u, 0) /\ Due(lst, u) <= MaxTicks
             /\ st \in [Timers -> {"osTimerInvalid", "osTimerStopped", "osTimerRunning"}]
             /\ period \in [Timers -> 0 .. MaxTicks]
             /\ \A t \in Timers : st[t] = "osTimerRunning" <=> Due(lst, t) # 0
             /\ \A t \in Timers : st[t] = "osTimerRunning" => period[t] # 0
  BY <1>2, <1>4, <1>5 DEF Listed
<1>6. ASSUME WellFormed(lst), \A u : ~Expires(lst, u, 0) /\ Due(lst, u) <= MaxTicks,
             st \in [Timers -> {"osTimerInvalid", "osTimerStopped", "osTimerRunning"}],
             period \in [Timers -> 0 .. MaxTicks],
             \A t \in Timers : st[t] = "osTimerRunning" <=> Due(lst, t) # 0,
             \A t \in Timers : st[t] = "osTimerRunning" => period[t] # 0
      PROVE  Listed(lst, st, period)
  BY <1>3, <1>4, <1>6 DEF Listed
<1> QED BY <1>5, <1>6

(* Every entry of lst is still to expire.                                  *)
Pending(lst) == WellFormed(lst) /\ \A u : ~Expires(lst, u, 0)

(* A caller sees the timer inserted counting, and the others as before.    *)
LEMMA InsertDue ==
  ASSUME NEW lst, Pending(lst), NEW t \in Timers, Due(lst, t) = 0, NEW n \in Nat \ {0},
         NEW new, new = rt_timer_insert(lst, t, n)
  PROVE  Pending(new) /\ \A u : Due(new, u) = IF u = t THEN n ELSE Due(lst, u)
<1>1. /\ WellFormed(lst) /\ \A u, d : Expires(lst, u, d) <=> d # 0 /\ d = Due(lst, u)
  BY DueMeaning DEF Pending
<1>2. \A d : ~Expires(lst, t, d)
  BY <1>1
<1>3. /\ WellFormed(new)
      /\ \A u, d : Expires(new, u, d) <=> Expires(lst, u, d) \/ (u = t /\ d = n)
  BY <1>1, <1>2, InsertExpires
<1>4. Pending(new)
  BY <1>1, <1>3 DEF Pending
<1>5. \A u, d : Expires(new, u, d) <=> d # 0 /\ d = Due(new, u)
  BY <1>4, DueMeaning DEF Pending
<1>6. ASSUME NEW u PROVE Due(new, u) = IF u = t THEN n ELSE Due(lst, u)
  <2>1. CASE u = t
    BY <1>3, <1>5, <2>1
  <2>2. CASE u # t
    BY <1>1, <1>3, <1>5, <2>2
  <2> QED BY <2>1, <2>2
<1> QED BY <1>4, <1>6

(* A caller sees the timer removed stop, and the others as before.         *)
LEMMA RemoveDue ==
  ASSUME NEW lst, Pending(lst), NEW t, Due(lst, t) # 0, NEW new, new = rt_timer_remove(lst, t)
  PROVE  Pending(new) /\ \A u : Due(new, u) = IF u = t THEN 0 ELSE Due(lst, u)
<1>1. /\ WellFormed(lst) /\ \A u, d : Expires(lst, u, d) <=> d # 0 /\ d = Due(lst, u)
  BY DueMeaning DEF Pending
<1>2. /\ WellFormed(new)
      /\ \A u, d : Expires(new, u, d) <=> u # t /\ Expires(lst, u, d)
  <2>1. Expires(lst, t, Due(lst, t))
    BY <1>1
  <2> QED BY <1>1, <2>1, RemoveExpires
<1>3. Pending(new)
  BY <1>1, <1>2 DEF Pending
<1>4. \A u, d : Expires(new, u, d) <=> d # 0 /\ d = Due(new, u)
  BY <1>3, DueMeaning DEF Pending
<1>5. ASSUME NEW u PROVE Due(new, u) = IF u = t THEN 0 ELSE Due(lst, u)
  <2>1. CASE u = t
    BY <1>2, <1>4, <2>1
  <2>2. CASE u # t
    BY <1>1, <1>2, <1>4, <2>2
  <2> QED BY <2>1, <2>2
<1> QED BY <1>3, <1>5

(* What a tick makes of a list: the list counted down, the first position  *)
(* that has not expired, the timers before it, and the new list.           *)
Ticks(lst, counted, p, ts, new) ==
  /\ counted = CountDown(lst)
  /\ p = Later(counted, 0)
  /\ ts = [i \in 1 .. p - 1 |-> counted[i].timer]
  /\ new = Restarted(SubSeq(counted, p, Len(counted)), ts)

(* Those that expire with a tick are at the front of the list, each once;  *)
(* the periodic ones go back with their periods, and the others come one   *)
(* tick nearer.                                                            *)
LEMMA TickDue ==
  ASSUME NEW lst, Pending(lst), lst # << >>,
         \A t \in Timers : Due(lst, t) # 0 => icnt[t] \in Nat \ {0},
         NEW counted, NEW p, NEW ts, NEW new, Ticks(lst, counted, p, ts, new)
  PROVE  /\ p \in Nat \ {0} /\ ts \in Seq(Timers) /\ Len(ts) = p - 1
         /\ \A i, j \in 1 .. p - 1 : ts[i] = ts[j] => i = j
         /\ \A u : (\E i \in 1 .. p - 1 : ts[i] = u) <=> Due(lst, u) = 1
         /\ Pending(new)
         /\ \A u : Due(new, u) =
              IF Due(lst, u) = 1 THEN IF u \in Periodic THEN icnt[u] ELSE 0
              ELSE IF Due(lst, u) > 1 THEN Due(lst, u) - 1 ELSE 0
<1>1. /\ WellFormed(lst) /\ \A u, d : Expires(lst, u, d) <=> d # 0 /\ d = Due(lst, u)
      /\ \A u : Due(lst, u) \in Nat /\ (u \notin Timers => Due(lst, u) = 0)
  BY DueMeaning DEF Pending
<1>2. lst \in Seq(Entry) /\ Len(lst) \in Nat /\ DOMAIN lst = 1 .. Len(lst) /\ 1 \in 1 .. Len(lst)
  <2>1. lst \in Seq(Entry) /\ Len(lst) \in Nat /\ DOMAIN lst = 1 .. Len(lst)
    BY <1>1, Entries DEF WellFormed
  <2>2. Len(lst) # 0
    BY <2>1, EmptySeq
  <2> QED BY <2>1, <2>2
<1>3. \A i \in 1 .. Len(lst) : Expiries(lst)[i] \in Nat \ {0}
  <2>1. \A i \in 1 .. Len(lst) : i \in 0 .. Len(lst) /\ Expires(lst, lst[i].timer, Expiries(lst)[i])
    BY <1>2 DEF Expires
  <2> QED BY <1>1, <1>2, <2>1, ExpiriesOrder
<1>4. lst[1].tcnt # 0
  <2>1. Expiries(lst)[1] = Expiries(lst)[1 - 1] + lst[1].tcnt /\ Expiries(lst)[0] = 0
    BY <1>2, ExpiriesDef
  <2>2. lst[1].tcnt \in Nat
    BY <1>2, Entries
  <2> QED BY <1>2, <1>3, <2>1, <2>2
<1>5. /\ WellFormed(counted) /\ Len(counted) = Len(lst)
      /\ \A i \in 1 .. Len(lst) : /\ counted[i].timer = lst[i].timer
                                  /\ Expiries(counted)[i] = Expiries(lst)[i] - 1
  BY <1>1, <1>2, <1>4, CountExpires DEF Ticks
<1>6. counted \in Seq(Entry) /\ DOMAIN counted = 1 .. Len(lst)
      /\ \A i \in 1 .. Len(lst) : counted[i].timer \in Timers
  BY <1>5, Entries DEF WellFormed
<1>7. \A u, d : Expires(counted, u, d) <=> d \in Nat /\ d + 1 = Due(lst, u)
  <2>1. ASSUME NEW u, NEW d, Expires(counted, u, d) PROVE d \in Nat /\ d + 1 = Due(lst, u)
    <3>1. PICK i \in 1 .. Len(lst) : counted[i].timer = u /\ Expiries(counted)[i] = d
      BY <1>6, <2>1 DEF Expires
    <3>2. d = Expiries(lst)[i] - 1 /\ Expires(lst, u, Expiries(lst)[i])
      BY <1>2, <1>5, <3>1 DEF Expires
    <3>3. Expiries(lst)[i] \in Nat \ {0} /\ Expiries(lst)[i] = Due(lst, u)
      BY <1>1, <1>3, <3>2
    <3> QED BY <3>2, <3>3
  <2>2. ASSUME NEW u, NEW d \in Nat, d + 1 = Due(lst, u) PROVE Expires(counted, u, d)
    <3>1. Expires(lst, u, d + 1)
      BY <1>1, <2>2
    <3>2. PICK i \in 1 .. Len(lst) : lst[i].timer = u /\ Expiries(lst)[i] = d + 1
      BY <1>2, <3>1 DEF Expires
    <3>3. counted[i].timer = u /\ Expiries(counted)[i] = d
      BY <1>5, <3>2
    <3> QED BY <1>6, <3>3 DEF Expires
  <2> QED BY <2>1, <2>2
<1>8. /\ p \in 1 .. Len(lst) + 1
      /\ \A i \in 1 .. p - 1 : i \in 1 .. Len(lst) /\ Expiries(counted)[i] = 0
      /\ \A i \in 1 .. Len(lst) : Expiries(counted)[i] = 0 => i \in 1 .. p - 1
  <2>1. /\ p \in 1 .. Len(lst) + 1 /\ \A i \in 0 .. p - 1 : Expiries(counted)[i] <= 0
        /\ \A i \in p .. Len(lst) : Expiries(counted)[i] > 0
    BY <1>5, <1>6, LaterProperties DEF Ticks
  <2>2. \A i \in 1 .. Len(lst) : Expiries(counted)[i] \in Nat
    BY <1>3, <1>5
  <2>3. \A i \in 1 .. p - 1 : i \in 0 .. p - 1 /\ i \in 1 .. Len(lst)
    BY <1>2, <2>1
  <2>4. \A i \in 1 .. Len(lst) : i \in p .. Len(lst) \/ i \in 1 .. p - 1
    BY <1>2, <2>1
  <2> QED BY <2>1, <2>2, <2>3, <2>4
<1>9. /\ p \in Nat \ {0} /\ ts \in Seq(Timers) /\ Len(ts) = p - 1
      /\ \A i \in 1 .. p - 1 : ts[i] = counted[i].timer
  <2>1. p \in Nat \ {0} /\ p - 1 \in Nat
    BY <1>2, <1>8
  <2>2. \A i \in 1 .. p - 1 : counted[i].timer \in Timers
    BY <1>6, <1>8
  <2>3. ts = [i \in 1 .. p - 1 |-> counted[i].timer]
    BY DEF Ticks
  <2> QED BY <2>1, <2>2, <2>3
<1>10. \A i, j \in 1 .. p - 1 : ts[i] = ts[j] => i = j
  BY <1>5, <1>6, <1>8, <1>9 DEF WellFormed
<1>11. \A u : (\E i \in 1 .. p - 1 : ts[i] = u) <=> Expires(counted, u, 0)
  BY <1>6, <1>8, <1>9 DEF Expires
<1>12. \A u : Expires(counted, u, 0) <=> Due(lst, u) = 1
  BY <1>7
<1> DEFINE rest == SubSeq(counted, p, Len(counted))
<1>13. /\ WellFormed(rest)
       /\ \A u, d : Expires(rest, u, d) <=> d # 0 /\ Expires(counted, u, d)
  <2>1. p = Later(counted, 0) /\ rest = SubSeq(counted, p, Len(counted))
    BY DEF Ticks
  <2> HIDE DEF rest
  <2> QED BY <1>5, <2>1, RestExpires
<1>14. /\ WellFormed(new)
       /\ \A u, d : Expires(new, u, d) <=>
            \/ Expires(rest, u, d)
            \/ u \in Periodic /\ d = icnt[u] /\ \E i \in 1 .. Len(ts) : ts[i] = u
  <2>1. \A i \in 1 .. Len(ts) : icnt[ts[i]] \in Nat /\ \A d : ~Expires(rest, ts[i], d)
    <3>1. ASSUME NEW i \in 1 .. Len(ts) PROVE Due(lst, ts[i]) = 1
      BY <1>9, <1>11, <1>12
    <3>2. \A i \in 1 .. Len(ts) : ts[i] \in Timers
      BY <1>9, ElementOfSeq
    <3>3. \A i \in 1 .. Len(ts) : \A d : ~Expires(rest, ts[i], d)
      BY <1>7, <1>13, <3>1
    <3> QED BY <3>1, <3>2, <3>3
  <2>2. new = Restarted(rest, ts)
    BY DEF Ticks
  <2>3. ts \in Seq(Timers) /\ \A i, j \in 1 .. Len(ts) : ts[i] = ts[j] => i = j
    BY <1>9, <1>10
  <2> HIDE DEF rest
  <2>4. WellFormed(rest)
    BY <1>13
  <2> QED BY <2>1, <2>2, <2>3, <2>4, RestartedExpires
<1> HIDE DEF rest
<1>15. \A u, d : Expires(new, u, d) <=>
            \/ d \in Nat \ {0} /\ d + 1 = Due(lst, u)
            \/ u \in Periodic /\ d = icnt[u] /\ Due(lst, u) = 1
  BY <1>7, <1>9, <1>11, <1>12, <1>13, <1>14
<1>16. Pending(new)
  <2>1. ASSUME NEW u, Expires(new, u, 0) PROVE FALSE
    <3>1. u \in Periodic /\ icnt[u] = 0 /\ Due(lst, u) = 1
      BY <1>15, <2>1
    <3> QED BY <1>1, <3>1
  <2> QED BY <1>14, <2>1 DEF Pending
<1>17. \A u, d : Expires(new, u, d) <=> d # 0 /\ d = Due(new, u)
  BY <1>16, DueMeaning DEF Pending
<1>18. ASSUME NEW u
       PROVE  Due(new, u) = IF Due(lst, u) = 1 THEN IF u \in Periodic THEN icnt[u] ELSE 0
                            ELSE IF Due(lst, u) > 1 THEN Due(lst, u) - 1 ELSE 0
  <2>1. CASE Due(lst, u) = 1 /\ u \in Periodic
    <3>1. Expires(new, u, icnt[u])
      BY <1>15, <2>1
    <3> QED BY <1>17, <2>1, <3>1
  <2>2. CASE Due(lst, u) = 1 /\ u \notin Periodic
    <3>1. \A d : ~Expires(new, u, d)
      BY <1>15, <2>2
    <3> QED BY <1>17, <2>2, <3>1
  <2>3. CASE Due(lst, u) > 1
    <3>1. Due(lst, u) - 1 \in Nat \ {0} /\ (Due(lst, u) - 1) + 1 = Due(lst, u) /\ Due(lst, u) # 1
      BY <1>1, <2>3
    <3>2. Expires(new, u, Due(lst, u) - 1)
      BY <1>15, <3>1
    <3>3. Due(lst, u) - 1 = Due(new, u)
      BY <1>17, <3>2
    <3> QED BY <2>3, <3>1, <3>3
  <2>4. CASE Due(lst, u) = 0
    <3>1. \A d : ~Expires(new, u, d)
      BY <1>15, <2>4
    <3> QED BY <1>17, <2>4, <3>1
  <2> QED BY <1>1, <2>1, <2>2, <2>3, <2>4
<1> QED BY <1>9, <1>10, <1>11, <1>12, <1>16, <1>18

(* Steps.                                                                  *)

(* The invariant with what a caller sees of it.                            *)
LEMMA ListedNow ==
  ASSUME Listed(list, state, icnt)
  PROVE  /\ Pending(list) /\ \A t \in Timers : due[t] = Due(list, t) /\ due[t] \in 0 .. MaxTicks
         /\ due \in [Timers -> Nat] /\ DOMAIN state = Timers /\ DOMAIN icnt = Timers
         /\ \A t \in Timers : state[t] = "osTimerRunning" <=> due[t] # 0
         /\ \A t \in Timers : due[t] # 0 => icnt[t] \in 1 .. MaxTicks
<1>1. /\ WellFormed(list)
      /\ \A u : ~Expires(list, u, 0) /\ Due(list, u) <= MaxTicks
      /\ state \in [Timers -> {"osTimerInvalid", "osTimerStopped", "osTimerRunning"}]
      /\ icnt \in [Timers -> 0 .. MaxTicks]
      /\ \A t \in Timers : state[t] = "osTimerRunning" <=> Due(list, t) # 0
      /\ \A t \in Timers : state[t] = "osTimerRunning" => icnt[t] # 0
  BY ListedMeaning
<1>2. \A u : Due(list, u) \in Nat
  BY <1>1, DueMeaning
<1>3. \A t \in Timers : due[t] = Due(list, t)
  BY DEF due
<1>4. due \in [Timers -> Nat]
  BY <1>2 DEF due
<1>5. \A t \in Timers : due[t] # 0 => icnt[t] \in 1 .. MaxTicks
  <2>1. \A t \in Timers : icnt[t] \in 0 .. MaxTicks
    BY <1>1
  <2> QED BY <1>1, <1>3, <2>1, MaxTicksAssumption
<1> QED BY <1>1, <1>2, <1>3, <1>4, <1>5, MaxTicksAssumption DEF Pending

(* A step changes what expires when, and keeps the invariant, if it        *)
(* changes the list and the states accordingly.                            *)
LEMMA ListedNext ==
  ASSUME Pending(list'),
         NEW d \in [Timers -> 0 .. MaxTicks], \A u \in Timers : Due(list', u) = d[u],
         state' \in [Timers -> {"osTimerInvalid", "osTimerStopped", "osTimerRunning"}],
         icnt' \in [Timers -> 0 .. MaxTicks],
         \A t \in Timers : (state'[t] = "osTimerRunning" <=> d[t] # 0) /\ (d[t] # 0 => icnt'[t] # 0)
  PROVE  Listed(list, state, icnt)' /\ due' = d
<1>1. \A u : Due(list', u) <= MaxTicks
  <2>1. \A u \in Timers : Due(list', u) <= MaxTicks
    BY MaxTicksAssumption
  <2>2. \A u : u \notin Timers => Due(list', u) = 0
    BY DueMeaning DEF Pending
  <2> QED BY <2>1, <2>2, MaxTicksAssumption
<1>2. Listed(list', state', icnt')
  BY <1>1, ListedMeaning DEF Pending
<1>3. due' = d
  BY DEF due
<1> QED BY <1>2, <1>3

Untouched == UNCHANGED <<os_psq, threadVars, failed>>

(* What a caller of the service calls sees of the queue does not change.   *)
LEMMA UntouchedQueue == Untouched => queue' = queue /\ failed' = failed
BY DEF Untouched, threadVars, queue

(* svcTimerCreate.                                                         *)
LEMMA CreateStep ==
  ASSUME Listed(list, state, icnt), NEW t \in Timers, svcTimerCreate(t), Untouched
  PROVE  Listed(list, state, icnt)' /\ Service!Create(t)
<1>1. /\ list' = list /\ icnt' = icnt /\ state[t] = "osTimerInvalid"
      /\ state' = [state EXCEPT ![t] = "osTimerStopped"]
  BY DEF svcTimerCreate
<1>2. state \in [Timers -> {"osTimerInvalid", "osTimerStopped", "osTimerRunning"}]
  BY DEF Listed
<1>3. Listed(list, state, icnt)'
  BY <1>1, <1>2 DEF Listed
<1>4. due' = due
  BY <1>1 DEF due
<1>5. t \notin exists /\ exists' = exists \cup {t}
  BY <1>1, <1>2 DEF exists
<1> QED BY <1>1, <1>3, <1>4, <1>5, UntouchedQueue DEF Service!Create

(* svcTimerStart: a running timer is taken out of the list and put back.   *)
LEMMA StartStep ==
  ASSUME Listed(list, state, icnt), NEW t \in Timers, NEW n \in 1 .. MaxTicks,
         svcTimerStart(t, n), Untouched
  PROVE  Listed(list, state, icnt)' /\ Service!Start(t, n)
<1> DEFINE d == [due EXCEPT ![t] = n]
<1>1. /\ Pending(list) /\ \A u \in Timers : due[u] = Due(list, u) /\ due[u] \in 0 .. MaxTicks
      /\ due \in [Timers -> Nat]
      /\ \A u \in Timers : state[u] = "osTimerRunning" <=> due[u] # 0
      /\ \A u \in Timers : due[u] # 0 => icnt[u] \in 1 .. MaxTicks
  BY ListedNow
<1>2. /\ state \in [Timers -> {"osTimerInvalid", "osTimerStopped", "osTimerRunning"}]
      /\ icnt \in [Timers -> 0 .. MaxTicks]
  BY DEF Listed
<1>3. n \in Nat \ {0} /\ n \in 0 .. MaxTicks /\ n # 0
  BY MaxTicksAssumption
<1>4. d \in [Timers -> 0 .. MaxTicks]
  BY <1>1, <1>3
<1>5. CASE state[t] = "osTimerRunning"
  <2>1. list' = rt_timer_insert(rt_timer_remove(list, t), t, n) /\ state' = state /\ icnt' = icnt
    BY <1>5 DEF svcTimerStart
  <2>2. PICK mid : mid = rt_timer_remove(list, t)
    OBVIOUS
  <2>3. Pending(mid) /\ \A u : Due(mid, u) = IF u = t THEN 0 ELSE Due(list, u)
    BY <1>1, <1>5, <2>2, RemoveDue
  <2>4. Pending(list') /\ \A u : Due(list', u) = IF u = t THEN n ELSE Due(mid, u)
    BY <1>3, <2>1, <2>2, <2>3, InsertDue
  <2>5. \A u \in Timers : Due(list', u) = d[u]
    BY <1>1, <2>3, <2>4
  <2>6. \A u \in Timers : (state'[u] = "osTimerRunning" <=> d[u] # 0) /\ (d[u] # 0 => icnt'[u] # 0)
    BY <1>1, <1>3, <1>5, <2>1
  <2> HIDE DEF d
  <2>7. Listed(list, state, icnt)' /\ due' = d
    BY <1>2, <1>4, <2>1, <2>4, <2>5, <2>6, ListedNext
  <2>8. icnt' = [icnt EXCEPT ![t] = IF due[t] = 0 THEN n ELSE @]
    BY <1>1, <1>2, <1>5, <2>1
  <2>9. t \in exists /\ exists' = exists
    BY <1>5, <2>1 DEF exists
  <2> QED BY <2>7, <2>8, <2>9, UntouchedQueue DEF Service!Start, d
<1>6. CASE state[t] = "osTimerStopped"
  <2>1. /\ list' = rt_timer_insert(list, t, n) /\ state' = [state EXCEPT ![t] = "osTimerRunning"]
        /\ icnt' = [icnt EXCEPT ![t] = n]
    BY <1>6 DEF svcTimerStart
  <2>2. due[t] = 0 /\ Due(list, t) = 0
    BY <1>1, <1>6
  <2>3. Pending(list') /\ \A u : Due(list', u) = IF u = t THEN n ELSE Due(list, u)
    BY <1>1, <1>3, <2>1, <2>2, InsertDue
  <2>4. \A u \in Timers : Due(list', u) = d[u]
    BY <1>1, <2>3
  <2>5. /\ state' \in [Timers -> {"osTimerInvalid", "osTimerStopped", "osTimerRunning"}]
        /\ icnt' \in [Timers -> 0 .. MaxTicks]
    BY <1>2, <1>3, <2>1
  <2>6. \A u \in Timers : state'[u] = "osTimerRunning" <=> d[u] # 0
    BY <1>1, <1>2, <1>3, <2>1
  <2>7. \A u \in Timers : d[u] # 0 => icnt'[u] # 0
    BY <1>1, <1>2, <1>3, <2>1
  <2> HIDE DEF d
  <2>8. Listed(list, state, icnt)' /\ due' = d
    BY <1>4, <2>3, <2>4, <2>5, <2>6, <2>7, ListedNext
  <2>9. icnt' = [icnt EXCEPT ![t] = IF due[t] = 0 THEN n ELSE @]
    BY <2>1, <2>2
  <2>10. t \in exists /\ exists' = exists
    BY <1>2, <1>6, <2>1 DEF exists
  <2> QED BY <2>8, <2>9, <2>10, UntouchedQueue DEF Service!Start, d
<1> QED BY <1>5, <1>6 DEF svcTimerStart

(* svcTimerStop.                                                           *)
LEMMA StopStep ==
  ASSUME Listed(list, state, icnt), NEW t \in Timers, svcTimerStop(t), Untouched
  PROVE  Listed(list, state, icnt)' /\ Service!Stop(t)
<1> DEFINE d == [due EXCEPT ![t] = 0]
<1>1. /\ Pending(list) /\ \A u \in Timers : due[u] = Due(list, u) /\ due[u] \in 0 .. MaxTicks
      /\ due \in [Timers -> Nat]
      /\ \A u \in Timers : state[u] = "osTimerRunning" <=> due[u] # 0
      /\ \A u \in Timers : due[u] # 0 => icnt[u] \in 1 .. MaxTicks
  BY ListedNow
<1>2. /\ state \in [Timers -> {"osTimerInvalid", "osTimerStopped", "osTimerRunning"}]
      /\ icnt \in [Timers -> 0 .. MaxTicks]
  BY DEF Listed
<1>3. /\ state[t] = "osTimerRunning" /\ state' = [state EXCEPT ![t] = "osTimerStopped"]
      /\ list' = rt_timer_remove(list, t) /\ icnt' = icnt
  BY DEF svcTimerStop
<1>4. d \in [Timers -> 0 .. MaxTicks]
  BY <1>1, MaxTicksAssumption
<1>5. Pending(list') /\ \A u : Due(list', u) = IF u = t THEN 0 ELSE Due(list, u)
  BY <1>1, <1>3, RemoveDue
<1>6. \A u \in Timers : Due(list', u) = d[u]
  BY <1>1, <1>5
<1>7. state' \in [Timers -> {"osTimerInvalid", "osTimerStopped", "osTimerRunning"}]
  BY <1>2, <1>3
<1>8. \A u \in Timers : (state'[u] = "osTimerRunning" <=> d[u] # 0) /\ (d[u] # 0 => icnt'[u] # 0)
  BY <1>1, <1>2, <1>3
<1> HIDE DEF d
<1>9. Listed(list, state, icnt)' /\ due' = d
  BY <1>2, <1>3, <1>4, <1>5, <1>6, <1>7, <1>8, ListedNext
<1>10. t \in exists /\ exists' = exists
  BY <1>2, <1>3 DEF exists
<1> QED BY <1>3, <1>9, <1>10, UntouchedQueue DEF Service!Stop, d

(* svcTimerDelete.                                                         *)
LEMMA DeleteStep ==
  ASSUME Listed(list, state, icnt), NEW t \in Timers, svcTimerDelete(t), Untouched
  PROVE  Listed(list, state, icnt)' /\ Service!Delete(t)
<1> DEFINE d == [due EXCEPT ![t] = 0]
<1>1. /\ Pending(list) /\ \A u \in Timers : due[u] = Due(list, u) /\ due[u] \in 0 .. MaxTicks
      /\ due \in [Timers -> Nat]
      /\ \A u \in Timers : state[u] = "osTimerRunning" <=> due[u] # 0
      /\ \A u \in Timers : due[u] # 0 => icnt[u] \in 1 .. MaxTicks
  BY ListedNow
<1>2. /\ state \in [Timers -> {"osTimerInvalid", "osTimerStopped", "osTimerRunning"}]
      /\ icnt \in [Timers -> 0 .. MaxTicks]
  BY DEF Listed
<1>3. /\ state' = [state EXCEPT ![t] = "osTimerInvalid"] /\ icnt' = icnt
      /\ list' = IF state[t] = "osTimerRunning" THEN rt_timer_remove(list, t) ELSE list
  BY DEF svcTimerDelete
<1>4. d \in [Timers -> 0 .. MaxTicks]
  BY <1>1, MaxTicksAssumption
<1>5. Pending(list') /\ \A u \in Timers : Due(list', u) = d[u]
  <2>1. CASE state[t] = "osTimerRunning"
    <3>1. Pending(list') /\ \A u : Due(list', u) = IF u = t THEN 0 ELSE Due(list, u)
      BY <1>1, <1>3, <2>1, RemoveDue
    <3> QED BY <1>1, <3>1
  <2>2. CASE state[t] # "osTimerRunning"
    BY <1>1, <1>3, <2>2
  <2> QED BY <2>1, <2>2
<1>6. state' \in [Timers -> {"osTimerInvalid", "osTimerStopped", "osTimerRunning"}]
  BY <1>2, <1>3
<1>7. \A u \in Timers : (state'[u] = "osTimerRunning" <=> d[u] # 0) /\ (d[u] # 0 => icnt'[u] # 0)
  BY <1>1, <1>2, <1>3
<1> HIDE DEF d
<1>8. Listed(list, state, icnt)' /\ due' = d
  BY <1>2, <1>3, <1>4, <1>5, <1>6, <1>7, ListedNext
<1>9. exists' = exists \ {t}
  BY <1>2, <1>3 DEF exists
<1> QED BY <1>3, <1>8, <1>9, UntouchedQueue DEF Service!Delete, d

(* A sequence without repetition is one of those of its set of elements.   *)
LEMMA OrderOfSet ==
  ASSUME NEW S, NEW s \in Seq(Timers), NEW n, n = Len(s),
         \A i, j \in 1 .. n : s[i] = s[j] => i = j,
         \A u : u \in S <=> \E i \in 1 .. n : s[i] = u
  PROVE  IsFiniteSet(S) /\ Cardinality(S) = n /\ s \in SetToSeqs(S)
<1>1. n \in Nat /\ s \in [1 .. n -> S]
  <2>1. n \in Nat /\ s = [i \in 1 .. n |-> s[i]]
    BY LenProperties
  <2> QED BY <2>1
<1>2. s \in Bijection(1 .. n, S)
  BY <1>1 DEF Bijection, Injection, Surjection, IsInjective
<1>3. IsFiniteSet(1 .. n) /\ Cardinality(1 .. n) = n
  <2>1. 1 \in Int /\ n \in Int
    BY <1>1
  <2>2. IsFiniteSet(1 .. n) /\ Cardinality(1 .. n) = IF 1 > n THEN 0 ELSE n - 1 + 1
    BY <2>1, FS_Interval, Zenon
  <2> QED BY <1>1, <2>2
<1>4. IsFiniteSet(S) /\ Cardinality(S) = n
  <2>1. ExistsBijection(1 .. n, S)
    BY <1>2 DEF ExistsBijection
  <2> QED BY <1>3, <2>1, FS_Bijection
<1>5. s \in SetToSeqs(S)
  BY <1>1, <1>4 DEF SetToSeqs
<1> QED BY <1>4, <1>5

(* Only timers of the list can be due: they are finitely many.             *)
LEMMA ExpiringFinite ==
  ASSUME Listed(list, state, icnt)
  PROVE  Cardinality(Service!Expiring) \in Nat
<1>1. list \in Seq(Entry)
  BY DEF Listed, WellFormed
<1>2. Len(list) \in Nat /\ DOMAIN list = 1 .. Len(list)
  BY <1>1, Entries
<1> DEFINE S == {t \in Timers : \E i \in DOMAIN list : list[i].timer = t}
           f == [i \in DOMAIN list |-> list[i].timer]
<1>3. IsFiniteSet(DOMAIN list)
  <2>1. 1 \in Int /\ Len(list) \in Int
    BY <1>2
  <2> QED BY <1>2, <2>1, FS_Interval
<1>4. f \in Surjection(DOMAIN list, S)
  <2>1. \A i \in DOMAIN list : list[i].timer \in Timers
    BY <1>1, Entries
  <2> QED BY <2>1 DEF Surjection
<1>5. IsFiniteSet(S)
  <2> HIDE DEF f, S
  <2> QED BY <1>3, <1>4, FS_Surjection
<1>6. Service!Expiring \subseteq S
  <2>1. \A t \in Timers : due[t] = 1 => state[t] = "osTimerRunning"
    BY ListedNow
  <2> QED BY <2>1 DEF Service!Expiring, Listed
<1> QED BY <1>5, <1>6, FS_Subset, FS_CardinalityType

(* Numbers of elements and orders are the same in the service.             *)
LEMMA ServiceSets ==
  ASSUME NEW S
  PROVE  Service!Cardinality(S) = Cardinality(S) /\ Service!SetToSeqs(S) = SetToSeqs(S)
<1>1. Service!Cardinality(S) = Cardinality(S)
  BY Zenon DEF Service!Cardinality, Cardinality
<1>2. Service!SetToSeqs(S) = SetToSeqs(S)
  BY <1>1 DEF Service!SetToSeqs, SetToSeqs
<1> QED BY <1>1, <1>2

(* What the parts of the queue are, and the callbacks to be called.        *)
LEMMA QueueParts ==
  ASSUME QueueInv
  PROVE  /\ handed \in Seq(Timers) /\ msg \in Seq(Timers) /\ os_psq \in Seq(Timers)
         /\ Len(handed) \in Nat /\ Len(msg) \in Nat /\ Len(os_psq) \in Nat
         /\ queue \in Seq(Timers) /\ Len(queue) = Len(handed) + Len(msg) + Len(os_psq)
<1>1. handed \in Seq(Timers) /\ msg \in Seq(Timers) /\ os_psq \in Seq(Timers)
  <2>1. msg \in Seq(Timers) /\ os_psq \in Seq(Timers)
    BY DEF QueueInv
  <2>2. << >> \in Seq(Timers) /\ \A t \in Timers : <<t>> \in Seq(Timers)
    OBVIOUS
  <2>3. handed = << >> \/ \E t \in Timers : handed = <<t>>
    BY DEF QueueInv
  <2> QED BY <2>1, <2>2, <2>3
<1>2. /\ handed \o msg \in Seq(Timers)
      /\ Len(handed \o msg) = Len(handed) + Len(msg)
  BY <1>1, ConcatProperties
<1>3. /\ (handed \o msg) \o os_psq \in Seq(Timers)
      /\ Len((handed \o msg) \o os_psq) = Len(handed \o msg) + Len(os_psq)
  BY <1>1, <1>2, ConcatProperties
<1> QED BY <1>1, <1>2, <1>3, LenProperties DEF queue

(* os_error is called with more callbacks waiting than the queue can hold. *)
LEMMA TickStep ==
  ASSUME IInv, sysTimerTick
  PROVE  IInv' /\ (Service!Tick \/ Service!GiveUp)
<1> DEFINE counted == CountDown(list)
           p       == Later(counted, 0)
           ts      == [i \in 1 .. p - 1 |-> counted[i].timer]
           new     == Restarted(SubSeq(counted, p, Len(counted)), ts)
<1>1. Ticks(list, counted, p, ts, new)
  BY DEF Ticks
<1>2. list # << >> /\ os_psq = << >>
  BY DEF sysTimerTick
<1>3. \/ p > 1 /\ Len(msg) = QueueSize /\ os_error
      \/ /\ list' = new
         /\ state' = [t \in Timers |-> IF t \in Range(ts) \ Periodic
                                       THEN "osTimerStopped" ELSE state[t]]
         /\ os_psq' = ts /\ UNCHANGED <<icnt, threadVars, failed>>
  BY DEF sysTimerTick, CountDown
<1> HIDE DEF counted, p, ts, new
<1>4. /\ Pending(list) /\ \A t \in Timers : due[t] = Due(list, t) /\ due[t] \in 0 .. MaxTicks
      /\ due \in [Timers -> Nat]
      /\ \A t \in Timers : state[t] = "osTimerRunning" <=> due[t] # 0
      /\ \A t \in Timers : due[t] # 0 => icnt[t] \in 1 .. MaxTicks
  BY ListedNow DEF IInv
<1>5. /\ state \in [Timers -> {"osTimerInvalid", "osTimerStopped", "osTimerRunning"}]
      /\ icnt \in [Timers -> 0 .. MaxTicks] /\ QueueInv
  BY DEF IInv, Listed
<1>6. /\ p \in Nat \ {0} /\ ts \in Seq(Timers) /\ Len(ts) = p - 1
      /\ \A i, j \in 1 .. p - 1 : ts[i] = ts[j] => i = j
      /\ \A u : (\E i \in 1 .. p - 1 : ts[i] = u) <=> Due(list, u) = 1
      /\ Pending(new)
      /\ \A u : Due(new, u) =
           IF Due(list, u) = 1 THEN IF u \in Periodic THEN icnt[u] ELSE 0
           ELSE IF Due(list, u) > 1 THEN Due(list, u) - 1 ELSE 0
  <2>1. \A t \in Timers : Due(list, t) # 0 => icnt[t] \in Nat \ {0}
    BY <1>4, MaxTicksAssumption
  <2> QED BY <1>1, <1>2, <1>4, <2>1, TickDue
<1>7. DOMAIN ts = 1 .. p - 1 /\ \A i \in 1 .. p - 1 : ts[i] \in Timers
  BY <1>6, LenProperties, ElementOfSeq
<1>8. \A u : u \in Service!Expiring <=> \E i \in 1 .. p - 1 : ts[i] = u
  <2>1. \A u : u \in Service!Expiring <=> u \in Timers /\ due[u] = 1
    BY DEF Service!Expiring
  <2>2. \A u : (\E i \in 1 .. p - 1 : ts[i] = u) => u \in Timers
    BY <1>7
  <2> QED BY <1>4, <1>6, <2>1, <2>2
<1>9. /\ Service!Cardinality(Service!Expiring) = p - 1
      /\ ts \in Service!SetToSeqs(Service!Expiring)
  <2>1. PICK S : S = Service!Expiring
    OBVIOUS
  <2>2. ts \in Seq(Timers) /\ p - 1 = Len(ts) /\ \A i, j \in 1 .. p - 1 : ts[i] = ts[j] => i = j
    BY <1>6
  <2>3. \A u : u \in S <=> \E i \in 1 .. p - 1 : ts[i] = u
    BY <1>8, <2>1
  <2>4. Cardinality(S) = p - 1 /\ ts \in SetToSeqs(S)
    BY <2>2, <2>3, OrderOfSet
  <2> QED BY <2>1, <2>4, ServiceSets
<1>10. CASE p > 1 /\ Len(msg) = QueueSize /\ os_error
  <2>1. UNCHANGED <<timerVars, os_psq, threadVars>> /\ failed' = TRUE
    BY <1>10 DEF os_error
  <2>2. IInv'
    BY <1>5, <2>1 DEF IInv, Listed, QueueInv, timerVars, threadVars
  <2>3. exists' = exists /\ due' = due /\ icnt' = icnt /\ queue' = queue
    BY <2>1 DEF exists, due, queue, timerVars, threadVars
  <2>4. Len(queue) + (p - 1) > QueueSize
    <3>1. /\ Len(queue) = Len(handed) + Len(msg) + Len(os_psq)
          /\ Len(handed) \in Nat /\ Len(msg) \in Nat /\ Len(os_psq) \in Nat
      BY <1>5, QueueParts
    <3> QED BY <1>6, <1>10, <3>1, QueueSizeAssumption
  <2>5. Service!GiveUp
    BY <1>9, <2>1, <2>3, <2>4 DEF Service!GiveUp
  <2> QED BY <2>2, <2>5
<1>11. CASE /\ list' = new
            /\ state' = [t \in Timers |-> IF t \in Range(ts) \ Periodic
                                          THEN "osTimerStopped" ELSE state[t]]
            /\ os_psq' = ts /\ UNCHANGED <<icnt, threadVars, failed>>
  <2> DEFINE d == [t \in Timers |->
                     IF due[t] = 1 THEN IF t \in Periodic THEN icnt[t] ELSE 0
                     ELSE IF due[t] > 1 THEN due[t] - 1 ELSE 0]
  <2>1. \A t \in Timers : t \in Range(ts) <=> due[t] = 1
    BY <1>4, <1>6, <1>7 DEF Range
  <2>2. state' = [t \in Timers |-> IF due[t] = 1 /\ t \notin Periodic
                                  THEN "osTimerStopped" ELSE state[t]]
    BY <1>11, <2>1
  <2>3. d \in [Timers -> 0 .. MaxTicks]
    <3>1. \A t \in Timers : icnt[t] \in 0 .. MaxTicks /\ due[t] \in 0 .. MaxTicks
      BY <1>4, <1>5
    <3>2. \A t \in Timers : d[t] \in 0 .. MaxTicks
      BY <3>1, MaxTicksAssumption
    <3> QED BY <3>2
  <2>4. \A t \in Timers : Due(list', t) = d[t]
    BY <1>4, <1>6, <1>11
  <2>5. Pending(list') /\ icnt' = icnt
    BY <1>6, <1>11
  <2>6. state' \in [Timers -> {"osTimerInvalid", "osTimerStopped", "osTimerRunning"}]
    BY <1>5, <2>2
  <2>7. ASSUME NEW t \in Timers
        PROVE  (state'[t] = "osTimerRunning" <=> d[t] # 0) /\ (d[t] # 0 => icnt'[t] # 0)
    <3>1. /\ due[t] \in Nat /\ (state[t] = "osTimerRunning" <=> due[t] # 0)
          /\ due[t] # 0 => icnt[t] # 0
      BY <1>4
    <3>2. d[t] # 0 <=> due[t] > 1 \/ (due[t] = 1 /\ t \in Periodic)
      BY <3>1
    <3>3. state'[t] = IF due[t] = 1 /\ t \notin Periodic THEN "osTimerStopped" ELSE state[t]
      BY <2>2
    <3> HIDE DEF d
    <3> QED BY <2>5, <3>1, <3>2, <3>3
  <2> HIDE DEF d
  <2>8. Listed(list, state, icnt)' /\ due' = d
    BY <1>5, <2>3, <2>4, <2>5, <2>6, <2>7, ListedNext
  <2>9. QueueInv'
    BY <1>5, <1>6, <1>11 DEF QueueInv, threadVars
  <2>10. exists' = exists
    BY <1>4, <1>5, <2>2 DEF exists
  <2>11. queue' = queue \o ts
    <3>1. handed' = handed /\ msg' = msg /\ os_psq' = ts
      BY <1>11 DEF threadVars
    <3>2. handed \o msg \in Seq(Timers) /\ (handed \o msg) \o << >> = handed \o msg
      BY <1>5, QueueParts, ConcatProperties, ConcatEmptySeq
    <3> QED BY <1>2, <3>1, <3>2 DEF queue
  <2>12. Service!Tick
    <3>1. d = [t \in Timers |-> IF t \in Service!Expiring
                                THEN IF t \in Periodic THEN icnt[t] ELSE 0
                                ELSE IF due[t] > 1 THEN due[t] - 1 ELSE 0]
      BY DEF d, Service!Expiring
    <3>2. failed' = failed
      BY <1>11
    <3> QED BY <1>9, <2>5, <2>8, <2>10, <2>11, <3>1, <3>2 DEF Service!Tick
  <2> QED BY <2>8, <2>9, <2>12 DEF IInv
<1> QED BY <1>3, <1>10, <1>11

(* Nothing but the queue changes.                                          *)
LEMMA TimersUntouched ==
  ASSUME Listed(list, state, icnt), UNCHANGED timerVars
  PROVE  Listed(list, state, icnt)' /\ exists' = exists /\ due' = due /\ icnt' = icnt
BY DEF Listed, timerVars, exists, due

(* A message handed to the thread or stored stays in its place.            *)
LEMMA PendSVStep ==
  ASSUME IInv, rt_mbx_psh
  PROVE  IInv' /\ (Service!GiveUp \/ UNCHANGED <<exists, due, icnt, queue, failed>>)
<1>1. Listed(list, state, icnt) /\ QueueInv /\ os_psq # << >>
  BY DEF IInv, rt_mbx_psh
<1>2. /\ handed \in Seq(Timers) /\ msg \in Seq(Timers) /\ os_psq \in Seq(Timers)
      /\ Len(handed) \in Nat /\ Len(msg) \in Nat /\ Len(os_psq) \in Nat
      /\ Len(queue) = Len(handed) + Len(msg) + Len(os_psq)
  BY <1>1, QueueParts
<1>3. /\ Head(os_psq) \in Timers /\ Tail(os_psq) \in Seq(Timers)
      /\ os_psq = <<Head(os_psq)>> \o Tail(os_psq)
  BY <1>1, <1>2, HeadAndRest
<1>4. CASE /\ thread = "waits"
           /\ thread' = "runs" /\ handed' = <<Head(os_psq)>> /\ os_psq' = Tail(os_psq)
           /\ UNCHANGED <<timerVars, msg, failed>>
  <2>1. handed = << >> /\ msg = << >>
    BY <1>1, <1>4 DEF QueueInv
  <2>2. QueueInv'
    BY <1>1, <1>3, <1>4 DEF QueueInv
  <2>3. queue' = queue
    <3>1. queue = os_psq
      BY <1>2, <2>1, ConcatEmptySeq DEF queue
    <3>2. handed' \o msg' = <<Head(os_psq)>>
      <4>1. <<Head(os_psq)>> \in Seq(Timers)
        BY <1>3
      <4> QED BY <1>4, <2>1, <4>1, ConcatEmptySeq
    <3> QED BY <1>3, <1>4, <3>1, <3>2 DEF queue
  <2> QED BY <1>1, <1>4, <2>2, <2>3, TimersUntouched DEF IInv
<1>5. CASE thread = "runs" /\ Stored
  <2>1. /\ Len(msg) < QueueSize /\ msg' = Append(msg, Head(os_psq)) /\ os_psq' = Tail(os_psq)
        /\ UNCHANGED <<timerVars, thread, handed, failed>>
    BY <1>5 DEF Stored
  <2>2. msg' = msg \o <<Head(os_psq)>> /\ msg' \in Seq(Timers) /\ Len(msg') = Len(msg) + 1
    BY <1>2, <1>3, <2>1, AppendIsConcat, AppendProperties
  <2>3. Len(msg') <= QueueSize
    BY <1>2, <2>1, <2>2, QueueSizeAssumption
  <2>4. QueueInv'
    BY <1>1, <1>3, <1>5, <2>1, <2>2, <2>3 DEF QueueInv
  <2>5. queue' = queue
    <3>1. <<Head(os_psq)>> \in Seq(Timers)
      BY <1>3
    <3>2. handed \o (msg \o <<Head(os_psq)>>) = (handed \o msg) \o <<Head(os_psq)>>
      BY <1>2, <3>1, ConcatAssociative
    <3>3. ((handed \o msg) \o <<Head(os_psq)>>) \o Tail(os_psq)
            = (handed \o msg) \o (<<Head(os_psq)>> \o Tail(os_psq))
      <4>1. handed \o msg \in Seq(Timers)
        BY <1>2, ConcatProperties
      <4> QED BY <1>3, <3>1, <4>1, ConcatAssociative
    <3> QED BY <1>3, <2>1, <2>2, <3>2, <3>3 DEF queue
  <2> QED BY <1>1, <2>1, <2>4, <2>5, TimersUntouched DEF IInv
<1>6. CASE thread = "runs" /\ Len(msg) = QueueSize /\ os_error
  <2>1. UNCHANGED <<timerVars, os_psq, threadVars>> /\ failed' = TRUE
    BY <1>6 DEF os_error
  <2>2. QueueInv'
    BY <1>1, <2>1 DEF QueueInv, threadVars
  <2>3. exists' = exists /\ due' = due /\ icnt' = icnt /\ Listed(list, state, icnt)'
    BY <1>1, <2>1, TimersUntouched
  <2>4. queue' = queue
    BY <2>1 DEF queue, threadVars
  <2>5. Len(queue) + Service!Cardinality(Service!Expiring) > QueueSize
    <3>1. Cardinality(Service!Expiring) \in Nat
      BY <1>1, ExpiringFinite
    <3>2. Len(os_psq) > 0
      BY <1>1, <1>2, EmptySeq
    <3> QED BY <1>2, <1>6, <3>1, <3>2, ServiceSets, QueueSizeAssumption
  <2>6. Service!GiveUp
    BY <2>1, <2>3, <2>4, <2>5 DEF Service!GiveUp
  <2> QED BY <2>2, <2>3, <2>6 DEF IInv
<1> QED BY <1>4, <1>5, <1>6 DEF rt_mbx_psh

(* The thread calls the callback of the oldest message, or goes to wait    *)
(* when there is none.                                                     *)
LEMMA ThreadStep ==
  ASSUME IInv, osTimerThread
  PROVE  IInv' /\ (Service!Call \/ UNCHANGED <<exists, due, icnt, queue, failed>>)
<1>1. /\ Listed(list, state, icnt) /\ QueueInv /\ os_psq = << >> /\ thread = "runs"
      /\ UNCHANGED timerVars /\ os_psq' = os_psq /\ failed' = failed
  BY DEF IInv, osTimerThread
<1>2. /\ Listed(list, state, icnt)' /\ exists' = exists /\ due' = due /\ icnt' = icnt
  BY <1>1, TimersUntouched
<1>3. handed \in Seq(Timers) /\ msg \in Seq(Timers)
  BY <1>1, QueueParts
<1>4. queue = handed \o msg /\ queue' = handed' \o msg' \o << >>
  <2>1. handed \o msg \in Seq(Timers)
    BY <1>3, ConcatProperties
  <2> QED BY <1>1, <2>1, ConcatEmptySeq DEF queue
<1>5. CASE handed # << >>
  <2>1. handed' = << >> /\ msg' = msg /\ thread' = thread
    BY <1>5 DEF osTimerThread
  <2>2. QueueInv'
    BY <1>1, <2>1 DEF QueueInv
  <2>3. PICK t \in Timers : handed = <<t>>
    BY <1>1, <1>5 DEF QueueInv
  <2>4. queue' = msg
    BY <1>3, <1>4, <2>1, ConcatEmptySeq
  <2>5. queue # << >> /\ Tail(queue) = msg
    BY <1>3, <1>4, <2>3, TailOfFront
  <2> QED BY <1>1, <1>2, <2>2, <2>4, <2>5 DEF IInv, Service!Call
<1>6. CASE handed = << >> /\ msg = << >>
  <2>1. thread' = "waits" /\ msg' = msg /\ handed' = handed
    BY <1>6 DEF osTimerThread, rt_mbx_wait
  <2>2. QueueInv' /\ queue' = queue
    BY <1>1, <1>6, <2>1 DEF QueueInv, queue
  <2> QED BY <1>1, <1>2, <2>2 DEF IInv
<1>7. CASE handed = << >> /\ msg # << >>
  <2>1. msg' = Tail(msg) /\ thread' = thread /\ handed' = handed
    BY <1>7 DEF osTimerThread, rt_mbx_wait
  <2>2. Tail(msg) \in Seq(Timers) /\ Len(Tail(msg)) = Len(msg) - 1 /\ Len(msg) \in Nat
    BY <1>3, <1>7, HeadTailProperties, LenProperties
  <2>3. QueueInv'
    <3>1. Len(msg) <= QueueSize
      BY <1>1 DEF QueueInv
    <3>2. Len(msg') <= QueueSize
      BY <2>1, <2>2, <3>1, QueueSizeAssumption
    <3> QED BY <1>1, <1>7, <2>1, <2>2, <3>2 DEF QueueInv
  <2>4. queue = msg /\ queue' = Tail(msg)
    BY <1>3, <1>4, <1>7, <2>1, <2>2, ConcatEmptySeq
  <2> QED BY <1>1, <1>2, <1>7, <2>3, <2>4 DEF IInv, Service!Call
<1> QED BY <1>5, <1>6, <1>7

(* The initial states.                                                     *)
LEMMA InitStep == Init => IInv /\ Service!ServiceInit
<1> SUFFICES ASSUME Init PROVE IInv /\ Service!ServiceInit
  OBVIOUS
<1>1. /\ list = << >> /\ state = [t \in Timers |-> "osTimerInvalid"]
      /\ icnt = [t \in Timers |-> 0]
      /\ os_psq = << >> /\ msg = << >> /\ handed = << >>
      /\ thread = "runs" /\ failed = FALSE
  BY DEF Init
<1>2. << >> \in Seq(Entry) /\ << >> \in Seq(Timers) /\ Len(<< >>) = 0 /\ DOMAIN << >> = {}
  BY EmptySeq
<1>3. Listed(list, state, icnt)
  <2>1. WellFormed(list)
    BY <1>1, <1>2 DEF WellFormed
  <2>2. 0 \in 0 .. MaxTicks
    BY MaxTicksAssumption
  <2> QED BY <1>1, <1>2, <2>1, <2>2 DEF Listed
<1>4. QueueInv
  <2>1. Len(msg) <= QueueSize
    BY <1>1, <1>2, QueueSizeAssumption
  <2> QED BY <1>1, <1>2, <2>1 DEF QueueInv
<1>5. due = [t \in Timers |-> 0]
  BY <1>1, <1>2 DEF due, Due
<1>6. queue = << >>
  BY <1>1, <1>2, ConcatEmptySeq DEF queue
<1>7. exists = {}
  BY <1>1 DEF exists
<1> QED BY <1>1, <1>3, <1>4, <1>5, <1>6, <1>7 DEF IInv, Service!ServiceInit

(* A supervisor call is the operation of the service it is meant to be.    *)
LEMMA CallStep ==
  ASSUME IInv, NEW t \in Timers, Call(t)
  PROVE  /\ IInv'
         /\ \/ Service!Create(t) \/ Service!Stop(t) \/ Service!Delete(t)
            \/ \E n \in 1 .. MaxTicks : Service!Start(t, n)
<1>1. Listed(list, state, icnt) /\ QueueInv /\ Untouched
  BY DEF IInv, Call, Untouched
<1>2. QueueInv'
  BY <1>1 DEF QueueInv, Untouched, threadVars
<1>3. CASE svcTimerCreate(t)
  BY <1>1, <1>2, <1>3, CreateStep DEF IInv
<1>4. CASE svcTimerStop(t)
  BY <1>1, <1>2, <1>4, StopStep DEF IInv
<1>5. CASE svcTimerDelete(t)
  BY <1>1, <1>2, <1>5, DeleteStep DEF IInv
<1>6. ASSUME NEW n \in 1 .. MaxTicks, svcTimerStart(t, n)
      PROVE  IInv' /\ Service!Start(t, n)
  BY <1>1, <1>2, <1>6, StartStep DEF IInv
<1> QED BY <1>3, <1>4, <1>5, <1>6 DEF Call

(* Every step keeps the invariant and is one of the service, or none.      *)
LEMMA NextStep ==
  ASSUME IInv, [Next]_vars
  PROVE  IInv' /\ [Service!ServiceNext]_(Service!serviceVars)
<1>1. ASSUME UNCHANGED <<exists, due, icnt, queue, failed>>
      PROVE  UNCHANGED Service!serviceVars
  BY <1>1 DEF Service!serviceVars
<1>2. CASE Next
  <2>1. ~failed
    BY <1>2 DEF Next
  <2>2. ASSUME NEW t \in Timers, Call(t) PROVE IInv' /\ Service!ServiceNext
    BY <2>1, <2>2, CallStep DEF Service!ServiceNext
  <2>3. CASE sysTimerTick
    BY <2>1, <2>3, TickStep DEF Service!ServiceNext
  <2>4. CASE rt_mbx_psh
    BY <1>1, <2>1, <2>4, PendSVStep DEF Service!ServiceNext
  <2>5. CASE osTimerThread
    BY <1>1, <2>1, <2>5, ThreadStep DEF Service!ServiceNext
  <2> QED BY <1>2, <2>2, <2>3, <2>4, <2>5 DEF Next
<1>3. CASE UNCHANGED vars
  <2>1. UNCHANGED timerVars /\ Untouched
    BY <1>3 DEF vars, Untouched
  <2>2. Listed(list, state, icnt)' /\ exists' = exists /\ due' = due /\ icnt' = icnt
    BY <2>1, TimersUntouched DEF IInv
  <2>3. QueueInv'
    BY <2>1 DEF IInv, QueueInv, Untouched, threadVars
  <2> QED BY <1>1, <2>1, <2>2, <2>3, UntouchedQueue DEF IInv
<1> QED BY <1>2, <1>3

(* The differences are bounded by the expiries.                            *)
LEMMA TypesFromInvariant == IInv => TypeOK
<1> SUFFICES ASSUME IInv PROVE TypeOK
  OBVIOUS
<1>1. /\ list \in Seq(Entry) /\ \A i \in DOMAIN list : Expiries(list)[i] \in 1 .. MaxTicks
      /\ state \in [Timers -> {"osTimerInvalid", "osTimerStopped", "osTimerRunning"}]
      /\ icnt \in [Timers -> 0 .. MaxTicks]
  BY DEF IInv, Listed, WellFormed
<1>2. /\ Len(list) \in Nat /\ DOMAIN list = 1 .. Len(list)
      /\ \A i \in 1 .. Len(list) :
           /\ list[i].timer \in Timers /\ list[i].tcnt \in Nat
           /\ list[i] = [timer |-> list[i].timer, tcnt |-> list[i].tcnt]
  BY <1>1, Entries
<1>3. \A i \in 1 .. Len(list) : list[i] \in [timer : Timers, tcnt : 0 .. MaxTicks]
  <2> SUFFICES ASSUME NEW i \in 1 .. Len(list)
               PROVE  list[i] \in [timer : Timers, tcnt : 0 .. MaxTicks]
    OBVIOUS
  <2>1. i - 1 \in 0 .. Len(list)
    BY <1>2
  <2>2. Expiries(list)[i - 1] \in Nat
    BY <1>1, <2>1, ExpiriesOrder
  <2>3. Expiries(list)[i] = Expiries(list)[i - 1] + list[i].tcnt
    BY <1>1, ExpiriesDef
  <2>4. Expiries(list)[i] <= MaxTicks /\ Expiries(list)[i] \in Nat
    <3>1. Expiries(list)[i] \in 1 .. MaxTicks
      BY <1>1, <1>2
    <3> QED BY <3>1, MaxTicksAssumption
  <2>5. list[i].tcnt \in 0 .. MaxTicks
    BY <1>2, <2>2, <2>3, <2>4, MaxTicksAssumption
  <2> QED BY <1>2, <2>5
<1>4. list \in Seq([timer : Timers, tcnt : 0 .. MaxTicks])
  <2>1. list \in [1 .. Len(list) -> Entry]
    BY <1>1, LenProperties
  <2>2. list \in [1 .. Len(list) -> [timer : Timers, tcnt : 0 .. MaxTicks]]
    BY <1>3, <2>1
  <2>3. ASSUME NEW E, list \in [1 .. Len(list) -> E] PROVE list \in Seq(E)
    <3>1. list \in UNION {[1 .. n -> E] : n \in Nat}
      BY <1>2, <2>3, Zenon
    <3> QED BY <3>1, SeqDef, Zenon
  <2> QED BY <2>2, <2>3
<1>5. /\ os_psq \in Seq(Timers) /\ msg \in Seq(Timers) /\ Len(msg) <= QueueSize
      /\ thread \in {"runs", "waits"} /\ failed \in BOOLEAN
      /\ handed = << >> \/ \E t \in Timers : handed = <<t>>
  BY DEF IInv, QueueInv
<1>6. handed \in Seq(Timers) /\ Len(handed) <= 1
  <2>1. handed \in Seq(Timers)
    BY QueueParts DEF IInv
  <2>2. CASE handed = << >>
    <3>1. Len(<< >>) = 0
      BY EmptySeq
    <3> QED BY <2>1, <2>2, <3>1
  <2>3. ASSUME NEW t \in Timers, handed = <<t>> PROVE Len(handed) <= 1
    <3>1. Len(<<t>>) = 1
      OBVIOUS
    <3> QED BY <2>3, <3>1
  <2> QED BY <1>5, <2>1, <2>2, <2>3
<1> QED BY <1>1, <1>4, <1>5, <1>6 DEF TypeOK

(* The list of timers and the queue of expiries stay what their types say: *)
(* no tcnt becomes negative when a timer is inserted before another, and   *)
(* none longer than the longest time when one is removed, in lists of      *)
(* every length.                                                           *)
THEOREM TimersTypeCorrect == Spec => []TypeOK
<1>1. IInv /\ [Next]_vars => IInv'
  BY NextStep
<1> QED BY <1>1, InitStep, TypesFromInvariant, PTL DEF Spec

(* To a caller the kernel's list of differences, and its queue in three    *)
(* parts, are timers that each count on their own and one queue of         *)
(* callbacks: every step of the kernel is a step of the service, or none.  *)
THEOREM TimerServiceImplemented == Spec => ImplementsTimerService
<1>1. IInv /\ [Next]_vars => IInv' /\ [Service!ServiceNext]_(Service!serviceVars)
  BY NextStep
<1> QED BY <1>1, InitStep, PTL DEF Spec, ImplementsTimerService, Service!ServiceSpec
==============================================================================
