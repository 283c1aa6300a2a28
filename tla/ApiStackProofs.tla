---------------------------- MODULE ApiStackProofs ----------------------------
(***************************************************************************)
(* What a hook shows answers its parameters, for any number of concurrent  *)
(* calls, any queries and any contents of the alerts table.                *)
(*                                                                         *)
(* First, what the alerts route answers with is honest: filter keeps, in   *)
(* their order, the alerts of a class among the newest rows, and goes on   *)
(* being honest while the table grows.  Then the inductive invariant       *)
(* follows an answer on its way: the request at the server, the call of    *)
(* customFetch it was sent by, the query key that call is registered under *)
(* and the cache entry it ends in all belong to one query.                 *)
(***************************************************************************)
EXTENDS ApiStack, FiniteSetTheorems, SequenceTheorems, WellFoundedInduction, NaturalsInduction,
        TLAPS

\* A set of numbers that is not empty has a smallest one.
LEMMA NatMin ==
    ASSUME NEW S \in SUBSET Nat, S # {}
    PROVE  \E m \in S : \A n \in S : m <= n
<1>1. IsWellFoundedOn(OpToRel(<, Nat), Nat)
  BY NatLessThanWellFounded
<1>2. PICK m \in S : \A n \in S : ~(<<n, m>> \in OpToRel(<, Nat))
  BY <1>1, WFMin
<1>3. \A n \in S : ~(n < m)
  BY <1>2 DEF OpToRel
<1>4. QED
  BY <1>3

-----------------------------------------------------------------------------
(* What filter keeps.  Induction over the list is by a smallest            *)
(* counterexample.                                                         *)

\* The places, up to the k-th, of the alerts of a class.
Upto(alerts, class, k) == {j \in 1 .. k : alerts[j].eventClass = class}

\* kept is filter's account of the first m alerts.
Keeps(kept, alerts, class, m) ==
    kept = [i \in 0 .. m |->
              IF i = 0 THEN <<>>
              ELSE IF alerts[i].eventClass = class THEN Append(kept[i - 1], alerts[i])
              ELSE kept[i - 1]]

LEMMA KeepsExists ==
    ASSUME NEW alerts, NEW class, NEW m \in Nat
    PROVE  \E kept : Keeps(kept, alerts, class, m)
<1> DEFINE Bad == {i \in Nat : ~ \E kept : Keeps(kept, alerts, class, i)}
<1>1. SUFFICES ASSUME Bad # {} PROVE FALSE
  OBVIOUS
<1>2. PICK i \in Bad : \A j \in Bad : i <= j
  BY <1>1, NatMin
<1>3. i # 0
  <2>1. Keeps([j \in 0 .. 0 |-> <<>>], alerts, class, 0)
    BY DEF Keeps
  <2>2. QED
    BY <2>1
<1>4. i \in Nat /\ i - 1 \in Nat /\ i - 1 \notin Bad
  BY <1>2, <1>3
<1>5. PICK f : Keeps(f, alerts, class, i - 1)
  BY <1>4
<1> DEFINE last == IF alerts[i].eventClass = class THEN Append(f[i - 1], alerts[i]) ELSE f[i - 1]
           g == [j \in 0 .. i |-> IF j = i THEN last ELSE f[j]]
<1>6. \A j \in 0 .. i - 1 : g[j] = f[j]
  BY <1>4
<1>7. g[i] = last
  BY <1>4
<1> DEFINE Entry(h, j) == IF j = 0 THEN <<>>
                          ELSE IF alerts[j].eventClass = class THEN Append(h[j - 1], alerts[j])
                          ELSE h[j - 1]
<1>8. \A j \in 0 .. i : g[j] = Entry(g, j)
  <2> SUFFICES ASSUME NEW j \in 0 .. i PROVE g[j] = Entry(g, j)
    OBVIOUS
  <2>1. CASE j = i
    <3>1. g[i - 1] = f[i - 1]
      BY <1>4, <1>6
    <3>2. QED
      BY <1>3, <1>7, <2>1, <3>1
  <2>2. CASE j # i
    <3>1. j \in 0 .. i - 1 /\ g[j] = f[j]
      BY <1>4, <1>6, <2>2
    <3>2. f[j] = Entry(f, j)
      BY <1>5, <3>1 DEF Keeps
    <3>3. j # 0 => g[j - 1] = f[j - 1]
      BY <1>4, <1>6, <3>1
    <3>4. QED
      BY <3>1, <3>2, <3>3
  <2>3. QED
    BY <2>1, <2>2
<1>9. g = [j \in 0 .. i |-> Entry(g, j)]
  <2>1. g = [j \in 0 .. i |-> g[j]]
    OBVIOUS
  <2> HIDE DEF g
  <2>2. QED
    BY <1>8, <2>1
<1>10. Keeps(g, alerts, class, i)
  BY <1>9 DEF Keeps
<1>11. QED
  BY <1>2, <1>10

LEMMA UptoIsFinite ==
    ASSUME NEW alerts, NEW class, NEW k \in Nat
    PROVE  /\ IsFiniteSet(Upto(alerts, class, k))
           /\ Cardinality(Upto(alerts, class, k)) \in Nat
<1>1. IsFiniteSet(1 .. k)
  BY FS_Interval
<1>2. Upto(alerts, class, k) \in SUBSET (1 .. k)
  BY DEF Upto
<1>3. QED
  BY <1>1, <1>2, FS_Subset, FS_CardinalityType

\* One more alert is one more place, or none.
LEMMA UptoNext ==
    ASSUME NEW alerts, NEW class, NEW k \in Nat \ {0}
    PROVE  Cardinality(Upto(alerts, class, k)) =
              Cardinality(Upto(alerts, class, k - 1))
              + (IF alerts[k].eventClass = class THEN 1 ELSE 0)
<1>1. IsFiniteSet(Upto(alerts, class, k - 1)) /\ Cardinality(Upto(alerts, class, k - 1)) \in Nat
  BY UptoIsFinite
<1>2. CASE alerts[k].eventClass = class
  <2>1. Upto(alerts, class, k) = Upto(alerts, class, k - 1) \cup {k}
    BY <1>2 DEF Upto
  <2>2. k \notin Upto(alerts, class, k - 1)
    BY DEF Upto
  <2>3. QED
    BY <1>1, <1>2, <2>1, <2>2, FS_AddElement
<1>3. CASE alerts[k].eventClass # class
  <2>1. Upto(alerts, class, k) = Upto(alerts, class, k - 1)
    BY <1>3 DEF Upto
  <2>2. QED
    BY <1>1, <1>3, <2>1
<1>4. QED
  BY <1>2, <1>3

\* A place of the class is counted among those before any later one.
LEMMA UptoGrows ==
    ASSUME NEW alerts, NEW class, NEW k \in Nat, NEW j \in Upto(alerts, class, k)
    PROVE  Cardinality(Upto(alerts, class, j)) \in 1 .. Cardinality(Upto(alerts, class, k))
<1>1. j \in 1 .. k /\ alerts[j].eventClass = class
  BY DEF Upto
<1>2. Upto(alerts, class, j) \in SUBSET Upto(alerts, class, k)
  BY <1>1 DEF Upto
<1>3. Cardinality(Upto(alerts, class, j)) <= Cardinality(Upto(alerts, class, k))
  BY <1>2, UptoIsFinite, FS_Subset
<1>4. Cardinality(Upto(alerts, class, j)) = Cardinality(Upto(alerts, class, j - 1)) + 1
  BY <1>1, UptoNext
<1>5. Cardinality(Upto(alerts, class, j - 1)) \in Nat
  BY <1>1, UptoIsFinite
<1>6. Cardinality(Upto(alerts, class, k)) \in Nat
  BY UptoIsFinite
<1>7. QED
  BY <1>3, <1>4, <1>5, <1>6

\* list is what filter keeps of the first k alerts, in their order.
Filtered(list, alerts, class, k) ==
    /\ Len(list) = Cardinality(Upto(alerts, class, k))
    /\ \A j \in Upto(alerts, class, k) :
           list[Cardinality(Upto(alerts, class, j))] = alerts[j]

LEMMA KeptIsFiltered ==
    ASSUME NEW A, NEW alerts \in Seq(A), NEW class, NEW kept,
           Keeps(kept, alerts, class, Len(alerts))
    PROVE  \A i \in 0 .. Len(alerts) :
              kept[i] \in Seq(A) /\ Filtered(kept[i], alerts, class, i)
<1> DEFINE n == Len(alerts)
           Good(i) == kept[i] \in Seq(A) /\ Filtered(kept[i], alerts, class, i)
           Bad == {i \in 0 .. n : ~Good(i)}
<1>0. n \in Nat /\ \A i \in 1 .. n : alerts[i] \in A
  OBVIOUS
<1>1. SUFFICES ASSUME Bad # {} PROVE FALSE
  OBVIOUS
<1>2. PICK i \in Bad : \A j \in Bad : i <= j
  <2>1. Bad \in SUBSET Nat
    BY <1>0
  <2> HIDE DEF Bad
  <2>2. QED
    BY <1>1, <2>1, NatMin
<1>3. i \in 0 .. n /\ ~Good(i)
  BY <1>2
<1>4. \A j \in 0 .. n : kept[j] = IF j = 0 THEN <<>>
                          ELSE IF alerts[j].eventClass = class
                               THEN Append(kept[j - 1], alerts[j])
                               ELSE kept[j - 1]
  BY DEF Keeps
<1>5. i # 0
  <2>1. SUFFICES ASSUME i = 0 PROVE Good(i)
    BY <1>3
  <2>2. kept[i] = <<>>
    BY <1>0, <1>4, <2>1
  <2>3. Upto(alerts, class, i) = {}
    BY <2>1 DEF Upto
  <2>4. QED
    BY <2>2, <2>3, FS_EmptySet DEF Filtered
<1>6. i - 1 \in 0 .. n /\ i - 1 \notin Bad /\ i \in Nat \ {0}
  BY <1>0, <1>2, <1>3, <1>5
<1>7. Good(i - 1)
  BY <1>6
<1> DEFINE before == kept[i - 1]
           count(j) == Cardinality(Upto(alerts, class, j))
<1>8. /\ before \in Seq(A) /\ Len(before) = count(i - 1)
      /\ \A j \in Upto(alerts, class, i - 1) : before[count(j)] = alerts[j]
  BY <1>7 DEF Filtered
<1>9. count(i) = count(i - 1) + (IF alerts[i].eventClass = class THEN 1 ELSE 0)
  BY <1>6, UptoNext
<1>10. count(i - 1) \in Nat
  BY <1>6, UptoIsFinite
<1>11. \A j \in Upto(alerts, class, i - 1) : count(j) \in 1 .. Len(before)
  BY <1>6, <1>8, UptoGrows
<1> HIDE DEF before
<1>12. CASE alerts[i].eventClass = class
  <2>1. kept[i] = Append(before, alerts[i]) /\ alerts[i] \in A
    <3>1. i \in 1 .. n
      BY <1>0, <1>3, <1>5
    <3>2. kept[i] = Append(before, alerts[i])
      BY <1>3, <1>4, <1>5, <1>12 DEF before
    <3>3. QED
      BY <1>0, <3>1, <3>2
  <2>2. /\ kept[i] \in Seq(A) /\ Len(kept[i]) = Len(before) + 1
        /\ kept[i][Len(before) + 1] = alerts[i]
        /\ \A m \in 1 .. Len(before) : kept[i][m] = before[m]
    BY <1>8, <2>1
  <2>3. Upto(alerts, class, i) = Upto(alerts, class, i - 1) \cup {i}
    BY <1>6, <1>12 DEF Upto
  <2>4. ASSUME NEW j \in Upto(alerts, class, i)
        PROVE  kept[i][count(j)] = alerts[j]
    <3> HIDE DEF count
    <3>1. CASE j = i
      BY <1>8, <1>9, <1>12, <2>2, <3>1
    <3>2. CASE j \in Upto(alerts, class, i - 1)
      BY <1>8, <1>11, <2>2, <3>2
    <3>3. QED
      BY <2>3, <3>1, <3>2
  <2>5. Len(kept[i]) = count(i)
    BY <1>8, <1>9, <1>12, <2>2
  <2>6. QED
    BY <1>3, <2>2, <2>4, <2>5 DEF Filtered
<1>13. CASE alerts[i].eventClass # class
  <2>1. kept[i] = before
    BY <1>3, <1>4, <1>5, <1>13 DEF before
  <2>2. Upto(alerts, class, i) = Upto(alerts, class, i - 1)
    BY <1>6, <1>13 DEF Upto
  <2>3. QED
    BY <1>3, <1>8, <2>1, <2>2 DEF Filtered
<1>14. QED
  BY <1>12, <1>13

LEMMA OfClassFilters ==
    ASSUME NEW A, NEW alerts \in Seq(A), NEW class
    PROVE  /\ Api!OfClass(alerts, class) \in Seq(A)
           /\ Filtered(Api!OfClass(alerts, class), alerts, class, Len(alerts))
<1> DEFINE n == Len(alerts)
           f == CHOOSE kept : Keeps(kept, alerts, class, n)
<1>1. n \in Nat
  OBVIOUS
<1>2. Keeps(f, alerts, class, n)
  BY <1>1, KeepsExists
<1>3. Api!OfClass(alerts, class) = f[n]
  BY DEF Api!OfClass, Keeps
<1> HIDE DEF f
<1>4. QED
  BY <1>1, <1>2, <1>3, KeptIsFiltered

-----------------------------------------------------------------------------
(* The daemon's answer *)

Alert == [eventClass : Api!EventClasses, channel : Api!SensingChannels]

LEMMA ToAlertIsAlert ==
    ASSUME NEW class
    PROVE  /\ Api!toAlert(class) \in Alert
           /\ Api!toAlert(class).eventClass = Api!EV_NAMES(class)
<1>1. Api!EV_NAMES(class) \in Api!EventClasses
  BY DEF Api!EV_NAMES, Api!EventClasses
<1>2. (IF Api!EV_NAMES(class) = "wifi_presence" THEN "rf" ELSE "seismic") \in Api!SensingChannels
  BY DEF Api!SensingChannels
<1>3. QED
  BY <1>1, <1>2 DEF Api!toAlert, Alert

\* The newest n rows of the table, newest first, as alerts.
Newest(n) ==
    LET rows == Api!recent_alerts(n) IN [i \in DOMAIN rows |-> Api!toAlert(rows[i])]

Oldest(n) == IF n >= Len(stored) THEN 1 ELSE Len(stored) - n + 1

LEMMA NewestAreNewest ==
    ASSUME stored \in Seq(StoredClasses), NEW n \in Nat
    PROVE  LET now == Len(stored)
               m == now - Oldest(n) + 1
           IN /\ now \in Nat /\ Oldest(n) \in 1 .. now + 1 /\ m \in Nat
              /\ Newest(n) \in Seq(Alert) /\ Len(Newest(n)) = m
              /\ \A k \in 1 .. m :
                    Newest(n)[k].eventClass = Api!EV_NAMES(stored[now - k + 1])
<1> DEFINE now == Len(stored)
           oldest == Oldest(n)
           m == now - oldest + 1
           rows == Api!recent_alerts(n)
<1>1. /\ now \in Nat /\ oldest \in 1 .. now + 1 /\ m \in Nat
      /\ \A i \in 1 .. now : stored[i] \in StoredClasses
  BY DEF Oldest
<1> HIDE DEF now
<1>2. rows = [k \in 1 .. m |-> stored[now - k + 1]]
  <2>1. CASE n >= now
    <3>1. rows = Api!Reverse(stored) /\ oldest = 1
      BY <2>1 DEF Api!recent_alerts, Oldest, now
    <3>2. m = now
      BY <1>1, <3>1
    <3>3. \A k \in 1 .. now : (now - k) + 1 = now - k + 1
      BY <1>1
    <3>4. QED
      BY <3>1, <3>2, <3>3 DEF Api!Reverse, now
  <2>2. CASE ~(n >= now)
    <3> DEFINE sub == SubSeq(stored, now - n + 1, now)
    <3>1. rows = Api!Reverse(sub) /\ oldest = now - n + 1
      BY <2>2 DEF Api!recent_alerts, Oldest, now
    <3>2. m = n
      BY <1>1, <3>1
    <3>3. /\ Len(sub) = n
          /\ \A k \in 1 .. n : sub[k] = stored[now - n + k]
      <4>1. \A i \in now - n + 1 .. now : stored[i] \in StoredClasses
        BY <1>1, <2>2
      <4>2. /\ Len(sub) = IF now - n + 1 <= now THEN now - (now - n + 1) + 1 ELSE 0
            /\ \A k \in 1 .. now - (now - n + 1) + 1 : sub[k] = stored[(now - n + 1) + k - 1]
        BY <1>1, <4>1, SubSeqProperties
      <4>3. now - (now - n + 1) + 1 = n /\ \A k \in Nat : (now - n + 1) + k - 1 = now - n + k
        BY <1>1
      <4> HIDE DEF sub
      <4>4. QED
        BY <1>1, <2>2, <4>2, <4>3
    <3> HIDE DEF sub
    <3>4. Api!Reverse(sub) = [k \in 1 .. n |-> sub[(n - k) + 1]]
      BY <3>3 DEF Api!Reverse
    <3>5. \A k \in 1 .. n : sub[(n - k) + 1] = stored[now - k + 1]
      <4> SUFFICES ASSUME NEW k \in 1 .. n PROVE sub[(n - k) + 1] = stored[now - k + 1]
        OBVIOUS
      <4>1. (n - k) + 1 \in 1 .. n /\ now - n + ((n - k) + 1) = now - k + 1
        BY <1>1
      <4>2. QED
        BY <3>3, <4>1
    <3>6. QED
      BY <3>1, <3>2, <3>4, <3>5
  <2>3. QED
    BY <2>1, <2>2
<1> HIDE DEF rows, m, oldest
<1>3. Newest(n) = [k \in 1 .. m |-> Api!toAlert(stored[now - k + 1])]
  BY <1>2 DEF Newest, rows
<1>4. /\ Newest(n) \in Seq(Alert) /\ Len(Newest(n)) = m
      /\ \A k \in 1 .. m : Newest(n)[k].eventClass = Api!EV_NAMES(stored[now - k + 1])
  <2>1. \A k \in 1 .. m : Api!toAlert(stored[now - k + 1]) \in Alert
    BY ToAlertIsAlert
  <2>2. Newest(n) \in [1 .. m -> Alert]
    BY <1>3, <2>1
  <2>3. Newest(n) \in Seq(Alert) /\ Len(Newest(n)) = m
    BY <1>1, <2>2
  <2>4. QED
    BY <1>3, <2>3, ToAlertIsAlert
<1>5. QED
  BY <1>1, <1>4 DEF now, m, oldest

\* The places of a class in the table, from i on, are as many as in the list.
LEMMA SameCount ==
    ASSUME stored \in Seq(StoredClasses), NEW n \in Nat, NEW class,
           NEW i \in Oldest(n) .. Len(stored) + 1
    PROVE  LET wanted == {j \in Oldest(n) .. Len(stored) : Api!EV_NAMES(stored[j]) = class}
           IN Cardinality({j \in wanted : j >= i}) =
                 Cardinality(Upto(Newest(n), class, Len(stored) - i + 1))
<1> DEFINE now == Len(stored)
           oldest == Oldest(n)
           m == now - oldest + 1
           wanted == {j \in oldest .. now : Api!EV_NAMES(stored[j]) = class}
           k == now - i + 1
           T == {j \in wanted : j >= i}
           U == Upto(Newest(n), class, k)
           f == [j \in U |-> now - j + 1]
<1>1. /\ now \in Nat /\ oldest \in 1 .. now + 1 /\ m \in Nat
      /\ \A j \in 1 .. m : Newest(n)[j].eventClass = Api!EV_NAMES(stored[now - j + 1])
  BY NewestAreNewest
<1>2. k \in 0 .. m /\ k \in Nat /\ i \in oldest .. now + 1
  BY <1>1
<1> HIDE DEF now, oldest
<1>3. \A j \in U : j \in 1 .. k /\ now - j + 1 \in T
  <2> SUFFICES ASSUME NEW j \in U PROVE j \in 1 .. k /\ now - j + 1 \in T
    OBVIOUS
  <2>1. j \in 1 .. k /\ Newest(n)[j].eventClass = class
    BY DEF Upto
  <2>2. j \in 1 .. m /\ now - j + 1 \in oldest .. now /\ now - j + 1 >= i
    BY <1>1, <1>2, <2>1
  <2>3. Api!EV_NAMES(stored[now - j + 1]) = class
    BY <1>1, <2>1, <2>2
  <2>4. QED
    BY <2>1, <2>2, <2>3
<1>4. \A t \in T : now - t + 1 \in U /\ now - (now - t + 1) + 1 = t
  <2> SUFFICES ASSUME NEW t \in T PROVE now - t + 1 \in U /\ now - (now - t + 1) + 1 = t
    OBVIOUS
  <2>1. t \in oldest .. now /\ t >= i /\ Api!EV_NAMES(stored[t]) = class
    OBVIOUS
  <2>2. now - t + 1 \in 1 .. k /\ now - t + 1 \in 1 .. m /\ now - (now - t + 1) + 1 = t
    BY <1>1, <1>2, <2>1
  <2>3. Newest(n)[now - t + 1].eventClass = class
    BY <1>1, <2>1, <2>2
  <2>4. QED
    BY <2>2, <2>3 DEF Upto
<1> HIDE DEF T, U
<1>5. f \in [U -> T]
  BY <1>3
<1>6. \A a, b \in U : f[a] = f[b] => a = b
  BY <1>1, <1>2, <1>3
<1>7. \A t \in T : \E u \in U : f[u] = t
  BY <1>4
<1>8. f \in Bijection(U, T)
  <2> HIDE DEF f
  <2>1. QED
    BY <1>5, <1>6, <1>7 DEF Bijection, Injection, Surjection, IsInjective
<1>9. Cardinality(T) = Cardinality(U)
  <2>1. IsFiniteSet(U)
    BY <1>2, UptoIsFinite DEF U
  <2>2. ExistsBijection(U, T)
    BY <1>8 DEF ExistsBijection
  <2>3. QED
    BY <2>1, <2>2, FS_Bijection
<1>10. QED
  BY <1>9 DEF T, U, now, oldest

\* The gateway's list is honest at the moment it is made.
LEMMA FreshAlertsAreHonest ==
    ASSUME stored \in Seq(StoredClasses), NEW q, Api!LimitOf(q) \in Nat
    PROVE  LET list == Api!AlertList(Api!recent_alerts(Api!LimitOf(q) \div 2), q)
           IN list \in Seq(Alert) /\ Api!HonestAlerts(list, q)
<1> DEFINE n == Api!LimitOf(q) \div 2
           now == Len(stored)
           oldest == Oldest(n)
           m == now - oldest + 1
           list == Api!AlertList(Api!recent_alerts(n), q)
           wanted == {i \in oldest .. now :
                        q.eventClass = Api!NoClass \/ Api!EV_NAMES(stored[i]) = q.eventClass}
           From(i) == {j \in wanted : j >= i}
           Told == /\ list \in Seq(Alert) /\ Len(list) = Cardinality(wanted)
                   /\ \A i \in wanted :
                        Api!EV_NAMES(stored[i]) = list[Cardinality(From(i))].eventClass
<1>1. n \in Nat
  OBVIOUS
<1>2. /\ now \in Nat /\ oldest \in 1 .. now + 1 /\ m \in Nat /\ m = now - oldest + 1
      /\ Newest(n) \in Seq(Alert) /\ Len(Newest(n)) = m
      /\ \A k \in 1 .. m : Newest(n)[k].eventClass = Api!EV_NAMES(stored[now - k + 1])
  BY <1>1, NewestAreNewest
<1>3. list = IF q.eventClass = Api!NoClass THEN Newest(n)
             ELSE Api!OfClass(Newest(n), q.eventClass)
  BY DEF Api!AlertList, Newest
<1> HIDE DEF list, n, now, oldest, m
<1>4. ASSUME q.eventClass = Api!NoClass
      PROVE  Told
  <2>1. list = Newest(n)
    BY <1>3, <1>4
  <2>2. wanted = oldest .. now
    BY <1>4
  <2>3. Cardinality(wanted) = m
    <3>1. Cardinality(oldest .. now) = IF oldest > now THEN 0 ELSE now - oldest + 1
      BY <1>2, FS_Interval
    <3> HIDE DEF wanted
    <3>2. QED
      BY <1>2, <2>2, <3>1
  <2>4. ASSUME NEW i \in wanted
        PROVE  Api!EV_NAMES(stored[i]) = list[Cardinality(From(i))].eventClass
    <3>1. i \in oldest .. now
      BY <2>2
    <3>2. From(i) = i .. now
      BY <1>2, <2>2, <3>1
    <3>3. Cardinality(From(i)) = now - i + 1
      <4>1. Cardinality(i .. now) = IF i > now THEN 0 ELSE now - i + 1
        BY <1>2, <3>1, FS_Interval
      <4> HIDE DEF From
      <4>2. QED
        BY <1>2, <3>1, <3>2, <4>1
    <3>4. now - i + 1 \in 1 .. m /\ now - (now - i + 1) + 1 = i
      BY <1>2, <3>1
    <3>5. QED
      BY <1>2, <2>1, <3>3, <3>4
  <2> HIDE DEF wanted, From
  <2>5. QED
    BY <1>2, <2>1, <2>3, <2>4
<1>5. ASSUME q.eventClass # Api!NoClass
      PROVE  Told
  <2> DEFINE class == q.eventClass
             count(k) == Cardinality(Upto(Newest(n), class, k))
  <2>1. list \in Seq(Alert) /\ Filtered(list, Newest(n), class, m)
    BY <1>2, <1>3, <1>5, OfClassFilters
  <2>2. wanted = {j \in oldest .. now : Api!EV_NAMES(stored[j]) = class}
    BY <1>5
  <2>3. ASSUME NEW i \in oldest .. now + 1
        PROVE  Cardinality(From(i)) = count(now - i + 1)
    BY <1>1, <2>2, <2>3, SameCount DEF now, oldest
  <2>4. From(oldest) = wanted
    BY <1>2
  <2>5. Len(list) = Cardinality(wanted)
    <3>1. Cardinality(wanted) = count(m)
      BY <1>2, <2>3, <2>4
    <3>2. QED
      BY <2>1, <3>1 DEF Filtered
  <2>6. ASSUME NEW i \in wanted
        PROVE  Api!EV_NAMES(stored[i]) = list[Cardinality(From(i))].eventClass
    <3> DEFINE k == now - i + 1
    <3>1. i \in oldest .. now /\ Api!EV_NAMES(stored[i]) = class
      BY <2>2
    <3>2. k \in 1 .. m /\ now - k + 1 = i
      BY <1>2, <3>1
    <3>3. Newest(n)[k].eventClass = class
      BY <1>2, <3>1, <3>2
    <3>4. k \in Upto(Newest(n), class, m)
      BY <3>2, <3>3 DEF Upto
    <3>5. list[count(k)] = Newest(n)[k]
      BY <2>1, <3>4 DEF Filtered
    <3>6. Cardinality(From(i)) = count(k)
      <4>1. i \in oldest .. now + 1
        BY <1>2, <3>1
      <4>2. QED
        BY <2>3, <4>1
    <3>7. QED
      BY <3>1, <3>3, <3>5, <3>6
  <2> HIDE DEF wanted, From
  <2>7. QED
    BY <2>1, <2>5, <2>6
<1>6. Told
  BY <1>4, <1>5
<1>7. Api!HonestAlerts(list, q)
  <2>1. now \in 0 .. Len(stored)
    BY <1>2 DEF now
  <2>2. oldest = IF n >= now THEN 1 ELSE now - n + 1
    BY DEF Oldest, oldest, now
  <2>3. \E at \in 0 .. Len(stored) :
          LET first == IF n >= at THEN 1 ELSE at - n + 1
              these == {i \in first .. at :
                          q.eventClass = Api!NoClass \/ Api!EV_NAMES(stored[i]) = q.eventClass}
          IN /\ Len(list) = Cardinality(these)
             /\ \A i \in these :
                  Api!EV_NAMES(stored[i]) =
                    list[Cardinality({j \in these : j >= i})].eventClass
    <3>1. WITNESS now \in 0 .. Len(stored)
    <3>2. QED
      BY <1>6, <2>2
  <2>4. QED
    BY <2>3 DEF Api!HonestAlerts, Api!Cardinality, Cardinality, n
<1>8. QED
  BY <1>6, <1>7 DEF list, n

LEMMA AlertsFit ==
    ASSUME NEW list \in Seq(Alert)
    PROVE  Api!ListGatewayAlertsResponse(list)
<1>1. \A i \in DOMAIN list : list[i] \in Alert
  OBVIOUS
<1>2. QED
  BY <1>1 DEF Api!ListGatewayAlertsResponse, Alert

\* An honest list stays one as alerts and heartbeats arrive.
LEMMA HonestForGood ==
    ASSUME stored \in Seq(StoredClasses), lastSeen \in Nat,
           \/ UNCHANGED <<stored, lastSeen>>
           \/ \E class \in StoredClasses : Api!Store(class)
           \/ Api!Heartbeat,
           NEW list, NEW q, Api!Honest(list, q),
           q.path = "alerts" => Api!LimitOf(q) \in Nat
    PROVE  Api!Honest(list, q)'
<1>1. /\ Len(stored) \in Nat /\ Len(stored') \in Nat /\ Len(stored) <= Len(stored')
      /\ \A i \in 1 .. Len(stored) : stored'[i] = stored[i]
      /\ lastSeen' \in Nat /\ lastSeen <= lastSeen'
  BY DEF Api!Store, Api!Heartbeat
<1>2. ASSUME Api!HonestAlerts(list, q), Api!LimitOf(q) \in Nat
      PROVE  Api!HonestAlerts(list, q)'
  <2> DEFINE n == Api!LimitOf(q) \div 2
             first(at) == IF n >= at THEN 1 ELSE at - n + 1
             these(at) == {i \in first(at) .. at :
                             q.eventClass = Api!NoClass \/ Api!EV_NAMES(stored[i]) = q.eventClass}
             later(at) == {i \in first(at) .. at :
                             q.eventClass = Api!NoClass \/ Api!EV_NAMES(stored'[i]) = q.eventClass}
  <2>0. n \in Nat
    BY <1>2
  <2>1. PICK now \in 0 .. Len(stored) :
            /\ Len(list) = Cardinality(these(now))
            /\ \A i \in these(now) :
                  Api!EV_NAMES(stored[i]) =
                    list[Cardinality({j \in these(now) : j >= i})].eventClass
    BY <1>2 DEF Api!HonestAlerts, Api!Cardinality, Cardinality
  <2>2. now \in 0 .. Len(stored')
    BY <1>1
  <2>3. \A i \in first(now) .. now : stored'[i] = stored[i]
    <3>1. \A i \in first(now) .. now : i \in 1 .. Len(stored)
      <4> HIDE DEF n
      <4>1. QED
        BY <1>1, <2>0
    <3>2. QED
      BY <1>1, <3>1
  <2>4. these(now) = later(now)
    BY <2>3
  <2>5. /\ Len(list) = Cardinality(later(now))
        /\ \A i \in later(now) :
              Api!EV_NAMES(stored'[i]) =
                list[Cardinality({j \in later(now) : j >= i})].eventClass
    <3>1. \A i \in later(now) : stored'[i] = stored[i]
      BY <2>3
    <3> HIDE DEF these, later
    <3>2. QED
      BY <2>1, <2>4, <3>1
  <2>6. \E at \in 0 .. Len(stored') :
          /\ Len(list) = Cardinality(later(at))
          /\ \A i \in later(at) :
                Api!EV_NAMES(stored'[i]) =
                  list[Cardinality({j \in later(at) : j >= i})].eventClass
    BY <2>2, <2>5
  <2>7. QED
    BY <2>6
    DEF Api!HonestAlerts, Api!Cardinality, Cardinality, Api!EV_NAMES, Api!LimitOf, Api!NoClass
<1>3. QED
  BY <1>1, <1>2 DEF Api!Honest

-----------------------------------------------------------------------------
(* The inductive invariant *)

\* Data that answers a query.
Data(value, q) ==
    /\ value.text = "data"
    /\ Api!Honest(value.list, q)
    /\ q.path = "alerts" => Api!LimitOf(q) \in Nat

\* What AnswersExplained says of one request.
Explained(s) ==
    LET a == s.answer
        q == s.query
    IN /\ a.status = 200 => /\ Api!Honest(a.list, q)
                            /\ q.path = "alerts" => Api!ValidQuery(q) /\ Api!LimitOf(q) % 2 = 0
       /\ a.status = 502 => /\ q.path # "healthz"
                            /\ outages > 0 \/ Api!LimitOf(q) % 2 = 1
       /\ a.status = 400 => q.limit # Api!NoLimit \/ q.eventClass # Api!NoClass

\* A request at the server.
ServedInv(s) ==
    /\ DOMAIN s = {"stage", "query", "answer"}
    /\ s.stage \in {"none", "asked", "answered"}
    /\ s.stage # "answered" => s.answer = Api!NoAnswer
    /\ s.stage = "asked" => s.query.path # "healthz" /\ Api!ValidQuery(s.query)
    /\ s.stage = "answered" => s.answer.status \in {200, 400, 502}
    /\ s.query.path = "alerts" => s.answer.list \in Seq(Alert)
    /\ Explained(s)

CallFields == {"stage", "request", "base", "getter", "auth", "headers", "response", "outcome"}

\* A response of the server, as it reaches the client.
Arrived(response, q) ==
    /\ response.status \in {200, 400, 502}
    /\ response.media = "json" /\ response.form = "json"
    /\ ~response.length0 /\ response.stream # "null"
    /\ response.status = 200 => Data(response.value, q)

\* Where the hooks' requests go.
Urls == {getHealthCheckUrl, getListGatewayNodesUrl} \union {p \in Queries : p.path = "alerts"}

\* A call of customFetch: what it has received and makes of it answers the query
\* it was made for.
CallInv(call) ==
    /\ DOMAIN call = CallFields
    /\ call.stage \in Fetch!Stages
    /\ call.base \in Accounts \union {Fetch!Nobody}
    /\ call.auth \in Accounts \union {Fetch!Nobody}
    /\ call.getter \in Accounts \union {Fetch!Nobody}
    /\ call.stage # "done" => call.outcome = Fetch!Pending
    /\ call.stage = "done" => call.outcome.kind # "pending"
    /\ call.stage # "idle" =>
         /\ call.request.method = "GET" /\ call.request.responseType = "auto"
         /\ call.request.query \in Urls
    /\ call.stage = "received" => Arrived(call.response, call.request.query)
    /\ call.stage = "done" /\ call.outcome.kind = "value" =>
         Data(call.outcome.value, call.request.query)

\* The server works for a request on its way only, and an observed call is
\* registered under the key of its own query.
Together(call, s, k) ==
    /\ s.stage # "none" => call.stage = "sent" /\ s.query = call.request.query
    /\ k # Nothing => call.stage # "idle" /\ k = getQueryKey(call.request.query)

\* Data kept under the key of a query answers that query.
CacheInv ==
    /\ DOMAIN cache \subseteq Keys
    /\ \A p \in Queries \union {Unmounted} :
          getQueryKey(p) \in DOMAIN cache => Data(cache[getQueryKey(p)], p)

TableInv ==
    /\ stored \in Seq(StoredClasses) /\ Len(stored) <= MaxReceived
    /\ lastSeen \in 0 .. MaxReceived
    /\ daemonUp \in BOOLEAN /\ outages \in 0 .. MaxOutages
    /\ ~daemonUp => outages > 0

StackInv ==
    /\ runtime \in Runtimes /\ account \in Accounts \union {Fetch!Nobody}
    /\ TableInv
    /\ params \in Queries \union {Unmounted} /\ swaps \in 0 .. MaxSwaps
    /\ DOMAIN calls = Calls /\ served = [c \in Calls |-> served[c]]
    /\ key \in [Calls -> Keys \union {Nothing}]
    /\ \A c \in Calls : /\ CallInv(calls[c]) /\ ServedInv(served[c])
                        /\ Together(calls[c], served[c], key[c])
    /\ \A c, d \in Calls : key[c] = key[d] /\ key[c] # Nothing => c = d
    /\ CacheInv

LEMMA BoundsAreNumbers ==
    /\ LimitMax \in Nat \ {0} /\ DefaultLimit \in 1 .. LimitMax
    /\ MaxReceived \in Nat /\ MaxOutages \in Nat /\ MaxSwaps \in Nat
BY ApiStackAssumption DEF Api!GatewayApiAssumption

LEMMA ValidLimit ==
    ASSUME NEW q, Api!ValidQuery(q)
    PROVE  Api!LimitOf(q) \in Nat
BY BoundsAreNumbers DEF Api!ValidQuery, Api!LimitOf, Api!NoLimit

\* The table stays, or the daemon adds to it.
TableStep ==
    /\ \/ UNCHANGED <<stored, lastSeen>>
       \/ \E class \in StoredClasses : Api!Store(class)
       \/ Api!Heartbeat
    /\ outages' \in Nat /\ outages <= outages'

LEMMA DataForGood ==
    ASSUME TableInv, TableStep, NEW value, NEW q, Data(value, q)
    PROVE  Data(value, q)'
<1>1. stored \in Seq(StoredClasses) /\ lastSeen \in Nat
  BY DEF TableInv
<1>2. Api!Honest(value.list, q)'
  BY <1>1, HonestForGood DEF TableStep, Data
<1>3. QED
  BY <1>2 DEF Data, Api!LimitOf, Api!NoLimit

LEMMA ServedForGood ==
    ASSUME TableInv, TableStep, NEW s, ServedInv(s)
    PROVE  ServedInv(s)'
<1>1. stored \in Seq(StoredClasses) /\ lastSeen \in Nat /\ outages \in Nat
  BY BoundsAreNumbers DEF TableInv
<1>2. ASSUME s.answer.status = 200
      PROVE  Api!Honest(s.answer.list, s.query)'
  <2>1. /\ Api!Honest(s.answer.list, s.query)
        /\ s.query.path = "alerts" => Api!LimitOf(s.query) \in Nat
    BY <1>2, ValidLimit DEF ServedInv, Explained
  <2>2. QED
    BY <1>1, <2>1, HonestForGood DEF TableStep
<1>3. outages > 0 => outages' > 0
  BY <1>1 DEF TableStep
<1>4. Explained(s)'
  BY <1>2, <1>3
  DEF ServedInv, Explained, Api!ValidQuery, Api!LimitOf, Api!NoLimit, Api!NoClass, Api!EventClasses
<1>5. QED
  BY <1>4 DEF ServedInv, Api!NoAnswer, Api!ValidQuery, Api!NoLimit, Api!NoClass, Api!EventClasses,
              Alert, Api!SensingChannels

LEMMA CallForGood ==
    ASSUME TableInv, TableStep, NEW call, CallInv(call)
    PROVE  CallInv(call)'
<1>1. \A value, q : Data(value, q) => Data(value, q)'
  BY DataForGood
<1>2. call.stage = "received" => Arrived(call.response, call.request.query)'
  BY <1>1 DEF CallInv, Arrived
<1>3. /\ call.stage = "done" /\ call.outcome.kind = "value"
      => Data(call.outcome.value, call.request.query)'
  BY <1>1 DEF CallInv
<1>4. QED
  BY <1>2, <1>3
  DEF CallInv, CallFields, Urls, getHealthCheckUrl, getListGatewayNodesUrl, Fetch!Stages,
      Fetch!Nobody, Fetch!Pending, Fetch!Outcome

LEMMA CacheForGood ==
    ASSUME TableInv, TableStep, CacheInv, UNCHANGED cache
    PROVE  CacheInv'
<1>1. \A value, q : Data(value, q) => Data(value, q)'
  BY DataForGood
<1>2. ASSUME NEW p \in Queries \union {Unmounted}, getQueryKey(p) \in DOMAIN cache
      PROVE  Data(cache[getQueryKey(p)], p)'
  <2> DEFINE value == cache[getQueryKey(p)]
  <2>1. PICK v : v = value
    OBVIOUS
  <2>2. Data(v, p)
    BY <1>2, <2>1 DEF CacheInv
  <2>3. Data(v, p)'
    BY <1>1, <2>2
  <2>4. v = cache'[getQueryKey(p)]
    BY <2>1
  <2>5. QED
    BY <2>3, <2>4 DEF Data, getQueryKey
<1>3. QED
  BY <1>2 DEF CacheInv, Keys, getQueryKey, Unmounted

-----------------------------------------------------------------------------
(* The steps *)

\* Whatever a call does, it does to itself and to its request at the server.
LEMMA OneCall ==
    ASSUME StackInv, UNCHANGED <<runtime, account>>,
           UNCHANGED <<stored, lastSeen, daemonUp, outages>>, UNCHANGED <<params, swaps>>,
           NEW c \in Calls, NEW call, NEW s, NEW k \in Keys \union {Nothing},
           calls' = [calls EXCEPT ![c] = call],
           served' = [served EXCEPT ![c] = s],
           key' = [key EXCEPT ![c] = k],
           CallInv(call), ServedInv(s), Together(call, s, k),
           k # Nothing => \A d \in Calls : d # c => key[d] # k,
           CacheInv'
    PROVE  StackInv'
<1>1. TableInv /\ TableInv' /\ TableStep
  BY BoundsAreNumbers DEF StackInv, TableInv, TableStep
<1>2. /\ DOMAIN calls' = Calls /\ served' = [d \in Calls |-> served'[d]]
      /\ key' \in [Calls -> Keys \union {Nothing}]
      /\ \A d \in Calls :
            /\ calls'[d] = IF d = c THEN call ELSE calls[d]
            /\ served'[d] = IF d = c THEN s ELSE served[d]
            /\ key'[d] = IF d = c THEN k ELSE key[d]
  BY DEF StackInv
<1>3. ASSUME NEW d \in Calls
      PROVE  /\ CallInv(calls[d])' /\ ServedInv(served[d])'
             /\ Together(calls[d], served[d], key[d])'
  <2>1. PICK x, y, z : x = calls'[d] /\ y = served'[d] /\ z = key'[d]
    OBVIOUS
  <2>2. CallInv(x) /\ ServedInv(y) /\ Together(x, y, z)
    BY <1>2, <2>1 DEF StackInv
  <2>3. CallInv(x)' /\ ServedInv(y)' /\ Together(x, y, z)'
    <3>1. CallInv(x)' /\ ServedInv(y)'
      BY <1>1, <2>2, CallForGood, ServedForGood
    <3>2. QED
      BY <2>2, <3>1 DEF Together, Nothing, getQueryKey
  <2>4. CallInv(calls[d])'
    BY <2>1, <2>3
    DEF CallInv, Arrived, Data, CallFields, Urls, getHealthCheckUrl, getListGatewayNodesUrl
  <2>5. ServedInv(served[d])'
    BY <2>1, <2>3 DEF ServedInv, Explained
  <2>6. Together(calls[d], served[d], key[d])'
    BY <2>1, <2>3 DEF Together, Nothing, getQueryKey
  <2>7. QED
    BY <2>4, <2>5, <2>6
<1>4. \A d, e \in Calls : key'[d] = key'[e] /\ key'[d] # Nothing => d = e
  BY <1>2 DEF StackInv
<1>5. /\ runtime' \in Runtimes /\ account' \in Accounts \union {Fetch!Nobody}
      /\ params' \in Queries \union {Unmounted} /\ swaps' \in 0 .. MaxSwaps
  BY DEF StackInv
<1>6. QED
  BY <1>1, <1>2, <1>3, <1>4, <1>5
  DEF StackInv, Keys, Nothing, Unmounted, Fetch!Nobody, getQueryKey, Fetch!NoQuery

LEMMA IdleIsFine ==
    /\ CallInv(Fetch!NoCall) /\ ServedInv(Api!NotServed)
    /\ Together(Fetch!NoCall, Api!NotServed, Nothing)
<1>1. CallInv(Fetch!NoCall)
  BY DEF CallInv, CallFields, Fetch!NoCall, Fetch!Stages, Fetch!Nobody
<1>2. /\ DOMAIN Api!NotServed = {"stage", "query", "answer"}
      /\ Api!NotServed.stage = "none" /\ Api!NotServed.answer = Api!NoAnswer
      /\ Api!NotServed.query.path = "healthz" /\ Api!NoAnswer.status = 0
  BY DEF Api!NotServed, Api!NoAnswer
<1>3. ServedInv(Api!NotServed)
  BY <1>2 DEF ServedInv, Explained
<1>4. Together(Fetch!NoCall, Api!NotServed, Nothing)
  BY <1>2 DEF Together
<1>5. QED
  BY <1>1, <1>3, <1>4

\* Nothing of the table is touched, nothing of the screen.
LEMMA CacheStays ==
    ASSUME StackInv, UNCHANGED <<stored, lastSeen, daemonUp, outages>>, UNCHANGED cache
    PROVE  CacheInv'
<1>1. TableInv /\ TableStep /\ CacheInv
  BY BoundsAreNumbers DEF StackInv, TableInv, TableStep
<1>2. QED
  BY <1>1, CacheForGood

LEMMA HookStarts ==
    ASSUME StackInv, NEW c \in Calls, queryFn(c)
    PROVE  StackInv'
<1> DEFINE k == getQueryKey(params)
           Request(url) == [Fetch!NoRequest EXCEPT !.query = url]
<1>1. /\ params \in Queries /\ k \in Keys /\ calls[c].stage = "idle"
      /\ \A d \in Calls : key[d] # k
      /\ key' = [key EXCEPT ![c] = k]
      /\ UNCHANGED <<stored, lastSeen, daemonUp, outages>> /\ UNCHANGED served
      /\ UNCHANGED <<params, swaps>> /\ UNCHANGED cache
  BY DEF queryFn, StackInv, Keys, apiVars
<1>2. PICK url \in Urls : Fetch!customFetch(c, Request(url)) /\ getQueryKey(url) = k
  <2>1. CASE healthCheck(c)
    <3>1. getHealthCheckUrl \in Urls /\ getQueryKey(getHealthCheckUrl) = <<"healthz">>
      BY DEF Urls, getHealthCheckUrl, getQueryKey
    <3>2. Fetch!customFetch(c, Request(getHealthCheckUrl)) /\ k = <<"healthz">>
      BY <2>1 DEF healthCheck, getQueryKey
    <3>3. QED
      BY <3>1, <3>2
  <2>2. CASE listGatewayNodes(c)
    <3>1. getListGatewayNodesUrl \in Urls /\ getQueryKey(getListGatewayNodesUrl) = <<"nodes">>
      BY DEF Urls, getListGatewayNodesUrl, getQueryKey
    <3>2. Fetch!customFetch(c, Request(getListGatewayNodesUrl)) /\ k = <<"nodes">>
      BY <2>2 DEF listGatewayNodes, getQueryKey
    <3>3. QED
      BY <3>1, <3>2
  <2>3. CASE listGatewayAlerts(c)
    <3>1. params \in Urls
      BY <1>1, <2>3 DEF Urls, listGatewayAlerts
    <3>2. Fetch!customFetch(c, Request(params))
      BY <2>3 DEF listGatewayAlerts, getListGatewayAlertsUrl
    <3>3. QED
      BY <3>1, <3>2
  <2>4. QED
    BY <2>1, <2>2, <2>3 DEF queryFn
<1> DEFINE request == Request(url)
           begun == [Fetch!NoCall EXCEPT !.request = request,
                                         !.base = Fetch!applyBaseUrl(request),
                                         !.getter = account,
                                         !.headers = Fetch!HeadersOf(request)]
           next == IF account = Fetch!Nobody \/ "authorization" \in DOMAIN begun.headers
                   THEN "sent" ELSE "token"
           call == [begun EXCEPT !.stage = next]
<1>3. /\ request.method = "GET" /\ request.responseType = "auto" /\ request.query = url
      /\ request.body = "none" /\ ~request.absolute
  BY DEF Fetch!NoRequest
<1> HIDE DEF request
<1>4. /\ calls' = [calls EXCEPT ![c] = call] /\ UNCHANGED <<runtime, account>>
  <2>1. ~(request.body # "none" /\ request.method \in {"GET", "HEAD"})
    BY <1>3
  <2>2. Fetch!customFetch(c, request)
    BY <1>2 DEF request
  <2>3. QED
    BY <2>1, <2>2 DEF Fetch!customFetch
<1>5. /\ DOMAIN call = CallFields /\ call.stage = next /\ call.request = request
      /\ call.base = Fetch!applyBaseUrl(request) /\ call.getter = account
      /\ call.auth = Fetch!Nobody /\ call.outcome = Fetch!Pending
  BY DEF CallFields, Fetch!NoCall
<1>6. account \in Accounts \union {Fetch!Nobody} /\ next \in {"sent", "token"}
  BY DEF StackInv
<1> HIDE DEF call, next, begun
<1>7. CallInv(call)
  BY <1>3, <1>5, <1>6 DEF CallInv, Fetch!Stages, Fetch!applyBaseUrl
<1>8. served[c].stage = "none" /\ ServedInv(served[c])
  BY <1>1 DEF StackInv, Together
<1>9. Together(call, served[c], k)
  BY <1>2, <1>3, <1>5, <1>6, <1>8 DEF Together
<1>10. served' = [served EXCEPT ![c] = served[c]]
  BY <1>1 DEF StackInv
<1>11. CacheInv'
  BY <1>1, CacheStays
<1> HIDE DEF k
<1>12. QED
  BY <1>1, <1>4, <1>7, <1>8, <1>9, <1>10, <1>11, OneCall

\* The answer of the server, as Receive puts it into the call.
LEMMA AnswerArrives ==
    ASSUME StackInv, NEW c \in Calls, Deliver(c)
    PROVE  StackInv'
<1> DEFINE old == calls[c]
           answer == served[c].answer
           response == JsonResponse(answer)
           stream == IF runtime = "native" THEN "undefined"
                     ELSE IF response.status \in Fetch!NO_BODY_STATUS \/ old.request.method = "HEAD"
                          THEN "null" ELSE "stream"
           arrived == [response EXCEPT !.stream = stream]
           call == [old EXCEPT !.stage = "received", !.response = arrived]
<1>1. /\ CallInv(old) /\ ServedInv(served[c]) /\ Together(old, served[c], key[c])
      /\ served[c].stage = "answered" /\ old.stage = "sent"
      /\ calls' = [calls EXCEPT ![c] = call] /\ UNCHANGED <<runtime, account>>
      /\ served' = [served EXCEPT ![c] = Api!NotServed]
      /\ UNCHANGED <<stored, lastSeen, daemonUp, outages>> /\ UNCHANGED <<params, swaps>>
      /\ UNCHANGED key /\ UNCHANGED cache
  BY DEF StackInv, Deliver, Fetch!Receive, Api!Forget, screenVars
<1>2. key' = [key EXCEPT ![c] = key[c]] /\ key[c] \in Keys \union {Nothing}
      /\ (key[c] # Nothing => \A d \in Calls : d # c => key[d] # key[c])
  BY <1>1 DEF StackInv
<1>3. /\ answer.status \in {200, 400, 502} /\ old.request.method = "GET"
      /\ served[c].query = old.request.query
  BY <1>1 DEF ServedInv, Together, CallInv
<1>4. /\ response.status = answer.status /\ response.media = "json" /\ response.form = "json"
      /\ response.length0 = FALSE
      /\ answer.status = 200 => response.value.text = "data" /\ response.value.list = answer.list
      /\ DOMAIN response = DOMAIN Fetch!NoResponse
  BY DEF JsonResponse, Fetch!NoResponse
<1>5. answer.status = 200 => Data(response.value, old.request.query)
  BY <1>1, <1>3, <1>4, ValidLimit DEF ServedInv, Explained, Data
<1>6. stream # "null"
  BY <1>3, <1>4 DEF Fetch!NO_BODY_STATUS
<1> HIDE DEF old, answer, response, stream
<1>7. /\ arrived.status = response.status /\ arrived.media = response.media
      /\ arrived.form = response.form /\ arrived.length0 = response.length0
      /\ arrived.value = response.value /\ arrived.stream = stream
  BY <1>4 DEF Fetch!NoResponse
<1>8. /\ DOMAIN call = CallFields /\ call.stage = "received" /\ call.response = arrived
      /\ call.request = old.request /\ call.base = old.base /\ call.auth = old.auth
      /\ call.getter = old.getter /\ call.outcome = old.outcome
  BY <1>1 DEF CallInv, CallFields
<1> HIDE DEF arrived
<1>9. Arrived(arrived, old.request.query)
  BY <1>3, <1>4, <1>5, <1>6, <1>7 DEF Arrived
<1> HIDE DEF call
<1>10. CallInv(call)
  BY <1>1, <1>8, <1>9 DEF CallInv, Fetch!Stages
<1>11. Together(call, Api!NotServed, key[c])
  BY <1>1, <1>8 DEF Together, Api!NotServed
<1>12. CacheInv'
  BY <1>1, CacheStays
<1>13. QED
  BY <1>1, <1>2, <1>10, <1>11, <1>12, OneCall, IdleIsFine

\* A call that ends without having read anything: with its rejection, or at once.
LEMMA CallRejected ==
    ASSUME StackInv, NEW c \in Calls, Reject(c)
    PROVE  StackInv'
<1> DEFINE old == calls[c]
           call == [old EXCEPT !.stage = "done",
                               !.outcome = Fetch!Outcome("rejected", Fetch!null)]
<1>1. /\ CallInv(old) /\ Together(old, served[c], key[c]) /\ old.stage = "sent"
      /\ calls' = [calls EXCEPT ![c] = call] /\ UNCHANGED <<runtime, account>>
      /\ served' = [served EXCEPT ![c] = Api!NotServed]
      /\ UNCHANGED <<stored, lastSeen, daemonUp, outages>> /\ UNCHANGED <<params, swaps>>
      /\ UNCHANGED key /\ UNCHANGED cache
  BY DEF StackInv, Reject, Fetch!FetchRejects, Api!Forget, screenVars
<1>2. key' = [key EXCEPT ![c] = key[c]] /\ key[c] \in Keys \union {Nothing}
      /\ (key[c] # Nothing => \A d \in Calls : d # c => key[d] # key[c])
  BY <1>1 DEF StackInv
<1> HIDE DEF old
<1>3. /\ DOMAIN call = CallFields /\ call.stage = "done" /\ call.outcome.kind = "rejected"
      /\ call.request = old.request /\ call.base = old.base /\ call.auth = old.auth
      /\ call.getter = old.getter
  BY <1>1 DEF CallInv, CallFields, Fetch!Outcome
<1> HIDE DEF call
<1>4. CallInv(call)
  BY <1>1, <1>3 DEF CallInv, Fetch!Stages
<1>5. Together(call, Api!NotServed, key[c])
  BY <1>1, <1>3 DEF Together, Api!NotServed
<1>6. CacheInv'
  BY <1>1, CacheStays
<1>7. QED
  BY <1>1, <1>2, <1>4, <1>5, <1>6, OneCall, IdleIsFine

LEMMA CallDropped ==
    ASSUME StackInv, NEW c \in Calls, Drop(c)
    PROVE  StackInv'
<1>1. /\ key[c] = Nothing
      /\ calls' = [calls EXCEPT ![c] = Fetch!NoCall] /\ UNCHANGED <<runtime, account>>
      /\ served' = [served EXCEPT ![c] = Api!NotServed]
      /\ UNCHANGED <<stored, lastSeen, daemonUp, outages>> /\ UNCHANGED <<params, swaps>>
      /\ UNCHANGED key /\ UNCHANGED cache
  BY DEF Drop, Aborted, Fetch!Abort, Api!Forget, screenVars
<1>2. key' = [key EXCEPT ![c] = Nothing]
  BY <1>1 DEF StackInv
<1>3. CacheInv'
  BY <1>1, CacheStays
<1>4. QED
  BY <1>1, <1>2, <1>3, OneCall, IdleIsFine

\* What the client makes of a response: of 200 the data, else an error.
LEMMA BodyRead ==
    ASSUME StackInv, NEW c \in Calls, Read(c)
    PROVE  StackInv'
<1> DEFINE old == calls[c]
           response == old.response
           outcome == IF response.status \notin 200 .. 299
                      THEN Fetch!ApiError(response, old.request.method)
                      ELSE Fetch!parseSuccessBody(response, old.request.responseType,
                                                  old.request.method)
           call == [old EXCEPT !.stage = "done", !.outcome = outcome]
<1>1. /\ CallInv(old) /\ Together(old, served[c], key[c]) /\ old.stage = "received"
      /\ calls' = [calls EXCEPT ![c] = call] /\ UNCHANGED <<runtime, account>>
      /\ UNCHANGED served
      /\ UNCHANGED <<stored, lastSeen, daemonUp, outages>> /\ UNCHANGED <<params, swaps>>
      /\ UNCHANGED key /\ UNCHANGED cache
  BY DEF StackInv, Read, Fetch!Finish, apiVars, screenVars
<1>2. key' = [key EXCEPT ![c] = key[c]] /\ key[c] \in Keys \union {Nothing}
      /\ (key[c] # Nothing => \A d \in Calls : d # c => key[d] # key[c])
      /\ served' = [served EXCEPT ![c] = served[c]] /\ ServedInv(served[c])
  BY <1>1 DEF StackInv
<1>3. /\ Arrived(response, old.request.query)
      /\ old.request.method = "GET" /\ old.request.responseType = "auto"
  BY <1>1 DEF CallInv
<1> HIDE DEF response
<1>4. /\ outcome.kind # "pending"
      /\ outcome.kind = "value" => Data(outcome.value, old.request.query)
  <2>1. CASE response.status = 200
    <3>1. ~Fetch!hasNoBody(response, "GET")
      BY <1>3, <2>1 DEF Fetch!hasNoBody, Arrived, Fetch!NO_BODY_STATUS
    <3>2. Fetch!inferResponseType(response) = "json"
      BY <1>3 DEF Fetch!inferResponseType, Fetch!isJsonMediaType, Fetch!isTextMediaType, Arrived
    <3>3. outcome = Fetch!parseSuccessBody(response, "auto", "GET")
      BY <1>3, <2>1
    <3>4. outcome = Fetch!parseJsonBody(response)
      BY <3>1, <3>2, <3>3 DEF Fetch!parseSuccessBody
    <3>5. outcome = Fetch!Outcome("value", response.value)
      BY <1>3, <3>4 DEF Fetch!parseJsonBody, Fetch!stripBom, Arrived
    <3> HIDE DEF outcome
    <3>6. QED
      BY <1>3, <2>1, <3>5 DEF Fetch!Outcome, Arrived
  <2>2. CASE response.status # 200
    <3>1. response.status \notin 200 .. 299
      BY <1>3, <2>2 DEF Arrived
    <3>2. outcome.kind = "ApiError"
      BY <3>1 DEF Fetch!ApiError
    <3>3. QED
      BY <3>2
  <2>3. QED
    BY <2>1, <2>2
<1> HIDE DEF old, outcome
<1>5. /\ DOMAIN call = CallFields /\ call.stage = "done" /\ call.outcome = outcome
      /\ call.request = old.request /\ call.base = old.base /\ call.auth = old.auth
      /\ call.getter = old.getter
  BY <1>1 DEF CallInv, CallFields
<1> HIDE DEF call
<1>6. CallInv(call)
  BY <1>1, <1>4, <1>5 DEF CallInv, Fetch!Stages
<1>7. Together(call, served[c], key[c])
  BY <1>1, <1>5 DEF Together
<1>8. CacheInv'
  BY <1>1, CacheStays
<1>9. QED
  BY <1>1, <1>2, <1>6, <1>7, <1>8, OneCall

\* A key belongs to one query of the screen, but for what the paths without
\* parameters ignore.
LEMMA KeyNames ==
    ASSUME NEW p, NEW q \in Urls, getQueryKey(p) = getQueryKey(q)
    PROVE  p.path = q.path /\ (q.path = "alerts" => p = q)
<1>1. q.path = "alerts" => getQueryKey(q) = <<"alerts", q>>
  BY DEF getQueryKey
<1>2. q.path # "alerts" => getQueryKey(q) = <<q.path>>
  BY DEF getQueryKey
<1>3. p.path = "alerts" => getQueryKey(p) = <<"alerts", p>>
  BY DEF getQueryKey
<1>4. p.path # "alerts" => getQueryKey(p) = <<p.path>>
  BY DEF getQueryKey
<1>5. \A x, y, z : <<x, y>> # <<z>>
  OBVIOUS
<1>6. QED
  BY <1>1, <1>2, <1>3, <1>4, <1>5

\* Data for a query is data for every other with its key.
LEMMA DataOfKey ==
    ASSUME NEW value, NEW q \in Urls, NEW p, getQueryKey(p) = getQueryKey(q), Data(value, q)
    PROVE  Data(value, p)
<1>1. q.path \in {"healthz", "nodes", "alerts"}
  BY DEF Urls, getHealthCheckUrl, getListGatewayNodesUrl
<1>2. p.path = q.path /\ (q.path = "alerts" => p = q)
  BY KeyNames
<1>3. QED
  BY <1>1, <1>2 DEF Data, Api!Honest

\* What settles becomes the data of the call's key.
LEMMA CallSettles ==
    ASSUME StackInv, NEW c \in Calls, Settle(c), ~Aborted(c)
    PROVE  StackInv'
<1> DEFINE old == calls[c]
           k == key[c]
           q == old.request.query
           value == old.outcome.value
<1>1. /\ CallInv(old) /\ ServedInv(served[c]) /\ Together(old, served[c], k)
      /\ old.stage = "done" /\ k # Nothing /\ k \in Keys
      /\ calls' = [calls EXCEPT ![c] = Fetch!NoCall] /\ UNCHANGED <<runtime, account>>
      /\ UNCHANGED served
      /\ UNCHANGED <<stored, lastSeen, daemonUp, outages>> /\ UNCHANGED <<params, swaps>>
      /\ key' = [key EXCEPT ![c] = Nothing]
      /\ cache' = IF old.outcome.kind = "value"
                  THEN [j \in DOMAIN cache \union {k} |-> IF j = k THEN value ELSE cache[j]]
                  ELSE cache
  BY DEF StackInv, Settle, Aborted, Fetch!Release, apiVars
<1>2. k = getQueryKey(q) /\ q \in Urls
  BY <1>1 DEF Together, CallInv
<1>3. served[c].stage = "none" /\ served' = [served EXCEPT ![c] = served[c]]
  BY <1>1 DEF StackInv, Together
<1>4. CacheInv'
  <2>1. CASE old.outcome.kind # "value"
    BY <1>1, <2>1, CacheStays
  <2>2. CASE old.outcome.kind = "value"
    <3>1. Data(value, q)
      BY <1>1, <2>2 DEF CallInv
    <3>2. /\ DOMAIN cache' = DOMAIN cache \union {k}
          /\ \A j \in DOMAIN cache' : cache'[j] = IF j = k THEN value ELSE cache[j]
      BY <1>1, <2>2
    <3>3. DOMAIN cache' \subseteq Keys
      BY <1>1, <3>2 DEF StackInv, CacheInv
    <3>4. TableInv /\ TableStep
      BY <1>1, BoundsAreNumbers DEF StackInv, TableInv, TableStep
    <3> HIDE DEF old, k, q, value
    <3>5. ASSUME NEW p \in Queries \union {Unmounted}, getQueryKey(p) \in DOMAIN cache'
          PROVE  Data(cache[getQueryKey(p)], p)'
      <4>1. PICK v : v = cache'[getQueryKey(p)]
        OBVIOUS
      <4>2. CASE getQueryKey(p) = k
        <5>1. Data(v, p)
          BY <1>2, <3>1, <3>2, <3>5, <4>1, <4>2, DataOfKey
        <5>2. Data(v, p)'
          BY <3>4, <5>1, DataForGood
        <5>3. QED
          BY <4>1, <5>2 DEF Data, getQueryKey
      <4>3. CASE getQueryKey(p) # k
        <5>1. getQueryKey(p) \in DOMAIN cache /\ v = cache[getQueryKey(p)]
          BY <3>2, <3>5, <4>1, <4>3
        <5>2. Data(v, p)
          BY <5>1 DEF StackInv, CacheInv
        <5>3. Data(v, p)'
          BY <3>4, <5>2, DataForGood
        <5>4. QED
          BY <4>1, <5>3 DEF Data, getQueryKey
      <4>4. QED
        BY <4>2, <4>3
    <3>6. QED
      BY <3>3, <3>5 DEF CacheInv, Keys, Unmounted, Fetch!NoQuery, getQueryKey
  <2>3. QED
    BY <2>1, <2>2
<1>5. Together(Fetch!NoCall, served[c], Nothing)
  BY <1>3 DEF Together
<1>6. QED
  BY <1>1, <1>3, <1>4, <1>5, OneCall, IdleIsFine

\* A step of the server for one request, which only changes what it is served.
LEMMA OneServed ==
    ASSUME StackInv, NEW c \in Calls, NEW s,
           calls[c].stage = "sent", ServedInv(s), s.query = calls[c].request.query,
           served' = [served EXCEPT ![c] = s],
           UNCHANGED <<stored, lastSeen, daemonUp, outages>>,
           UNCHANGED fetchVars, UNCHANGED screenVars
    PROVE  StackInv'
<1>1. /\ UNCHANGED <<runtime, account>> /\ UNCHANGED calls
      /\ UNCHANGED <<params, swaps>> /\ UNCHANGED key /\ UNCHANGED cache
  BY DEF fetchVars, screenVars
<1>2. /\ CallInv(calls[c]) /\ Together(calls[c], served[c], key[c])
      /\ key[c] \in Keys \union {Nothing}
      /\ (key[c] # Nothing => \A d \in Calls : d # c => key[d] # key[c])
      /\ key' = [key EXCEPT ![c] = key[c]]
  BY <1>1 DEF StackInv
<1>3. Together(calls[c], s, key[c])
  BY <1>2 DEF Together
<1>4. CacheInv'
  BY <1>1, CacheStays
<1>5. PICK call : call = calls[c]
  OBVIOUS
<1>6. ASSUME NEW d \in Calls
      PROVE  /\ CallInv(calls[d])' /\ ServedInv(served[d])'
             /\ Together(calls[d], served[d], key[d])'
  <2>1. TableInv /\ TableStep
    BY BoundsAreNumbers DEF StackInv, TableInv, TableStep
  <2>2. PICK x, y, z : x = calls[d] /\ y = served'[d] /\ z = key[d]
    OBVIOUS
  <2>3. y = IF d = c THEN s ELSE served[d]
    BY <2>2 DEF StackInv
  <2>4. CallInv(x) /\ ServedInv(y) /\ Together(x, y, z)
    BY <1>3, <2>2, <2>3 DEF StackInv
  <2>5. CallInv(x)' /\ ServedInv(y)'
    BY <2>1, <2>4, CallForGood, ServedForGood
  <2>6. x = calls'[d] /\ z = key'[d]
    BY <1>1, <2>2
  <2>7. CallInv(calls[d])'
    BY <2>5, <2>6
    DEF CallInv, Arrived, Data, CallFields, Urls, getHealthCheckUrl, getListGatewayNodesUrl
  <2>8. ServedInv(served[d])'
    BY <2>2, <2>5 DEF ServedInv, Explained
  <2>9. Together(calls[d], served[d], key[d])'
    BY <2>2, <2>4, <2>6 DEF Together, Nothing, getQueryKey
  <2>10. QED
    BY <2>7, <2>8, <2>9
<1>7. TableInv'
  BY DEF StackInv, TableInv
<1>8. /\ runtime' \in Runtimes /\ account' \in Accounts \union {Fetch!Nobody}
      /\ params' \in Queries \union {Unmounted} /\ swaps' \in 0 .. MaxSwaps
      /\ DOMAIN calls' = Calls /\ served' = [d \in Calls |-> served'[d]]
      /\ key' \in [Calls -> Keys \union {Nothing}]
      /\ \A d, e \in Calls : key'[d] = key'[e] /\ key'[d] # Nothing => d = e
  BY <1>1 DEF StackInv
<1>9. QED
  BY <1>4, <1>6, <1>7, <1>8
  DEF StackInv, Keys, Nothing, Unmounted, Fetch!Nobody, getQueryKey, Fetch!NoQuery

LEMMA RequestArrives ==
    ASSUME StackInv, NEW c \in Calls, Arrive(c)
    PROVE  StackInv'
<1> DEFINE q == calls[c].request.query
           healthy == [Api!NotServed EXCEPT !.stage = "answered", !.query = q,
                                            !.answer = Api!HealthCheckResponse]
           refused == [Api!NotServed EXCEPT !.stage = "answered", !.query = q,
                                            !.answer.status = 400]
           asked == [Api!NotServed EXCEPT !.stage = "asked", !.query = q]
           s == CASE q.path = "healthz" -> healthy
                  [] q.path # "healthz" /\ ~Api!ValidQuery(q) -> refused
                  [] OTHER -> asked
<1>1. /\ calls[c].stage = "sent" /\ served' = [served EXCEPT ![c] = s]
      /\ UNCHANGED <<stored, lastSeen, daemonUp, outages>>
      /\ UNCHANGED fetchVars /\ UNCHANGED screenVars
  BY DEF Arrive, Api!Arrive, Api!gatewayVars
<1> HIDE DEF q
<1>2. q.path = "healthz" => ServedInv(healthy) /\ healthy.query = q
  <2> SUFFICES ASSUME q.path = "healthz" PROVE ServedInv(healthy) /\ healthy.query = q
    OBVIOUS
  <2>1. /\ DOMAIN healthy = {"stage", "query", "answer"} /\ healthy.stage = "answered"
        /\ healthy.query = q /\ healthy.answer.status = 200 /\ healthy.answer.list = <<>>
    BY DEF Api!NotServed, Api!HealthCheckResponse
  <2>2. Api!Honest(<<>>, q)
    BY DEF Api!Honest
  <2> HIDE DEF healthy
  <2>3. QED
    BY <2>1, <2>2 DEF ServedInv, Explained
<1>3. ~Api!ValidQuery(q) => ServedInv(refused) /\ refused.query = q
  <2> SUFFICES ASSUME ~Api!ValidQuery(q) PROVE ServedInv(refused) /\ refused.query = q
    OBVIOUS
  <2>1. /\ DOMAIN refused = {"stage", "query", "answer"} /\ refused.stage = "answered"
        /\ refused.query = q /\ refused.answer.status = 400 /\ refused.answer.list = <<>>
    BY DEF Api!NotServed, Api!NoAnswer
  <2>2. q.limit # Api!NoLimit \/ q.eventClass # Api!NoClass
    BY DEF Api!ValidQuery
  <2>3. <<>> \in Seq(Alert)
    OBVIOUS
  <2> HIDE DEF refused
  <2>4. QED
    BY <2>1, <2>2, <2>3 DEF ServedInv, Explained
<1>4. q.path # "healthz" /\ Api!ValidQuery(q) => ServedInv(asked) /\ asked.query = q
  <2> SUFFICES ASSUME q.path # "healthz", Api!ValidQuery(q)
               PROVE  ServedInv(asked) /\ asked.query = q
    OBVIOUS
  <2>1. /\ DOMAIN asked = {"stage", "query", "answer"} /\ asked.stage = "asked"
        /\ asked.query = q /\ asked.answer = Api!NoAnswer
    BY DEF Api!NotServed
  <2>2. Api!NoAnswer.status = 0 /\ Api!NoAnswer.list = <<>> /\ <<>> \in Seq(Alert)
    BY DEF Api!NoAnswer
  <2> HIDE DEF asked
  <2>3. QED
    BY <2>1, <2>2 DEF ServedInv, Explained
<1> HIDE DEF healthy, refused, asked
<1>5. ServedInv(s) /\ s.query = q
  <2>1. CASE q.path = "healthz"
    BY <1>2, <2>1
  <2>2. CASE q.path # "healthz" /\ ~Api!ValidQuery(q)
    BY <1>3, <2>2
  <2>3. CASE q.path # "healthz" /\ Api!ValidQuery(q)
    BY <1>4, <2>3
  <2>4. QED
    BY <2>1, <2>2, <2>3
<1> HIDE DEF s
<1>6. QED
  BY <1>1, <1>5, OneServed DEF q

Answered(s, status, list) ==
    [s EXCEPT !.stage = "answered", !.answer = [status |-> status, list |-> list]]

LEMMA AnswerIs ==
    ASSUME NEW c, NEW status, NEW list, Api!Answer(c, status, list)
    PROVE  served' = [served EXCEPT ![c] = Answered(served[c], status, list)]
BY DEF Api!Answer, Answered

\* An answer that is explained.
LEMMA Answers ==
    ASSUME StackInv, NEW c \in Calls, NEW status \in {200, 502}, NEW list, NEW q,
           served[c].stage = "asked", q = served[c].query,
           Api!Answer(c, status, list), UNCHANGED fetchVars, UNCHANGED screenVars,
           q.path = "alerts" => list \in Seq(Alert),
           status = 200 => Api!Honest(list, q) /\ (q.path = "alerts" => Api!LimitOf(q) % 2 = 0),
           status = 502 => outages > 0 \/ Api!LimitOf(q) % 2 = 1
    PROVE  StackInv'
<1> DEFINE old == served[c]
           s == Answered(old, status, list)
<1>1. /\ ServedInv(old) /\ Together(calls[c], old, key[c])
      /\ UNCHANGED <<stored, lastSeen, daemonUp, outages>>
      /\ DOMAIN old = {"stage", "query", "answer"}
  BY DEF Api!Answer, Api!gatewayVars, StackInv, ServedInv
<1>2. served' = [served EXCEPT ![c] = s]
  BY AnswerIs
<1>3. /\ DOMAIN s = {"stage", "query", "answer"} /\ s.stage = "answered" /\ s.query = q
      /\ s.answer.status = status /\ s.answer.list = list
  BY <1>1 DEF Answered
<1> HIDE DEF s
<1>4. q.path # "healthz" /\ Api!ValidQuery(q)
  BY <1>1 DEF ServedInv
<1>5. Explained(s)
  BY <1>3, <1>4 DEF Explained
<1>6. ServedInv(s)
  BY <1>3, <1>5 DEF ServedInv
<1>7. calls[c].stage = "sent" /\ s.query = calls[c].request.query
  BY <1>1, <1>3 DEF Together
<1> HIDE DEF old
<1>8. QED
  BY <1>1, <1>2, <1>6, <1>7, OneServed

\* The server answers a request it has asked the daemon for.
LEMMA ServerAnswers ==
    ASSUME StackInv, NEW c \in Calls, ServerStep(c)
    PROVE  StackInv'
<1>1. PICK q : q = served[c].query
  OBVIOUS
<1>2. /\ served[c].stage = "asked" /\ ServedInv(served[c])
      /\ UNCHANGED fetchVars /\ UNCHANGED screenVars
      /\ stored \in Seq(StoredClasses) /\ lastSeen \in Nat /\ TableInv
  BY BoundsAreNumbers
  DEF ServerStep, Api!listGatewayAlerts, Api!listGatewayNodes, Api!gwFetchRejects,
      StackInv, TableInv
<1>3. Api!LimitOf(q) \in Nat /\ q.path # "healthz"
  BY <1>1, <1>2, ValidLimit DEF ServedInv
<1>4. PICK none : none = <<>> /\ none \in Seq(Alert)
  <2>1. <<>> \in Seq(Alert)
    OBVIOUS
  <2>2. QED
    BY <2>1
<1> DEFINE failing == outages > 0 \/ Api!LimitOf(q) % 2 = 1
<1> HIDE DEF failing
<1>5. ASSUME failing, Api!Answer(c, 502, none)
      PROVE  StackInv'
  <2>1. PICK status \in {200, 502} : status = 502 /\ status # 200
    OBVIOUS
  <2>2. Api!Answer(c, status, none) /\ none \in Seq(Alert)
    BY <1>4, <1>5, <2>1
  <2>3. status = 502 => outages > 0 \/ Api!LimitOf(q) % 2 = 1
    BY <1>5 DEF failing
  <2>4. status # 200
    BY <2>1
  <2>5. QED
    BY <1>1, <1>2, <2>2, <2>3, <2>4, Answers
<1>6. CASE Api!listGatewayNodes(c)
  <2>1. Api!ListGatewayNodesResponse(Api!NodeList)
    BY <1>2 DEF Api!ListGatewayNodesResponse, Api!NodeList
  <2>2. q.path = "nodes" /\ Api!Answer(c, 200, Api!NodeList)
    BY <1>1, <1>6, <2>1 DEF Api!listGatewayNodes
  <2>3. Api!Honest(Api!NodeList, q)
    BY <1>2, <2>2 DEF Api!Honest, Api!NodeList
  <2>4. QED
    BY <1>1, <1>2, <2>2, <2>3, Answers
<1>7. CASE Api!listGatewayAlerts(c)
  <2> DEFINE alerts == Api!AlertList(Api!recent_alerts(Api!LimitOf(q) \div 2), q)
  <2>1. alerts \in Seq(Alert) /\ Api!HonestAlerts(alerts, q)
    BY <1>2, <1>3, FreshAlertsAreHonest
  <2>2. /\ q.path = "alerts"
        /\ IF Api!LimitOf(q) % 2 = 0 /\ Api!ListGatewayAlertsResponse(alerts)
           THEN Api!Answer(c, 200, alerts) ELSE Api!Answer(c, 502, <<>>)
    BY <1>1, <1>7 DEF Api!listGatewayAlerts
  <2> HIDE DEF alerts
  <2>3. Api!Honest(alerts, q)
    BY <2>1, <2>2 DEF Api!Honest
  <2>4. Api!ListGatewayAlertsResponse(alerts)
    BY <2>1, AlertsFit
  <2>5. CASE Api!LimitOf(q) % 2 = 0
    <3>1. Api!Answer(c, 200, alerts)
      BY <2>2, <2>4, <2>5
    <3>2. QED
      BY <1>1, <1>2, <2>1, <2>3, <2>5, <3>1, Answers
  <2>6. CASE Api!LimitOf(q) % 2 # 0
    <3>1. Api!Answer(c, 502, none)
      BY <1>4, <2>2, <2>6
    <3>2. Api!LimitOf(q) % 2 = 1
      BY <1>3, <2>6
    <3>3. QED
      BY <1>5, <3>1, <3>2 DEF failing
  <2>7. QED
    BY <2>5, <2>6
<1>8. CASE Api!gwFetchRejects(c)
  <2>1. outages > 0 /\ Api!Answer(c, 502, none)
    BY <1>2, <1>4, <1>8 DEF Api!gwFetchRejects, TableInv
  <2>2. QED
    BY <1>5, <2>1 DEF failing
<1>9. QED
  BY <1>6, <1>7, <1>8 DEF ServerStep

\* A step that touches neither calls nor requests, while calls keep or lose their
\* keys.
LEMMA CallsStay ==
    ASSUME StackInv, TableStep, UNCHANGED calls, UNCHANGED served, NEW c \in Calls,
           key'[c] \in {key[c], Nothing}
    PROVE  /\ CallInv(calls[c])' /\ ServedInv(served[c])'
           /\ Together(calls[c], served[c], key[c])'
<1>1. PICK x, y, z : x = calls[c] /\ y = served[c] /\ z = key'[c]
  OBVIOUS
<1>2. TableInv /\ CallInv(x) /\ ServedInv(y) /\ Together(x, y, key[c])
  BY <1>1 DEF StackInv
<1>3. Together(x, y, z)
  BY <1>1, <1>2 DEF Together
<1>4. CallInv(x)' /\ ServedInv(y)'
  BY <1>2, CallForGood, ServedForGood
<1>5. x = calls'[c] /\ y = served'[c]
  BY <1>1
<1>6. CallInv(calls[c])'
  BY <1>4, <1>5
  DEF CallInv, Arrived, Data, CallFields, Urls, getHealthCheckUrl, getListGatewayNodesUrl
<1>7. ServedInv(served[c])'
  BY <1>4, <1>5 DEF ServedInv, Explained
<1>8. Together(calls[c], served[c], key[c])'
  BY <1>1, <1>3, <1>5 DEF Together, Nothing, getQueryKey
<1>9. QED
  BY <1>6, <1>7, <1>8

\* The daemon's own steps: no call, no request, nothing of the screen.
LEMMA DaemonSteps ==
    ASSUME StackInv, DaemonStep
    PROVE  StackInv'
<1>1. /\ UNCHANGED <<runtime, account>> /\ UNCHANGED calls /\ UNCHANGED served
      /\ UNCHANGED <<params, swaps>> /\ UNCHANGED key /\ UNCHANGED cache
  BY DEF DaemonStep, fetchVars, screenVars, Api!DaemonDown, Api!DaemonUp, Api!Heartbeat, Api!Store
<1>2. TableInv /\ stored \in Seq(StoredClasses) /\ Len(stored) \in Nat /\ lastSeen \in Nat
      /\ outages \in Nat /\ CacheInv
  BY BoundsAreNumbers DEF StackInv, TableInv
<1>3. TableStep /\ TableInv'
  <2>1. CASE Api!DaemonDown
    <3>1. /\ outages < MaxOutages /\ outages' = outages + 1 /\ daemonUp' = FALSE
          /\ UNCHANGED <<stored, lastSeen>>
      BY <2>1 DEF Api!DaemonDown
    <3>2. outages' \in 0 .. MaxOutages /\ outages' > 0 /\ outages <= outages'
      BY <1>2, <3>1, BoundsAreNumbers
    <3>3. TableInv'
      BY <1>2, <3>1, <3>2 DEF TableInv
    <3>4. QED
      BY <3>1, <3>2, <3>3 DEF TableStep
  <2>2. CASE Api!DaemonUp
    BY <1>2, <2>2, BoundsAreNumbers DEF Api!DaemonUp, TableStep, TableInv
  <2>3. CASE Api!Heartbeat
    <3>1. lastSeen' \in 0 .. MaxReceived /\ UNCHANGED <<stored, daemonUp, outages>>
      BY <1>2, <2>3, BoundsAreNumbers DEF Api!Heartbeat
    <3>2. QED
      BY <1>2, <2>3, <3>1 DEF TableStep, TableInv
  <2>4. ASSUME NEW class \in StoredClasses, Api!Store(class)
        PROVE  TableStep /\ TableInv'
    <3>1. /\ stored' \in Seq(StoredClasses) /\ Len(stored') = Len(stored) + 1
          /\ Len(stored) + lastSeen < MaxReceived
          /\ UNCHANGED <<lastSeen, daemonUp, outages>>
      BY <1>2, <2>4 DEF Api!Store
    <3>2. Len(stored') <= MaxReceived
      BY <1>2, <3>1, BoundsAreNumbers
    <3>3. TableInv'
      BY <1>2, <3>1, <3>2 DEF TableInv
    <3>4. TableStep
      BY <1>2, <2>4, <3>1 DEF TableStep
    <3>5. QED
      BY <3>3, <3>4
  <2>5. QED
    BY <2>1, <2>2, <2>3, <2>4 DEF DaemonStep
<1>4. CacheInv'
  BY <1>1, <1>2, <1>3, CacheForGood
<1>5. ASSUME NEW c \in Calls
      PROVE  /\ CallInv(calls[c])' /\ ServedInv(served[c])'
             /\ Together(calls[c], served[c], key[c])'
  <2>1. key'[c] \in {key[c], Nothing}
    BY <1>1
  <2>2. QED
    BY <1>1, <1>3, <2>1, CallsStay
<1>6. /\ runtime' \in Runtimes /\ account' \in Accounts \union {Fetch!Nobody}
      /\ params' \in Queries \union {Unmounted} /\ swaps' \in 0 .. MaxSwaps
      /\ DOMAIN calls' = Calls /\ served' = [d \in Calls |-> served'[d]]
      /\ key' \in [Calls -> Keys \union {Nothing}]
      /\ \A d, e \in Calls : key'[d] = key'[e] /\ key'[d] # Nothing => d = e
  BY <1>1 DEF StackInv
<1>7. QED
  BY <1>3, <1>4, <1>5, <1>6
  DEF StackInv, Keys, Nothing, Unmounted, Fetch!Nobody, getQueryKey, Fetch!NoQuery

\* What the screen leaves loses its observer: no call has a key, so none will
\* become data of the query the screen shows next.
LEMMA ScreenSwitches ==
    ASSUME StackInv, NEW p \in Queries \union {Unmounted}, SwitchTo(p)
    PROVE  StackInv'
<1>1. /\ UNCHANGED <<runtime, account>> /\ UNCHANGED calls /\ UNCHANGED served /\ UNCHANGED cache
      /\ UNCHANGED <<stored, lastSeen, daemonUp, outages>>
      /\ params' = p /\ swaps' = swaps + 1 /\ swaps < MaxSwaps
      /\ key' = [c \in Calls |-> Nothing]
  BY DEF SwitchTo, fetchVars, apiVars
<1>2. TableInv /\ TableStep /\ CacheInv'
  BY <1>1, CacheStays, BoundsAreNumbers DEF StackInv, TableInv, TableStep
<1>3. ASSUME NEW c \in Calls
      PROVE  /\ CallInv(calls[c])' /\ ServedInv(served[c])'
             /\ Together(calls[c], served[c], key[c])'
  <2>1. key'[c] \in {key[c], Nothing}
    BY <1>1
  <2>2. QED
    BY <1>1, <1>2, <2>1, CallsStay
<1>4. TableInv'
  BY <1>1, <1>2 DEF TableInv
<1>5. swaps' \in 0 .. MaxSwaps
  BY <1>1, BoundsAreNumbers DEF StackInv
<1>6. /\ runtime' \in Runtimes /\ account' \in Accounts \union {Fetch!Nobody}
      /\ params' \in Queries \union {Unmounted}
      /\ DOMAIN calls' = Calls /\ served' = [d \in Calls |-> served'[d]]
      /\ key' \in [Calls -> Keys \union {Nothing}]
      /\ \A d, e \in Calls : key'[d] = key'[e] /\ key'[d] # Nothing => d = e
  BY <1>1 DEF StackInv
<1>7. QED
  BY <1>2, <1>3, <1>4, <1>5, <1>6
  DEF StackInv, Keys, Nothing, Unmounted, Fetch!Nobody, getQueryKey, Fetch!NoQuery

LEMMA NothingHappens ==
    ASSUME StackInv, UNCHANGED vars
    PROVE  StackInv'
<1>1. /\ UNCHANGED <<runtime, account>> /\ UNCHANGED calls /\ UNCHANGED served /\ UNCHANGED cache
      /\ UNCHANGED <<stored, lastSeen, daemonUp, outages>> /\ UNCHANGED <<params, swaps>>
      /\ UNCHANGED key
  BY DEF vars, fetchVars, apiVars, screenVars
<1>2. TableInv /\ TableStep /\ CacheInv'
  BY <1>1, CacheStays, BoundsAreNumbers DEF StackInv, TableInv, TableStep
<1>3. ASSUME NEW c \in Calls
      PROVE  /\ CallInv(calls[c])' /\ ServedInv(served[c])'
             /\ Together(calls[c], served[c], key[c])'
  <2>1. key'[c] \in {key[c], Nothing}
    BY <1>1
  <2>2. QED
    BY <1>1, <1>2, <2>1, CallsStay
<1>4. TableInv'
  BY <1>1, <1>2 DEF TableInv
<1>5. /\ runtime' \in Runtimes /\ account' \in Accounts \union {Fetch!Nobody}
      /\ params' \in Queries \union {Unmounted} /\ swaps' \in 0 .. MaxSwaps
      /\ DOMAIN calls' = Calls /\ served' = [d \in Calls |-> served'[d]]
      /\ key' \in [Calls -> Keys \union {Nothing}]
      /\ \A d, e \in Calls : key'[d] = key'[e] /\ key'[d] # Nothing => d = e
  BY <1>1 DEF StackInv
<1>6. QED
  BY <1>2, <1>3, <1>4, <1>5
  DEF StackInv, Keys, Nothing, Unmounted, Fetch!Nobody, getQueryKey, Fetch!NoQuery

LEMMA StackInit == Init => StackInv
<1> SUFFICES ASSUME Init PROVE StackInv
  OBVIOUS
<1>1. /\ runtime \in Runtimes /\ account \in Accounts \union {Fetch!Nobody}
      /\ calls = [c \in Calls |-> Fetch!NoCall]
      /\ stored = <<>> /\ lastSeen = 0 /\ daemonUp = TRUE /\ outages = 0
      /\ served = [c \in Calls |-> Api!NotServed]
      /\ params \in Queries /\ key = [c \in Calls |-> Nothing]
      /\ DOMAIN cache = {} /\ swaps = 0
  BY DEF Init, Fetch!FetchInit, Api!ApiInit
<1>2. TableInv
  BY <1>1, BoundsAreNumbers DEF TableInv
<1>3. CacheInv
  BY <1>1 DEF CacheInv
<1>4. \A c \in Calls : CallInv(calls[c]) /\ ServedInv(served[c])
                       /\ Together(calls[c], served[c], key[c])
  BY <1>1, IdleIsFine
<1>5. QED
  BY <1>1, <1>2, <1>3, <1>4, BoundsAreNumbers DEF StackInv

LEMMA StackStep == StackInv /\ [Next]_vars => StackInv'
<1> SUFFICES ASSUME StackInv, [Next]_vars PROVE StackInv'
  OBVIOUS
<1>1. ASSUME NEW c \in Calls, CallStep(c)
      PROVE  StackInv'
  <2>1. CASE ServerStep(c)
    BY <2>1, ServerAnswers
  <2>2. CASE Arrive(c)
    BY <2>2, RequestArrives
  <2>3. CASE Deliver(c)
    BY <2>3, AnswerArrives
  <2>4. CASE Read(c)
    BY <2>4, BodyRead
  <2>5. CASE ~Aborted(c) /\ Settle(c)
    BY <2>5, CallSettles
  <2>6. QED
    BY <1>1, <2>1, <2>2, <2>3, <2>4, <2>5 DEF CallStep
<1>2. ASSUME NEW c \in Calls, queryFn(c) \/ Reject(c) \/ Drop(c)
      PROVE  StackInv'
  BY <1>2, HookStarts, CallRejected, CallDropped
<1>3. ASSUME NEW p \in Queries \union {Unmounted}, SwitchTo(p)
      PROVE  StackInv'
  BY <1>3, ScreenSwitches
<1>4. CASE DaemonStep
  BY <1>4, DaemonSteps
<1>5. CASE UNCHANGED vars
  BY <1>5, NothingHappens
<1>6. QED
  BY <1>1, <1>2, <1>3, <1>4, <1>5 DEF Next

LEMMA StackInvariant == Spec => []StackInv
<1>1. Init => StackInv
  BY StackInit
<1>2. StackInv /\ [Next]_vars => StackInv'
  BY StackStep
<1>3. QED
  BY <1>1, <1>2, PTL DEF Spec

-----------------------------------------------------------------------------

\* useListGatewayAlerts and the other hooks (api.ts over custom-fetch.ts over
\* routes/gateway.ts): the data a hook shows is an honest answer to its current
\* parameters, for any number of concurrent calls, any queries and any table.
THEOREM ShownAnswersTheQuery == Spec => []ShownMatchesParams
<1>1. StackInv => ShownMatchesParams
  BY DEF StackInv, CacheInv, ShownMatchesParams, Data
<1>2. QED
  BY <1>1, StackInvariant, PTL

\* routes/gateway.ts: in every state each answer is the one its query calls for,
\* and calls, requests and cache are what their types say.  It is the safety part
\* of CallsAnswered.
THEOREM AnswersAreExplained == Spec => [](TypeOK /\ Api!AnswersExplained)
<1>1. ASSUME StackInv PROVE TypeOK /\ Api!AnswersExplained
  <2>1. Api!AnswersExplained
    BY <1>1 DEF StackInv, ServedInv, Explained, Api!AnswersExplained
  <2>2. Fetch!FetchTypeOK
    <3>1. runtime \in Runtimes /\ account \in Accounts \union {Fetch!Nobody}
      BY <1>1 DEF StackInv
    <3>2. ASSUME NEW c \in Calls
          PROVE  /\ calls[c].stage \in Fetch!Stages
                 /\ calls[c].base \in Accounts \union {Fetch!Nobody}
                 /\ calls[c].auth \in Accounts \union {Fetch!Nobody}
                 /\ calls[c].getter \in Accounts \union {Fetch!Nobody}
                 /\ (calls[c].outcome = Fetch!Pending) = (calls[c].stage # "done")
      <4>1. CallInv(calls[c])
        BY <1>1 DEF StackInv
      <4>2. calls[c].stage # "done" => calls[c].outcome = Fetch!Pending
        BY <4>1 DEF CallInv
      <4>3. calls[c].stage = "done" => calls[c].outcome # Fetch!Pending
        BY <4>1 DEF CallInv, Fetch!Pending, Fetch!Outcome
      <4>4. QED
        BY <4>1, <4>2, <4>3 DEF CallInv
    <3>3. QED
      BY <3>1, <3>2 DEF Fetch!FetchTypeOK
  <2>3. Api!ApiTypeOK
    <3>1. stored \in Seq(StoredClasses) /\ Len(stored) <= MaxReceived
          /\ lastSeen \in 0 .. MaxReceived /\ daemonUp \in BOOLEAN /\ outages \in 0 .. MaxOutages
      BY <1>1 DEF StackInv, TableInv
    <3>2. ASSUME NEW c \in Calls
          PROVE  /\ served[c].stage \in {"none", "asked", "answered"}
                 /\ served[c].answer.status \in {0, 200, 400, 502}
      <4>1. ServedInv(served[c])
        BY <1>1 DEF StackInv
      <4>2. QED
        BY <4>1 DEF ServedInv, Api!NoAnswer
    <3>3. ASSUME NEW c \in Calls, served[c].query.path = "alerts"
          PROVE  \A i \in DOMAIN served[c].answer.list :
                    served[c].answer.list[i].eventClass \in Api!EventClasses
      <4>1. PICK list \in Seq(Alert) : list = served[c].answer.list
        BY <1>1, <3>3 DEF StackInv, ServedInv
      <4>2. \A i \in DOMAIN list : list[i] \in Alert
        OBVIOUS
      <4>3. QED
        BY <4>1, <4>2 DEF Alert
    <3>4. QED
      BY <3>1, <3>2, <3>3 DEF Api!ApiTypeOK
  <2>4. QED
    BY <1>1, <2>1, <2>2, <2>3 DEF StackInv, CacheInv, TypeOK
<1>2. QED
  BY <1>1, StackInvariant, PTL

=============================================================================
