-------------------------- MODULE ClientPartsProofs --------------------------
(***************************************************************************)
(* Proofs about the parts of the clients.  A behaviour is one of a single  *)
(* part, so that each part has an inductive invariant of its own, which    *)
(* the steps of the others leave alone; a section for each part states it, *)
(* shows that the part's steps keep it, and draws from it the promise the  *)
(* runs check, for every value of the constants.                           *)
(***************************************************************************)
EXTENDS ClientParts, FiniteSetTheorems, WellFoundedInduction, NaturalsInduction, TLAPS

(***************************************************************************)
(* One step of the whole is a step of one part, or changes nothing of it.  *)
(***************************************************************************)
LEMMA PartsStep ==
    ASSUME [Next]_vars
    PROVE  /\ T!ToastStep \/ UNCHANGED toastVars
           /\ S!SidebarStep \/ UNCHANGED sidebarVars
           /\ C!CarouselStep \/ UNCHANGED carouselVars
           /\ G!ChartStep \/ UNCHANGED chartVars
           /\ F!FormStep \/ UNCHANGED formVars
           /\ Y!StyleStep \/ UNCHANGED styleVars
           /\ K!CalendarStep \/ UNCHANGED calendarVars
           /\ L!LifeStep \/ UNCHANGED lifeVars
           /\ O!CodegenStep \/ UNCHANGED codegenVars
           /\ FetchStep \/ UNCHANGED fetchVars
<1>1. CASE Next
  BY <1>1 DEF Next, Toasts, Sidebar, Carousel, Chart, FormField, ChartStyles, Calendar,
              ServerLife, Codegen, CustomFetch
<1>2. CASE UNCHANGED vars
  BY <1>2 DEF vars
<1>3. QED
  BY <1>1, <1>2

\* A set of numbers that is not empty has a smallest one.
LEMMA NatMin ==
    ASSUME NEW N \in SUBSET Nat, N # {}
    PROVE  \E m \in N : \A n \in N : m <= n
<1>1. IsWellFoundedOn(OpToRel(<, Nat), Nat)
  BY NatLessThanWellFounded
<1>2. PICK m \in N : \A n \in N : ~(<<n, m>> \in OpToRel(<, Nat))
  BY <1>1, WFMin
<1>3. \A n \in N : ~(n < m)
  BY <1>2 DEF OpToRel
<1>4. QED
  BY <1>3

-----------------------------------------------------------------------------
(* The toasts *)

Toast == [id : Nat, open : BOOLEAN]

\* kept is filter's account of the first m toasts.
Keeps(kept, toasts, id, m) ==
    kept = [i \in 0 .. m |->
              IF i = 0 THEN <<>>
              ELSE IF toasts[i].id # id THEN Append(kept[i - 1], toasts[i])
              ELSE kept[i - 1]]

LEMMA KeepsExists ==
    ASSUME NEW toasts, NEW id, NEW m \in Nat
    PROVE  \E kept : Keeps(kept, toasts, id, m)
<1> DEFINE Bad == {i \in Nat : ~ \E kept : Keeps(kept, toasts, id, i)}
<1>1. SUFFICES ASSUME Bad # {} PROVE FALSE
  OBVIOUS
<1>2. PICK i \in Bad : \A j \in Bad : i <= j
  BY <1>1, NatMin
<1>3. i # 0
  <2>1. Keeps([j \in 0 .. 0 |-> <<>>], toasts, id, 0)
    BY DEF Keeps
  <2>2. QED
    BY <2>1
<1>4. i \in Nat /\ i - 1 \in Nat /\ i - 1 \notin Bad
  BY <1>2, <1>3
<1>5. PICK f : Keeps(f, toasts, id, i - 1)
  BY <1>4
<1> DEFINE last == IF toasts[i].id # id THEN Append(f[i - 1], toasts[i]) ELSE f[i - 1]
           g == [j \in 0 .. i |-> IF j = i THEN last ELSE f[j]]
<1>6. \A j \in 0 .. i - 1 : g[j] = f[j]
  BY <1>4
<1>7. g[i] = last
  BY <1>4
<1> DEFINE Entry(h, j) == IF j = 0 THEN <<>>
                          ELSE IF toasts[j].id # id THEN Append(h[j - 1], toasts[j])
                          ELSE h[j - 1]
<1>8. \A j \in 0 .. i : g[j] = Entry(g, j)
  <2> SUFFICES ASSUME NEW j \in 0 .. i PROVE g[j] = Entry(g, j)
    OBVIOUS
  <2>1. CASE j = i
    <3>1. g[i - 1] = f[i - 1]
      BY <1>4, <1>6
    <3>2. QED
      BY <1>3, <1>7, <2>1, <3>1
  <2>2. CASE j # i
    <3>1. j \in 0 .. i - 1 /\ g[j] = f[j]
      BY <1>4, <1>6, <2>2
    <3>2. f[j] = Entry(f, j)
      BY <1>5, <3>1 DEF Keeps
    <3>3. j # 0 => g[j - 1] = f[j - 1]
      BY <1>4, <1>6, <3>1
    <3>4. QED
      BY <3>1, <3>2, <3>3
  <2>3. QED
    BY <2>1, <2>2
<1>9. g = [j \in 0 .. i |-> Entry(g, j)]
  <2>1. g = [j \in 0 .. i |-> g[j]]
    OBVIOUS
  <2> HIDE DEF g
  <2>2. QED
    BY <1>8, <2>1
<1>10. Keeps(g, toasts, id, i)
  BY <1>9 DEF Keeps
<1>11. QED
  BY <1>2, <1>10

\* No two toasts have one id.
Distinct(toasts) == \A a, b \in DOMAIN toasts : toasts[a].id = toasts[b].id => a = b

\* list holds, once each, some of the first k toasts, none with the id.
Thinned(list, toasts, id, k) ==
    /\ list \in Seq(Toast) /\ Len(list) <= k /\ Distinct(list)
    /\ \A a \in DOMAIN list :
          list[a].id # id /\ \E b \in 1 .. k : list[a].id = toasts[b].id

LEMMA KeptIsThinned ==
    ASSUME NEW toasts \in Seq(Toast), Distinct(toasts), NEW id, NEW kept,
           Keeps(kept, toasts, id, Len(toasts))
    PROVE  \A i \in 0 .. Len(toasts) : Thinned(kept[i], toasts, id, i)
<1> DEFINE n == Len(toasts)
           Bad == {i \in 0 .. n : ~Thinned(kept[i], toasts, id, i)}
<1>0. n \in Nat /\ \A i \in 1 .. n : toasts[i] \in Toast
  OBVIOUS
<1>1. SUFFICES ASSUME Bad # {} PROVE FALSE
  OBVIOUS
<1>2. PICK i \in Bad : \A j \in Bad : i <= j
  <2>1. Bad \in SUBSET Nat
    BY <1>0
  <2> HIDE DEF Bad
  <2>2. QED
    BY <1>1, <2>1, NatMin
<1>3. i \in 0 .. n /\ ~Thinned(kept[i], toasts, id, i)
  BY <1>2
<1>4. \A j \in 0 .. n : kept[j] = IF j = 0 THEN <<>>
                          ELSE IF toasts[j].id # id THEN Append(kept[j - 1], toasts[j])
                               ELSE kept[j - 1]
  BY DEF Keeps
<1>5. i # 0
  <2>1. SUFFICES ASSUME i = 0 PROVE Thinned(kept[i], toasts, id, i)
    BY <1>3
  <2>2. kept[i] = <<>>
    BY <1>0, <1>4, <2>1
  <2>3. QED
    BY <2>1, <2>2 DEF Thinned, Distinct
<1>6. i - 1 \in 0 .. n /\ i - 1 \notin Bad /\ i \in 1 .. n
  BY <1>0, <1>2, <1>3, <1>5
<1> DEFINE before == kept[i - 1]
<1>7. Thinned(before, toasts, id, i - 1)
  BY <1>6
<1>8. CASE toasts[i].id # id
  <2>1. kept[i] = Append(before, toasts[i]) /\ toasts[i] \in Toast
    <3>1. kept[i] = Append(before, toasts[i])
      BY <1>3, <1>4, <1>5, <1>8
    <3>2. QED
      BY <1>0, <1>6, <3>1
  <2> DEFINE m == Len(before)
  <2>2. /\ before \in Seq(Toast) /\ m \in Nat /\ m <= i - 1 /\ DOMAIN before = 1 .. m
        /\ Distinct(before)
        /\ \A a \in 1 .. m : before[a].id # id
                             /\ \E b \in 1 .. i - 1 : before[a].id = toasts[b].id
    BY <1>7 DEF Thinned
  <2> HIDE DEF before
  <2>3. /\ kept[i] \in Seq(Toast) /\ Len(kept[i]) = m + 1 /\ DOMAIN kept[i] = 1 .. m + 1
        /\ kept[i][m + 1] = toasts[i] /\ \A a \in 1 .. m : kept[i][a] = before[a]
    BY <2>1, <2>2
  <2>4. ASSUME NEW a \in 1 .. m
        PROVE  before[a].id # toasts[i].id
    <3>1. PICK b \in 1 .. i - 1 : before[a].id = toasts[b].id
      BY <2>2
    <3>2. b \in DOMAIN toasts /\ i \in DOMAIN toasts /\ b # i
      BY <1>0, <1>6
    <3>3. QED
      BY <3>1, <3>2 DEF Distinct
  <2>5. Distinct(kept[i])
    <3>1. ASSUME NEW a \in 1 .. m + 1, NEW b \in 1 .. m + 1, kept[i][a].id = kept[i][b].id
          PROVE  a = b
      <4>1. CASE a = m + 1 /\ b # m + 1
        BY <2>2, <2>3, <2>4, <3>1, <4>1
      <4>2. CASE a # m + 1 /\ b = m + 1
        BY <2>2, <2>3, <2>4, <3>1, <4>2
      <4>3. CASE a # m + 1 /\ b # m + 1
        <5>1. a \in 1 .. m /\ b \in 1 .. m
          BY <2>2, <4>3
        <5>2. QED
          BY <2>2, <2>3, <3>1, <5>1 DEF Distinct
      <4>4. QED
        BY <4>1, <4>2, <4>3
    <3>2. QED
      BY <2>3, <3>1 DEF Distinct
  <2>6. ASSUME NEW a \in 1 .. m + 1
        PROVE  kept[i][a].id # id /\ \E b \in 1 .. i : kept[i][a].id = toasts[b].id
    <3>1. CASE a = m + 1
      BY <1>6, <1>8, <2>3, <3>1
    <3>2. CASE a # m + 1
      <4>1. a \in 1 .. m /\ kept[i][a] = before[a]
        BY <2>2, <2>3, <3>2
      <4>2. PICK b \in 1 .. i - 1 : before[a].id = toasts[b].id
        BY <2>2, <4>1
      <4>3. b \in 1 .. i
        BY <1>6
      <4>4. QED
        BY <2>2, <4>1, <4>2, <4>3
    <3>3. QED
      BY <3>1, <3>2
  <2>7. Len(kept[i]) <= i
    BY <1>6, <2>2, <2>3
  <2>8. QED
    BY <1>3, <2>3, <2>5, <2>6, <2>7 DEF Thinned
<1>9. CASE toasts[i].id = id
  <2>1. kept[i] = before
    BY <1>0, <1>4, <1>6, <1>9
  <2>2. Len(before) <= i
    <3>1. Len(before) \in Nat /\ Len(before) <= i - 1
      BY <1>7 DEF Thinned
    <3>2. QED
      BY <1>6, <3>1
  <2> HIDE DEF before
  <2>3. \A b \in 1 .. i - 1 : b \in 1 .. i
    BY <1>6
  <2>4. Thinned(before, toasts, id, i)
    BY <1>7, <2>2, <2>3 DEF Thinned
  <2>5. QED
    BY <1>3, <2>1, <2>4
<1>10. QED
  BY <1>8, <1>9

LEMMA RemovedIsThinned ==
    ASSUME NEW toasts \in Seq(Toast), Distinct(toasts), NEW id
    PROVE  Thinned(T!Removed(toasts, id), toasts, id, Len(toasts))
<1> DEFINE n == Len(toasts)
           f == CHOOSE kept : Keeps(kept, toasts, id, n)
<1>1. n \in Nat
  OBVIOUS
<1>2. Keeps(f, toasts, id, n)
  BY <1>1, KeepsExists
<1>3. T!Removed(toasts, id) = f[n]
  BY DEF T!Removed, Keeps
<1> HIDE DEF f
<1>4. QED
  BY <1>1, <1>2, <1>3, KeptIsThinned

\* Who listens is subscribed, and an effect that has to run again has a
\* subscription to clean up.
ToastInv ==
    /\ T!ToastTypeOK
    /\ memoryState \in Seq(Toast)
    /\ state = [v \in Viewers |-> state[v]]
    /\ \A v \in due : mounted[v] = "subscribed"
    /\ T!ListenersAreMounted
    /\ T!ViewIsCurrent

LEMMA ToastBounds == TOAST_LIMIT \in Nat \ {0} /\ MaxToasts \in Nat
BY ClientPartsAssumption DEF T!ToastsAssumption

LEMMA ToldAreSubscribed ==
    ASSUME ToastInv
    PROVE  T!Told = {v \in Viewers : mounted[v] = "subscribed"}
BY DEF ToastInv, T!Told, T!ListenersAreMounted

\* The store gets new toasts of known ids, and tells its listeners.
LEMMA StoreTells ==
    ASSUME ToastInv, NEW new \in Seq(Toast), T!dispatch(new),
           Len(new) <= TOAST_LIMIT, Distinct(new), T!Ids(new) \subseteq 1 .. count',
           count' \in 0 .. MaxToasts,
           toastTimeouts' \subseteq 1 .. count', dismissed' \subseteq 1 .. count'
    PROVE  ToastInv'
<1>1. /\ memoryState' = new /\ missed' \subseteq Viewers
      /\ state' = [v \in Viewers |-> IF v \in T!Told THEN new ELSE state[v]]
      /\ due' = due \union T!Told
      /\ missed' = {v \in Viewers : mounted[v] \in {"rendered", "between"} /\ new # state[v]}
      /\ listeners' = listeners /\ mounted' = mounted
  BY DEF T!dispatch
<1>2. T!Told = {v \in Viewers : mounted[v] = "subscribed"}
  BY ToldAreSubscribed
<1>3. T!ToastTypeOK'
  BY <1>1, <1>2 DEF ToastInv, T!ToastTypeOK, T!Ids, Distinct
<1>4. T!ListenersAreMounted' /\ \A v \in due' : mounted'[v] = "subscribed"
  BY <1>1, <1>2 DEF ToastInv, T!ListenersAreMounted
<1>5. ASSUME NEW v \in Viewers, mounted'[v] # "no", v \notin missed'
      PROVE  state'[v] = memoryState'
  <2>1. mounted[v] \in {"rendered", "subscribed", "between"}
    BY <1>1, <1>5 DEF ToastInv, T!ToastTypeOK
  <2>2. QED
    BY <1>1, <1>2, <1>5, <2>1
<1>6. state' = [v \in Viewers |-> state'[v]]
  BY <1>1
<1>7. QED
  BY <1>1, <1>3, <1>4, <1>5, <1>6 DEF ToastInv, T!ViewIsCurrent

\* Toasts that keep their ids and places.
LEMMA SameIds ==
    ASSUME ToastInv, NEW new, new = [i \in DOMAIN memoryState |-> new[i]],
           \A i \in DOMAIN memoryState : new[i] \in Toast /\ new[i].id = memoryState[i].id
    PROVE  /\ new \in Seq(Toast) /\ Len(new) <= TOAST_LIMIT /\ Distinct(new)
           /\ T!Ids(new) = T!Ids(memoryState)
<1>1. /\ Len(memoryState) \in Nat /\ Len(memoryState) <= TOAST_LIMIT
      /\ DOMAIN memoryState = 1 .. Len(memoryState) /\ Distinct(memoryState)
  BY DEF ToastInv, T!ToastTypeOK, Distinct
<1>2. /\ new \in Seq(Toast) /\ Len(new) = Len(memoryState) /\ DOMAIN new = DOMAIN memoryState
  BY <1>1
<1>3. Distinct(new)
  BY <1>1, <1>2 DEF Distinct
<1>4. T!Ids(new) = T!Ids(memoryState)
  BY <1>2 DEF T!Ids
<1>5. QED
  BY <1>1, <1>2, <1>3, <1>4

\* What a known toast says, and the ids that are known.
LEMMA KnownToasts ==
    ASSUME ToastInv
    PROVE  /\ count \in Nat /\ count <= MaxToasts
           /\ T!Ids(memoryState) \subseteq 1 .. count
           /\ toastTimeouts \subseteq 1 .. count /\ dismissed \subseteq 1 .. count
           /\ Distinct(memoryState) /\ Len(memoryState) <= TOAST_LIMIT
           /\ Len(memoryState) \in Nat /\ DOMAIN memoryState = 1 .. Len(memoryState)
           /\ \A i \in DOMAIN memoryState : /\ memoryState[i] \in Toast
                                            /\ memoryState[i].id \in 1 .. count
BY ToastBounds DEF ToastInv, T!ToastTypeOK, T!Ids, Distinct

LEMMA ToastAdded ==
    ASSUME ToastInv, T!toast
    PROVE  ToastInv' /\ T!GoneForGood
<1> DEFINE new == [id |-> count + 1, open |-> TRUE]
           all == <<new>> \o memoryState
           m == IF Len(all) < TOAST_LIMIT THEN Len(all) ELSE TOAST_LIMIT
           list == SubSeq(all, 1, m)
<1>1. /\ count < MaxToasts /\ count' = count + 1 /\ T!dispatch(list)
      /\ toastTimeouts' = toastTimeouts /\ dismissed' = dismissed
  <2>1. count' = count + 1
    BY DEF T!toast
  <2>2. QED
    BY <2>1 DEF T!toast, T!Trimmed
<1>2. /\ new \in Toast /\ new.id = count + 1
  BY KnownToasts DEF Toast
<1> HIDE DEF new
<1>3. /\ all \in Seq(Toast) /\ Len(all) = Len(memoryState) + 1 /\ all[1] = new
      /\ \A i \in 2 .. Len(memoryState) + 1 : all[i] = memoryState[i - 1]
  BY <1>2, KnownToasts DEF ToastInv
<1> HIDE DEF all
<1>4. m \in Nat /\ 1 <= m /\ m <= Len(all) /\ m <= TOAST_LIMIT
  BY <1>3, KnownToasts, ToastBounds
<1> HIDE DEF m
<1>5. /\ list \in Seq(Toast) /\ Len(list) = m /\ DOMAIN list = 1 .. m
      /\ \A i \in 1 .. m : list[i] = all[i]
  BY <1>3, <1>4
<1> HIDE DEF list
<1>6. \A i \in 1 .. m : IF i = 1 THEN list[i].id = count + 1
                        ELSE /\ i - 1 \in DOMAIN memoryState
                             /\ list[i].id = memoryState[i - 1].id
  BY <1>2, <1>3, <1>4, <1>5, KnownToasts
<1>7. Distinct(list)
  <2> SUFFICES ASSUME NEW a \in 1 .. m, NEW b \in 1 .. m, list[a].id = list[b].id
               PROVE  a = b
    BY <1>5 DEF Distinct
  <2>1. CASE a = 1 /\ b # 1
    BY <1>6, <2>1, KnownToasts
  <2>2. CASE a # 1 /\ b = 1
    BY <1>6, <2>2, KnownToasts
  <2>3. CASE a # 1 /\ b # 1
    <3>1. /\ a - 1 \in DOMAIN memoryState /\ b - 1 \in DOMAIN memoryState
          /\ memoryState[a - 1].id = memoryState[b - 1].id
      BY <1>6, <2>3
    <3>2. a - 1 = b - 1
      BY <3>1, KnownToasts DEF Distinct
    <3>3. QED
      BY <1>4, <3>2
  <2>4. QED
    BY <2>1, <2>2, <2>3
<1>8. T!Ids(list) \subseteq T!Ids(memoryState) \union {count + 1}
  BY <1>5, <1>6 DEF T!Ids
<1>9. T!Ids(list) \subseteq 1 .. count + 1
  BY <1>8, KnownToasts
<1>10. ToastInv'
  <2>1. count + 1 \in 0 .. MaxToasts
    BY <1>1, KnownToasts, ToastBounds
  <2>2. toastTimeouts' \subseteq 1 .. count + 1 /\ dismissed' \subseteq 1 .. count + 1
    BY <1>1, KnownToasts
  <2>3. Len(list) <= TOAST_LIMIT
    BY <1>4, <1>5
  <2>4. QED
    BY <1>1, <1>5, <1>7, <1>9, <2>1, <2>2, <2>3, StoreTells
<1>11. T!GoneForGood
  <2>1. memoryState' = list
    BY <1>1 DEF T!dispatch
  <2>2. T!Ids(memoryState') \subseteq T!Ids(memoryState) \union {count + 1}
    BY <1>8, <2>1
  <2>3. \A id \in 1 .. count : id # count + 1
    BY KnownToasts
  <2>4. QED
    BY <2>2, <2>3 DEF T!GoneForGood
<1>12. QED
  BY <1>10, <1>11

LEMMA ToastUpdated ==
    ASSUME ToastInv, NEW id, NEW shown \in BOOLEAN, T!update(id, shown)
    PROVE  ToastInv' /\ T!GoneForGood
<1> DEFINE new == T!Updated(memoryState, id, shown)
<1>1. T!dispatch(new) /\ count' = count /\ toastTimeouts' = toastTimeouts /\ dismissed' = dismissed
  BY DEF T!update
<1>2. /\ new = [i \in DOMAIN memoryState |-> new[i]]
      /\ \A i \in DOMAIN memoryState : new[i] \in Toast /\ new[i].id = memoryState[i].id
  BY KnownToasts DEF T!Updated, Toast
<1> HIDE DEF new
<1>3. /\ new \in Seq(Toast) /\ Len(new) <= TOAST_LIMIT /\ Distinct(new)
      /\ T!Ids(new) = T!Ids(memoryState)
  BY <1>2, SameIds
<1>4. ToastInv'
  BY <1>1, <1>3, KnownToasts, ToastBounds, StoreTells
<1>5. memoryState' = new
  BY <1>1 DEF T!dispatch
<1>6. QED
  BY <1>3, <1>4, <1>5 DEF T!GoneForGood

LEMMA ToastDismissed ==
    ASSUME ToastInv, NEW ids \in SUBSET (1 .. count), T!dismiss(ids)
    PROVE  ToastInv' /\ T!GoneForGood
<1> DEFINE new == [i \in DOMAIN memoryState |->
                     IF memoryState[i].id \in ids THEN [memoryState[i] EXCEPT !.open = FALSE]
                                                  ELSE memoryState[i]]
<1>1. /\ T!dispatch(new) /\ count' = count /\ toastTimeouts' = toastTimeouts \union ids
      /\ dismissed' = dismissed \union (ids \intersect T!Ids(memoryState))
  BY DEF T!dismiss, T!addToRemoveQueue
<1>2. /\ new = [i \in DOMAIN memoryState |-> new[i]]
      /\ \A i \in DOMAIN memoryState : new[i] \in Toast /\ new[i].id = memoryState[i].id
  BY KnownToasts DEF Toast
<1> HIDE DEF new
<1>3. /\ new \in Seq(Toast) /\ Len(new) <= TOAST_LIMIT /\ Distinct(new)
      /\ T!Ids(new) = T!Ids(memoryState)
  BY <1>2, SameIds
<1>4. /\ toastTimeouts' \subseteq 1 .. count' /\ dismissed' \subseteq 1 .. count'
      /\ T!Ids(new) \subseteq 1 .. count' /\ count' \in 0 .. MaxToasts
  <2>1. toastTimeouts' \subseteq 1 .. count' /\ dismissed' \subseteq 1 .. count'
    BY <1>1, KnownToasts
  <2>2. T!Ids(new) \subseteq 1 .. count'
    BY <1>1, <1>3, KnownToasts
  <2>3. count' \in 0 .. MaxToasts
    BY <1>1, KnownToasts
  <2>4. QED
    BY <2>1, <2>2, <2>3
<1>5. ToastInv'
  BY <1>1, <1>3, <1>4, StoreTells
<1>6. memoryState' = new
  BY <1>1 DEF T!dispatch
<1>7. QED
  BY <1>3, <1>5, <1>6 DEF T!GoneForGood

LEMMA ToastExpired ==
    ASSUME ToastInv, NEW id, T!Expire(id)
    PROVE  ToastInv' /\ T!GoneForGood
<1> DEFINE new == T!Removed(memoryState, id)
<1>1. /\ T!dispatch(new) /\ count' = count /\ toastTimeouts' = toastTimeouts \ {id}
      /\ dismissed' = dismissed
  BY DEF T!Expire
<1>2. Thinned(new, memoryState, id, Len(memoryState))
  BY KnownToasts, RemovedIsThinned DEF ToastInv
<1> HIDE DEF new
<1>3. /\ new \in Seq(Toast) /\ Len(new) <= Len(memoryState) /\ Distinct(new)
      /\ T!Ids(new) \subseteq T!Ids(memoryState)
  BY <1>2, KnownToasts DEF Thinned, T!Ids
<1>4. Len(new) <= TOAST_LIMIT
  <2>1. Len(new) \in Nat
    BY <1>3
  <2>2. QED
    BY <1>3, <2>1, KnownToasts, ToastBounds
<1>5. /\ toastTimeouts' \subseteq 1 .. count' /\ dismissed' \subseteq 1 .. count'
      /\ T!Ids(new) \subseteq 1 .. count' /\ count' \in 0 .. MaxToasts
  <2>1. toastTimeouts' \subseteq 1 .. count'
    BY <1>1, KnownToasts
  <2>2. dismissed' \subseteq 1 .. count'
    BY <1>1, KnownToasts
  <2>3. T!Ids(new) \subseteq 1 .. count'
    BY <1>1, <1>3, KnownToasts
  <2>4. count' \in 0 .. MaxToasts
    BY <1>1, KnownToasts
  <2>5. QED
    BY <2>1, <2>2, <2>3, <2>4
<1>6. ToastInv'
  BY <1>1, <1>3, <1>4, <1>5, StoreTells
<1>7. memoryState' = new
  BY <1>1 DEF T!dispatch
<1>8. QED
  BY <1>3, <1>6, <1>7 DEF T!GoneForGood

\* A component comes, subscribes, cleans up or goes; the store does not change.
LEMMA ViewerSteps ==
    ASSUME ToastInv, T!ViewerStep
    PROVE  ToastInv' /\ T!GoneForGood
<1> USE DEF T!store
<1>1. UNCHANGED <<count, memoryState, toastTimeouts, dismissed>>
  BY DEF T!ViewerStep, T!Mount, T!Subscribe, T!Cleanup, T!Unmount
<1>2. T!GoneForGood
  BY <1>1 DEF T!GoneForGood, T!Ids
<1>3. /\ listeners \in [Viewers -> Nat]
      /\ mounted \in [Viewers -> {"no", "rendered", "subscribed", "between"}]
      /\ due \subseteq Viewers /\ missed \subseteq Viewers
      /\ state = [v \in Viewers |-> state[v]]
      /\ \A v \in Viewers : listeners[v] = IF mounted[v] = "subscribed" THEN 1 ELSE 0
      /\ \A v \in Viewers : mounted[v] # "no" /\ v \notin missed => state[v] = memoryState
      /\ \A v \in due : mounted[v] = "subscribed"
  BY DEF ToastInv, T!ToastTypeOK, T!ListenersAreMounted, T!ViewIsCurrent
<1> DEFINE KeepsViews ==
        /\ listeners' \in [Viewers -> Nat]
        /\ mounted' \in [Viewers -> {"no", "rendered", "subscribed", "between"}]
        /\ due' \subseteq Viewers /\ missed' \subseteq Viewers
        /\ state' = [v \in Viewers |-> state'[v]]
        /\ \A v \in Viewers : listeners'[v] = IF mounted'[v] = "subscribed" THEN 1 ELSE 0
        /\ \A v \in Viewers : mounted'[v] # "no" /\ v \notin missed' => state'[v] = memoryState
        /\ \A v \in due' : mounted'[v] = "subscribed"
<1>4. SUFFICES KeepsViews
  BY <1>1, <1>2 DEF ToastInv, T!ToastTypeOK, T!ListenersAreMounted, T!ViewIsCurrent, T!Ids
<1>5. ASSUME NEW w \in Viewers, T!Mount(w) PROVE KeepsViews
  BY <1>3, <1>5 DEF T!Mount
<1>6. ASSUME NEW w \in Viewers, T!Subscribe(w) PROVE KeepsViews
  BY <1>3, <1>6 DEF T!Subscribe
<1>7. CASE T!Cleanup
  BY <1>3, <1>7 DEF T!Cleanup, T!Without
<1>8. ASSUME NEW w \in Viewers, T!Unmount(w) PROVE KeepsViews
  <2>1. /\ mounted[w] = "subscribed" /\ listeners[w] = 1
        /\ mounted' = [mounted EXCEPT ![w] = "no"]
        /\ state' = [state EXCEPT ![w] = <<>>]
        /\ due' = due \ {w} /\ missed' = missed \ {w}
    BY <1>3, <1>8 DEF T!Unmount
  <2>2. listeners' = [v \in Viewers |-> IF v = w THEN 0 ELSE listeners[v]]
    BY <1>3, <2>1, <1>8 DEF T!Unmount, T!Without
  <2>3. /\ listeners' \in [Viewers -> Nat]
        /\ \A v \in Viewers : listeners'[v] = IF mounted'[v] = "subscribed" THEN 1 ELSE 0
    BY <1>3, <2>1, <2>2
  <2>4. /\ mounted' \in [Viewers -> {"no", "rendered", "subscribed", "between"}]
        /\ due' \subseteq Viewers /\ missed' \subseteq Viewers
        /\ \A v \in due' : mounted'[v] = "subscribed"
    BY <1>3, <2>1
  <2>5. /\ state' = [v \in Viewers |-> state'[v]]
        /\ \A v \in Viewers : mounted'[v] # "no" /\ v \notin missed' => state'[v] = memoryState
    BY <1>3, <2>1
  <2>6. QED
    BY <2>3, <2>4, <2>5
<1>9. QED
  BY <1>5, <1>6, <1>7, <1>8 DEF T!ViewerStep

LEMMA ToastInductive ==
    ASSUME ToastInv, T!ToastStep \/ UNCHANGED toastVars
    PROVE  ToastInv' /\ T!GoneForGood
<1>1. CASE T!toast
  BY <1>1, ToastAdded
<1>2. ASSUME NEW id \in 1 .. count, NEW shown \in BOOLEAN, T!update(id, shown)
      PROVE  ToastInv' /\ T!GoneForGood
  BY <1>2, ToastUpdated
<1>3. ASSUME NEW id \in 1 .. count, T!dismiss({id}) \/ T!Expire(id)
      PROVE  ToastInv' /\ T!GoneForGood
  <2>1. {id} \in SUBSET (1 .. count)
    OBVIOUS
  <2>2. QED
    BY <1>3, <2>1, ToastDismissed, ToastExpired
<1>4. CASE T!dismiss(T!Ids(memoryState))
  <2>1. T!Ids(memoryState) \in SUBSET (1 .. count)
    BY KnownToasts
  <2>2. QED
    BY <1>4, <2>1, ToastDismissed
<1>5. CASE T!ViewerStep
  BY <1>5, ViewerSteps
<1>6. CASE UNCHANGED toastVars
  BY <1>6 DEF toastVars, ToastInv, T!ToastTypeOK, T!ListenersAreMounted, T!ViewIsCurrent,
              T!GoneForGood, T!Ids
<1>7. QED
  BY <1>1, <1>2, <1>3, <1>4, <1>5, <1>6 DEF T!ToastStep

\* use-toast.ts: exactly the mounted components listen, each once; each shows the
\* store, but for one that was not subscribed when the last dispatch came; and a
\* toast that was removed or pushed out does not come back.  For any number of
\* components, any limit and any order of renders, effects, timers and calls.
THEOREM ToastsAreKept ==
    Spec => /\ [](T!ToastTypeOK /\ T!ListenersAreMounted /\ T!ViewIsCurrent)
            /\ [][T!GoneForGood]_vars
<1>1. Init => ToastInv
  <2> SUFFICES ASSUME T!ToastInit PROVE ToastInv
    BY DEF Init
  <2>1. <<>> \in Seq(Toast) /\ Len(<<>>) = 0
    OBVIOUS
  <2>2. T!ToastTypeOK
    BY <2>1, ToastBounds DEF T!ToastInit, T!ToastTypeOK, T!Ids
  <2>3. QED
    BY <2>1, <2>2 DEF T!ToastInit, ToastInv, T!ListenersAreMounted, T!ViewIsCurrent
<1>2. ToastInv /\ [Next]_vars => ToastInv' /\ T!GoneForGood
  BY PartsStep, ToastInductive
<1>3. ToastInv => T!ToastTypeOK /\ T!ListenersAreMounted /\ T!ViewIsCurrent
  BY DEF ToastInv
<1>4. QED
  BY <1>1, <1>2, <1>3, PTL DEF Spec

-----------------------------------------------------------------------------
(* Sidebar *)

\* What useIsMobile holds is what the media query said last, and once the effect
\* of the last commit has run the key listener knows that commit's device.
SidebarInv ==
    /\ S!SidebarTypeOK
    /\ S!CookieIsState
    /\ effectDue => closure # "none"
    /\ closure # "none" => isMobile = matched
    /\ closure # "none" /\ ~effectDue => closure = S!Device(committed)

LEMMA MediaQueryIsTest ==
    ASSUME NEW w \in Widths
    PROVE  S!MediaQuery(w) = (w < MOBILE_BREAKPOINT)
BY ClientPartsAssumption DEF S!SidebarAssumption, S!MediaQuery

LEMMA BreakpointBoolean ==
    ASSUME NEW w \in Widths
    PROVE  S!MediaQuery(w) \in BOOLEAN /\ (w < MOBILE_BREAKPOINT) \in BOOLEAN
BY ClientPartsAssumption DEF S!SidebarAssumption, S!MediaQuery

\* A toggle flips the state of its device and leaves the other one alone.
LEMMA ToggleFlips ==
    ASSUME S!SidebarTypeOK, NEW device \in {"mobile", "desktop"}, S!toggleSidebar(device)
    PROVE  /\ {open', openMobile'} \subseteq BOOLEAN
           /\ cookie' \in {"unset", "true", "false"}
           /\ S!CookieIsState /\ parent' = parent => S!CookieIsState'
           /\ IF device = "mobile" THEN openMobile' # openMobile /\ S!desktop' = S!desktop
              ELSE openMobile' = openMobile /\ (open' # open \/ parent = "refuses")
<1> USE DEF S!SidebarTypeOK, S!toggleSidebar, S!setOpen, S!desktop, S!CookieIsState
<1>1. CASE device = "mobile"
  BY <1>1
<1>2. CASE device = "desktop" /\ parent = "refuses"
  BY <1>2
<1>3. CASE device = "desktop" /\ parent # "refuses" /\ open
  BY <1>3
<1>4. CASE device = "desktop" /\ parent # "refuses" /\ ~open
  <2>1. open' = TRUE /\ cookie' = "true" /\ openMobile' = openMobile
    BY <1>4
  <2>2. QED
    BY <1>4, <2>1
<1>5. QED
  BY <1>1, <1>2, <1>3, <1>4

\* A render after a handler leaves the listener as it is, or binds it anew.
LEMMA RenderingBinds ==
    ASSUME SidebarInv, S!Rendering, UNCHANGED <<committed, isMobile, matched>>
    PROVE  /\ closure' \in {"none", "mobile", "desktop"} /\ effectDue' \in BOOLEAN
           /\ effectDue' => closure' # "none"
           /\ closure' # "none" => isMobile' = matched'
           /\ closure' # "none" /\ ~effectDue' => closure' = S!Device(committed)'
<1> USE DEF SidebarInv, S!SidebarTypeOK, S!Device
<1>1. CASE effectDue /\ S!Rebind
  <2>1. effectDue' \in BOOLEAN /\ closure' = S!Device(committed)'
    BY <1>1, Zenon DEF S!Rebind
  <2>2. S!Device(committed)' \in {"mobile", "desktop"}
    OBVIOUS
  <2>3. QED
    BY <1>1, <2>1, <2>2 DEF S!Rebind
<1>2. CASE UNCHANGED S!listener
  BY <1>2 DEF S!listener
<1>3. QED
  BY <1>1, <1>2 DEF S!Rendering

LEMMA SidebarInductive ==
    ASSUME SidebarInv, S!SidebarStep \/ UNCHANGED sidebarVars
    PROVE  SidebarInv'
<1> USE DEF S!props, S!desktop, S!listener
<1>1. CASE UNCHANGED sidebarVars
  BY <1>1 DEF sidebarVars, SidebarInv, S!SidebarTypeOK, S!CookieIsState, S!Device
<1>2. CASE S!MountEffects
  BY <1>2, MediaQueryIsTest, BreakpointBoolean
  DEF S!MountEffects, SidebarInv, S!SidebarTypeOK, S!CookieIsState, S!Device
<1>3. CASE S!onChange
  BY <1>3, MediaQueryIsTest, BreakpointBoolean
  DEF S!onChange, SidebarInv, S!SidebarTypeOK, S!CookieIsState, S!Device
<1>4. CASE S!Commit
  BY <1>4 DEF S!Commit, SidebarInv, S!SidebarTypeOK, S!CookieIsState, S!Device
<1>5. CASE S!RunEffect
  <2>1. S!Device(committed) \in {"mobile", "desktop"}
    BY DEF S!Device
  <2>2. effectDue' \in BOOLEAN /\ closure' = S!Device(committed)'
    BY <1>5 DEF S!RunEffect, S!Rebind, S!Device
  <2>3. QED
    <3>1. UNCHANGED <<width, matched, isMobile, committed, parent, collapsible, open, cookie,
                      openMobile>>
      BY <1>5 DEF S!RunEffect
    <3>2. S!SidebarTypeOK'
      BY <2>1, <2>2, <3>1 DEF SidebarInv, S!SidebarTypeOK
    <3>3. closure' # "none" /\ ~effectDue' => closure' = S!Device(committed)'
      BY <2>2
    <3>4. isMobile' = matched' /\ closure' # "none"
      BY <1>5, <2>1, <2>2, <3>1 DEF S!RunEffect, SidebarInv
    <3>5. QED
      BY <3>1, <3>2, <3>3, <3>4 DEF SidebarInv, S!CookieIsState
<1>6. CASE S!handleKeyDown
  <2>1. closure \in {"mobile", "desktop"} /\ S!toggleSidebar(closure)
    BY <1>6 DEF S!handleKeyDown, SidebarInv, S!SidebarTypeOK
  <2>2. QED
    BY <1>6, <2>1, ToggleFlips, RenderingBinds DEF S!handleKeyDown, SidebarInv, S!SidebarTypeOK
<1>7. CASE S!onClick
  BY <1>7, ToggleFlips, RenderingBinds DEF S!onClick, SidebarInv, S!SidebarTypeOK, S!Device
<1>8. CASE S!CloseSheet
  BY <1>8, RenderingBinds DEF S!CloseSheet, SidebarInv, S!SidebarTypeOK, S!CookieIsState
<1>9. ASSUME NEW w \in Widths, S!Resize(w)
      PROVE  SidebarInv'
  BY <1>9 DEF S!Resize, SidebarInv, S!SidebarTypeOK, S!CookieIsState, S!Device
<1>10. QED
  BY <1>1, <1>2, <1>3, <1>4, <1>5, <1>6, <1>7, <1>8, <1>9 DEF S!SidebarStep

LEMMA SidebarToggles ==
    ASSUME SidebarInv
    PROVE  S!TogglesWhatIsSeen
<1>1. ASSUME S!handleKeyDown, ~effectDue
      PROVE  S!toggleSidebar(S!Device(committed))
  BY <1>1 DEF S!handleKeyDown, SidebarInv
<1>2. ASSUME S!onClick
      PROVE  S!toggleSidebar(S!Device(committed))
  BY <1>2 DEF S!onClick
<1>3. ASSUME S!toggleSidebar(S!Device(committed))
      PROVE  IF committed THEN openMobile' # openMobile /\ S!desktop' = S!desktop
             ELSE openMobile' = openMobile /\ (open' # open \/ parent = "refuses")
  BY <1>3, ToggleFlips DEF SidebarInv, S!Device
<1>4. QED
  BY <1>1, <1>2, <1>3 DEF S!TogglesWhatIsSeen

LEMMA SidebarLayout ==
    ASSUME SidebarInv, MOBILE_BREAKPOINT >= S!MdBreakpoint
    PROVE  S!LayoutFitsWidth
<1> SUFFICES ASSUME closure # "none", matched = S!MediaQuery(width), committed = isMobile
             PROVE  /\ committed = (width < MOBILE_BREAKPOINT)
                    /\ (IF committed THEN openMobile ELSE open) => S!Rendered # "hidden"
  BY DEF S!LayoutFitsWidth
<1>1. width \in Widths /\ width \in Nat /\ MOBILE_BREAKPOINT \in Nat
  BY ClientPartsAssumption DEF S!SidebarAssumption, SidebarInv, S!SidebarTypeOK
<1>2. committed = (width < MOBILE_BREAKPOINT)
  BY <1>1, MediaQueryIsTest DEF SidebarInv
<1>3. CASE collapsible = "none"
  BY <1>2, <1>3 DEF S!Rendered
<1>4. CASE collapsible # "none" /\ committed
  BY <1>2, <1>4 DEF S!Rendered
<1>5. CASE collapsible # "none" /\ ~committed
  <2>0. ~(width < MOBILE_BREAKPOINT)
    BY <1>2, <1>5, Zenon
  <2>1. ~(width < S!MdBreakpoint)
    BY <1>1, <2>0 DEF S!MdBreakpoint
  <2>2. open => S!Rendered = "full"
    BY <1>5, <2>1 DEF S!Rendered, S!dataCollapsible
  <2>3. QED
    BY <1>2, <1>5, <2>2
<1>6. QED
  BY <1>3, <1>4, <1>5

LEMMA SidebarIcons ==
    ASSUME SidebarInv
    PROVE  S!IconsAreNamed
<1> DEFINE parts == S!GroupParts \union S!MenuParts \union S!SubParts
<1>1. S!Rendered = "icons" => S!TooltipOffered
  BY DEF S!Rendered, S!dataCollapsible, S!TooltipOffered, SidebarInv, S!SidebarTypeOK
<1>2. S!TooltipOffered => S!Rendered \notin {"sheet", "full"}
  BY DEF S!Rendered, S!dataCollapsible, S!TooltipOffered, SidebarInv, S!SidebarTypeOK
<1>3. S!Rendered # "icons" =>
        parts = {"group-label", "group-action", "menu-action", "menu-badge", "menu-sub",
                 "menu-sub-button"}
  BY DEF S!GroupParts, S!MenuParts, S!SubParts
<1>4. Cardinality({"group-label", "group-action", "menu-action", "menu-badge", "menu-sub",
                   "menu-sub-button"}) = 6
  <2>1. Cardinality({"menu-sub-button"}) = 1 /\ IsFiniteSet({"menu-sub-button"})
    BY FS_Singleton
  <2> DEFINE S1 == {"menu-sub-button"} \union {"menu-sub"}
             S2 == S1 \union {"menu-badge"}
             S3 == S2 \union {"menu-action"}
             S4 == S3 \union {"group-action"}
             S5 == S4 \union {"group-label"}
  <2>2. Cardinality(S1) = 2 /\ IsFiniteSet(S1) /\ "menu-badge" \notin S1
    BY <2>1, FS_AddElement
  <2>3. Cardinality(S2) = 3 /\ IsFiniteSet(S2) /\ "menu-action" \notin S2
    BY <2>2, FS_AddElement
  <2>4. Cardinality(S3) = 4 /\ IsFiniteSet(S3) /\ "group-action" \notin S3
    BY <2>3, FS_AddElement
  <2>5. Cardinality(S4) = 5 /\ IsFiniteSet(S4) /\ "group-label" \notin S4
    BY <2>4, FS_AddElement
  <2>6. Cardinality(S5) = 6
    BY <2>5, FS_AddElement
  <2>7. S5 = {"group-label", "group-action", "menu-action", "menu-badge", "menu-sub",
              "menu-sub-button"}
    OBVIOUS
  <2>8. QED
    BY <2>6, <2>7
<1> HIDE DEF parts
<1>5. parts = {} => S!Rendered = "icons"
  BY <1>3
<1>6. S!Rendered \in {"sheet", "full"} => Cardinality(parts) = 6
  BY <1>3, <1>4
<1>7. S!Cardinality(parts) = Cardinality(parts)
  BY DEF S!Cardinality, Cardinality
<1>8. /\ parts = {} => S!TooltipOffered
      /\ S!TooltipOffered => S!Rendered \notin {"sheet", "full"}
      /\ S!Rendered \in {"sheet", "full"} => S!Cardinality(parts) = 6
  BY <1>1, <1>2, <1>5, <1>6, <1>7
<1>9. QED
  BY <1>8 DEF S!IconsAreNamed, parts

\* Click and shortcut act on the sidebar on the screen, the cookie restores what
\* there is, the layout is the one for the width, and an icon alone has a
\* tooltip (sidebar.tsx, use-mobile.tsx), if the style sheet's breakpoint is not
\* beyond the one the code tests: both are 768.
THEOREM SidebarKeepsItsPromise ==
    ASSUME MOBILE_BREAKPOINT >= S!MdBreakpoint
    PROVE  Spec => SidebarPromise
<1>1. Init => SidebarInv
  <2>1. Init => S!SidebarInit
    BY DEF Init
  <2>2. S!SidebarInit => {matched, isMobile, committed, effectDue, open, openMobile} \subseteq BOOLEAN
    BY BreakpointBoolean DEF S!SidebarInit
  <2>3. S!SidebarInit => S!SidebarTypeOK
    BY <2>2 DEF S!SidebarInit, S!SidebarTypeOK
  <2>4. QED
    BY <2>1, <2>3 DEF S!SidebarInit, SidebarInv, S!CookieIsState
<1>2. SidebarInv /\ [Next]_vars => SidebarInv'
  BY SidebarInductive, PartsStep
<1>3. SidebarInv => S!TogglesWhatIsSeen
  BY SidebarToggles
<1>4. SidebarInv =>
        S!SidebarTypeOK /\ S!CookieIsState /\ S!LayoutFitsWidth /\ S!IconsAreNamed
  BY SidebarLayout, SidebarIcons DEF SidebarInv
<1>5. QED
  BY <1>1, <1>2, <1>3, <1>4, PTL DEF Spec, SidebarPromise

-----------------------------------------------------------------------------
(* Carousel *)

CarouselInv ==
    /\ C!CarouselTypeOK
    /\ selected \in Nat
    /\ given <= api
    /\ given # 0 => C!Subscriptions(given) \subseteq subscribed
    /\ given = api /\ api # 0 =>
         /\ canScrollPrev = C!CanPrev(known, selected)
         /\ canScrollNext = C!CanNext(known, selected)

LEMMA CanIsBoolean ==
    ASSUME NEW n \in Nat, NEW s \in Nat
    PROVE  C!CanPrev(n, s) \in BOOLEAN /\ C!CanNext(n, s) \in BOOLEAN
<1>0. (n > 1) \in BOOLEAN /\ (s > 0) \in BOOLEAN /\ (s < n - 1) \in BOOLEAN
  OBVIOUS
<1>1. CASE loop
  BY <1>0, <1>1, Zenon DEF C!CanPrev, C!CanNext
<1>2. CASE ~loop
  BY <1>0, <1>2, Zenon DEF C!CanPrev, C!CanNext
<1>3. QED
  BY <1>1, <1>2

\* The buttons hold what the api would answer, or the api emits to nobody.
LEMMA CarouselInductive ==
    ASSUME CarouselInv, C!CarouselStep \/ UNCHANGED carouselVars
    PROVE  CarouselInv'
<1>0. MaxSlides \in Nat /\ MaxApis \in Nat
  BY ClientPartsAssumption DEF C!CarouselAssumption
<1> USE <1>0 DEF CarouselInv, C!CarouselTypeOK, C!opts, C!buttons, C!embla
<1>1. CASE UNCHANGED carouselVars
  BY <1>1 DEF carouselVars, C!CanPrev, C!CanNext, C!Subscriptions
<1>2. CASE C!Attach
  BY <1>2 DEF C!Attach, C!Subscriptions
<1>3. CASE C!Effects
  <2>1. api \in 1 .. MaxApis
    BY <1>3 DEF C!Effects
  <2>2. subscribed' \subseteq {"select", "reInit"} \X (1 .. MaxApis)
    BY <1>3, <2>1 DEF C!Effects, C!Unsubscribed, C!Subscriptions
  <2>3. C!Subscriptions(given)' \subseteq subscribed'
    BY <1>3 DEF C!Effects, C!Subscriptions
  <2>4. /\ canScrollPrev' = C!CanPrev(known, selected)'
        /\ canScrollNext' = C!CanNext(known, selected)'
    BY <1>3 DEF C!Effects, C!onSelect, C!CanPrev, C!CanNext
  <2>5. {canScrollPrev, canScrollNext}' \subseteq BOOLEAN
    BY <1>3, CanIsBoolean DEF C!Effects, C!onSelect
  <2>6. QED
    BY <1>3, <2>2, <2>3, <2>4, <2>5 DEF C!Effects
<1>4. CASE C!ReInit
  <2>1. known' \in 1 .. MaxSlides /\ selected' \in 0 .. known' - 1
    BY <1>4 DEF C!ReInit
  <2>2. {canScrollPrev, canScrollNext}' \subseteq BOOLEAN
    BY <1>4, <2>1, CanIsBoolean DEF C!ReInit, C!Emit, C!onSelect
  <2>3. given' = api' /\ api' # 0 =>
          /\ canScrollPrev' = C!CanPrev(known, selected)'
          /\ canScrollNext' = C!CanNext(known, selected)'
    BY <1>4, <2>1 DEF C!ReInit, C!Emit, C!onSelect, C!Subscriptions, C!CanPrev, C!CanNext
  <2>4. QED
    BY <1>4, <2>1, <2>2, <2>3 DEF C!ReInit, C!Subscriptions
<1>5. ASSUME NEW s \in Nat, s < known, C!Select(s)
      PROVE  CarouselInv'
  <2>1. {canScrollPrev, canScrollNext}' \subseteq BOOLEAN
    BY <1>5, CanIsBoolean DEF C!Select, C!Emit, C!onSelect
  <2>2. given' = api' /\ api' # 0 =>
          /\ canScrollPrev' = C!CanPrev(known, selected)'
          /\ canScrollNext' = C!CanNext(known, selected)'
    BY <1>5 DEF C!Select, C!Emit, C!onSelect, C!Subscriptions, C!CanPrev, C!CanNext
  <2>3. QED
    BY <1>5, <2>1, <2>2 DEF C!Select, C!Subscriptions
<1>6. CASE C!scrollPrev
  <2>1. (IF selected = 0 THEN known - 1 ELSE selected - 1) \in 0 .. known - 1
    OBVIOUS
  <2>2. QED
    BY <1>5, <1>6, <2>1 DEF C!scrollPrev
<1>7. CASE C!scrollNext
  <2>1. (IF selected = known - 1 THEN 0 ELSE selected + 1) \in 0 .. known - 1
    OBVIOUS
  <2>2. QED
    BY <1>5, <1>7, <2>1 DEF C!scrollNext
<1>8. ASSUME NEW n \in 1 .. MaxSlides, C!SetSlides(n)
      PROVE  CarouselInv'
  BY <1>8 DEF C!SetSlides, C!Subscriptions, C!CanPrev, C!CanNext
<1>9. QED
  BY <1>1, <1>2, <1>3, <1>4, <1>6, <1>7, <1>8
  DEF C!CarouselStep, C!CarouselPrevious, C!CarouselNext, C!handleKeyDown

\* The carousel's buttons are enabled exactly when there is something to scroll
\* to, and layout and scrolling have one direction (carousel.tsx).
THEOREM CarouselIsHonest == Spec => []CarouselPromise
<1>1. Init => CarouselInv
  <2>1. MaxSlides \in Nat /\ MaxApis \in Nat
    BY ClientPartsAssumption DEF C!CarouselAssumption
  <2>2. Init => C!CarouselInit
    BY DEF Init
  <2>3. C!CarouselInit => C!CarouselTypeOK
    <3>1. C!CarouselInit => {loop, canScrollPrev, canScrollNext} \subseteq BOOLEAN
      BY Zenon DEF C!CarouselInit
    <3>2. QED
      BY <2>1, <3>1 DEF C!CarouselInit, C!CarouselTypeOK
  <2>4. C!CarouselInit /\ C!CarouselTypeOK => CarouselInv
    BY DEF C!CarouselInit, CarouselInv
  <2>5. QED
    BY <2>2, <2>3, <2>4
<1>2. CarouselInv /\ [Next]_vars => CarouselInv'
  BY CarouselInductive, PartsStep
<1>3. CarouselInv => CarouselPromise
  BY DEF CarouselInv, CarouselPromise, C!CarouselTypeOK, C!ButtonsTellTheTruth,
         C!SlidesFollowAxis, C!Layout, C!EmblaAxis, C!Orientation, C!ContextOrientation
<1>4. QED
  BY <1>1, <1>2, <1>3, PTL DEF Spec

-----------------------------------------------------------------------------
(* Chart and ChartStyles *)

\* The memo is the one of the properties of the last render.
ChartInv ==
    /\ G!ChartTypeOK
    /\ memo.deps = G!Dependencies(config, item, label, labelKey, hideLabel)
    /\ memo.value = G!LabelValue(config, item, label, labelKey, hideLabel)

ChartRecord == [uid : Nat, id : GivenIds, palette : Palettes]

\* The names of useId are new ones: no two charts on the page have the same.
StyleInv ==
    /\ Y!StyleTypeOK
    /\ charts \in [Charts -> ChartRecord]
    /\ \A c, d \in Y!Mounted : c # d => charts[c].uid # charts[d].uid

LEMMA MemoIsCurrent ==
    ASSUME ChartInv, NEW cfg \in Configs, NEW it \in Items, NEW lab \in Labels,
           NEW labKey \in LabelKeys, NEW hide \in BOOLEAN, NEW act \in BOOLEAN,
           G!Render(cfg, it, lab, labKey, hide, act)
    PROVE  ChartInv'
<1> DEFINE deps == G!Dependencies(cfg, it, lab, labKey, hide)
           value == G!LabelValue(cfg, it, lab, labKey, hide)
<1>1. /\ config' = cfg /\ item' = it /\ label' = lab /\ labelKey' = labKey
      /\ hideLabel' = hide /\ active' = act
      /\ memo' = IF memo.deps = deps THEN memo ELSE [deps |-> deps, value |-> value]
  BY DEF G!Render, G!Recompute
<1>2. memo.deps = deps => memo.value = value
  BY DEF ChartInv, G!Dependencies
<1>3. /\ G!Dependencies(config, item, label, labelKey, hideLabel)' = deps
      /\ G!LabelValue(config, item, label, labelKey, hideLabel)' = value
  BY <1>1
<1> HIDE DEF deps, value
<1>4. memo'.deps = deps /\ memo'.value = value /\ DOMAIN memo' = {"deps", "value"}
  BY <1>1, <1>2 DEF ChartInv, G!ChartTypeOK
<1>5. QED
  BY <1>1, <1>3, <1>4 DEF ChartInv, G!ChartTypeOK

LEMMA ChartInductive ==
    ASSUME ChartInv, G!ChartStep \/ UNCHANGED chartVars
    PROVE  ChartInv'
<1>1. CASE UNCHANGED chartVars
  <2>1. /\ G!Dependencies(config, item, label, labelKey, hideLabel)'
             = G!Dependencies(config, item, label, labelKey, hideLabel)
        /\ G!LabelValue(config, item, label, labelKey, hideLabel)'
             = G!LabelValue(config, item, label, labelKey, hideLabel)
    BY <1>1 DEF chartVars
  <2>2. QED
    BY <1>1, <2>1 DEF chartVars, ChartInv, G!ChartTypeOK
<1>2. CASE G!ChartStep
  <2>1. /\ config \in Configs /\ item \in Items /\ label \in Labels
        /\ labelKey \in LabelKeys /\ hideLabel \in BOOLEAN /\ active \in BOOLEAN
    BY DEF ChartInv, G!ChartTypeOK
  <2>2. TRUE \in BOOLEAN /\ FALSE \in BOOLEAN /\ (~hideLabel) \in BOOLEAN
    OBVIOUS
  <2>3. QED
    BY <1>2, <2>1, <2>2, MemoIsCurrent DEF G!ChartStep
<1>3. QED
  BY <1>1, <1>2

LEMMA TooltipLegend == G!TooltipAgreesWithLegend
<1> SUFFICES ASSUME item.name \in {item.dataKey, G!Absent}, NEW nameKey \in LabelKeys,
                    G!LegendRow(nameKey) # G!Absent
             PROVE  G!TooltipRow(nameKey) = G!LegendRow(nameKey)
  BY DEF G!TooltipAgreesWithLegend
<1>1. G!Or(nameKey, G!Or(item.name, G!Or(item.dataKey, "value")))
        = G!Or(nameKey, G!Or(item.dataKey, "value"))
  BY DEF G!Or, G!Absent
<1>2. QED
  BY <1>1 DEF G!TooltipRow, G!LegendRow, G!Or

LEMMA StyleBounds == Charts \subseteq Nat /\ MaxIds \in Nat
BY ClientPartsAssumption DEF Y!ChartStylesAssumption

LEMMA NoChartIsOne == Y!NoChart \in ChartRecord /\ Y!NoChart.uid = 0
<1>1. "" \in GivenIds /\ (CHOOSE p \in Palettes : TRUE) \in Palettes
  BY ClientPartsAssumption DEF Y!ChartStylesAssumption
<1>2. QED
  BY <1>1 DEF Y!NoChart, ChartRecord

LEMMA ChartFields ==
    ASSUME NEW chart \in ChartRecord
    PROVE  chart.uid \in Nat /\ chart.id \in GivenIds /\ chart.palette \in Palettes
BY DEF ChartRecord

LEMMA PlacesTyped ==
    ASSUME StyleInv
    PROVE  /\ lastUid \in Nat /\ lastUid <= MaxIds
           /\ \A c \in Charts : charts[c] \in ChartRecord /\ charts[c].uid <= lastUid
BY StyleBounds DEF StyleInv, Y!StyleTypeOK, ChartRecord

\* A place gets another chart: none, one of its own name, or one of a new name.
LEMMA PlaceChart ==
    ASSUME StyleInv, NEW c \in Charts,
           NEW chart \in ChartRecord,
           charts' = [charts EXCEPT ![c] = chart],
           lastUid' \in lastUid .. MaxIds, dark' = dark,
           chart.uid <= lastUid',
           chart.uid \in {0, charts[c].uid} \/ chart.uid > lastUid
    PROVE  StyleInv'
<1>1. lastUid \in Nat /\ lastUid' \in Nat /\ lastUid <= lastUid' /\ lastUid' \in 0 .. MaxIds
  BY PlacesTyped, StyleBounds
<1>2. charts' \in [Charts -> ChartRecord]
  BY DEF StyleInv
<1>3. \A d \in Charts : charts'[d] = IF d = c THEN chart ELSE charts[d]
  BY DEF StyleInv
<1>4. ASSUME NEW d \in Charts
      PROVE  /\ charts'[d].uid \in 0 .. lastUid' /\ charts'[d].id \in GivenIds
             /\ charts'[d].palette \in Palettes
  <2>1. charts'[d].uid <= lastUid'
    BY <1>1, <1>3, PlacesTyped, ChartFields
  <2>2. QED
    BY <1>1, <1>2, <2>1, ChartFields
<1>5. ASSUME NEW d \in Charts, NEW e \in Charts, charts'[d].uid # 0, charts'[e].uid # 0, d # e
      PROVE  charts'[d].uid # charts'[e].uid
  <2>1. charts[d].uid # 0 /\ charts[e].uid # 0 => charts[d].uid # charts[e].uid
    BY <1>5 DEF StyleInv, Y!Mounted
  <2>2. charts[d].uid <= lastUid /\ charts[e].uid <= lastUid
        /\ charts[d].uid \in Nat /\ charts[e].uid \in Nat /\ chart.uid \in Nat
    BY PlacesTyped, ChartFields
  <2>3. CASE d = c
    BY <1>1, <1>3, <1>5, <2>1, <2>2, <2>3
  <2>4. CASE e = c
    BY <1>1, <1>3, <1>5, <2>1, <2>2, <2>4
  <2>5. CASE d # c /\ e # c
    BY <1>3, <1>5, <2>1, <2>5
  <2>6. QED
    BY <2>3, <2>4, <2>5
<1>6. Y!StyleTypeOK'
  BY <1>1, <1>4 DEF StyleInv, Y!StyleTypeOK
<1>7. QED
  BY <1>2, <1>5, <1>6 DEF StyleInv, Y!Mounted

LEMMA StyleInductive ==
    ASSUME StyleInv, Y!StyleStep \/ UNCHANGED styleVars
    PROVE  StyleInv'
<1>1. CASE UNCHANGED styleVars
  BY <1>1 DEF styleVars, StyleInv, Y!StyleTypeOK, Y!Mounted
<1>2. CASE Y!ToggleTheme
  BY <1>2 DEF Y!ToggleTheme, StyleInv, Y!StyleTypeOK, Y!Mounted
<1>3. ASSUME NEW c \in Charts, Y!Unmount(c)
      PROVE  StyleInv'
  <2>1. charts' = [charts EXCEPT ![c] = Y!NoChart] /\ dark' = dark /\ lastUid' = lastUid
    BY <1>3 DEF Y!Unmount
  <2>2. lastUid' \in lastUid .. MaxIds /\ 0 <= lastUid'
    BY <2>1, PlacesTyped, StyleBounds
  <2>3. QED
    BY <2>1, <2>2, PlaceChart, NoChartIsOne
<1>4. ASSUME NEW c \in Charts, NEW id \in GivenIds, NEW palette \in Palettes,
             Y!ChartContainer(c, id, palette)
      PROVE  StyleInv'
  <2> DEFINE new == [uid |-> lastUid', id |-> id, palette |-> palette]
  <2>1. lastUid' = lastUid + 1 /\ lastUid < MaxIds
    BY <1>4 DEF Y!ChartContainer
  <2>2. new \in ChartRecord /\ new.uid = lastUid'
    BY <2>1, PlacesTyped DEF ChartRecord
  <2>3. charts' = [charts EXCEPT ![c] = new] /\ dark' = dark
    BY <1>4 DEF Y!ChartContainer
  <2> HIDE DEF new
  <2>4. lastUid' \in lastUid .. MaxIds /\ new.uid <= lastUid' /\ new.uid > lastUid
    BY <2>1, <2>2, PlacesTyped, StyleBounds
  <2>5. QED
    BY <2>2, <2>3, <2>4, PlaceChart
<1>5. ASSUME NEW c \in Charts, NEW id \in GivenIds, NEW palette \in Palettes,
             Y!Rerender(c, id, palette)
      PROVE  StyleInv'
  <2> DEFINE new == [charts[c] EXCEPT !.id = id, !.palette = palette]
  <2>1. new \in ChartRecord /\ new.uid = charts[c].uid
    BY PlacesTyped DEF ChartRecord
  <2>2. charts' = [charts EXCEPT ![c] = new] /\ dark' = dark /\ lastUid' = lastUid
    BY <1>5 DEF Y!Rerender
  <2> HIDE DEF new
  <2>3. lastUid' \in lastUid .. MaxIds /\ new.uid <= lastUid'
    BY <2>1, <2>2, PlacesTyped, StyleBounds
  <2>4. QED
    BY <2>1, <2>2, <2>3, PlaceChart
<1>6. QED
  BY <1>1, <1>2, <1>3, <1>4, <1>5 DEF Y!StyleStep

\* The rules of a chart: one for each theme and entry.
LEMMA RulesOfChart ==
    ASSUME NEW c
    PROVE  /\ \A r \in Y!ChartStyle(c) :
                \E theme \in {"light", "dark"}, key \in DOMAIN charts[c].palette :
                    r = [from |-> c, of |-> Y!chartId(charts[c]), theme |-> theme, key |-> key,
                         color |-> Y!OfTheme(charts[c].palette[key], theme)]
           /\ \A theme \in {"light", "dark"}, key \in DOMAIN charts[c].palette :
                [from |-> c, of |-> Y!chartId(charts[c]), theme |-> theme, key |-> key,
                 color |-> Y!OfTheme(charts[c].palette[key], theme)] \in Y!ChartStyle(c)
BY DEF Y!ChartStyle

\* A chart whose id nobody else was given is the only one its rules are for.
LEMMA ChartIdIsItsOwn ==
    ASSUME StyleInv, NEW c \in Y!Mounted, NEW d \in Y!Mounted,
           charts[c].id # "" /\ c # d => charts[d].id # charts[c].id,
           Y!chartId(charts[d]) = Y!chartId(charts[c])
    PROVE  c = d
BY DEF StyleInv, Y!chartId

LEMMA AtLeastItself == \A n \in Nat : n >= n
OBVIOUS

LEMMA ColorOfItsOwn ==
    ASSUME StyleInv
    PROVE  Y!ColorIsItsOwn
<1> SUFFICES ASSUME NEW c \in Y!Mounted, NEW key \in DOMAIN charts[c].palette,
                    \A d \in Y!Mounted \ {c} :
                        charts[c].id # "" => charts[d].id # charts[c].id
             PROVE  Y!Resolved(c, key) =
                      Y!OfTheme(charts[c].palette[key], IF dark THEN "dark" ELSE "light")
  BY DEF Y!ColorIsItsOwn
<1>0. c >= c
  <2>1. c \in Nat
    BY StyleBounds DEF Y!Mounted
  <2>2. QED
    BY <2>1, AtLeastItself
<1> DEFINE entry == charts[c].palette[key]
           Rule(theme) == [from |-> c, of |-> Y!chartId(charts[c]), theme |-> theme,
                           key |-> key, color |-> Y!OfTheme(entry, theme)]
           matching == {r \in UNION {Y!ChartStyle(d) : d \in Y!Mounted} :
                          /\ r.of = Y!chartId(charts[c]) /\ r.key = key /\ r.color # ""
                          /\ r.theme = "dark" => dark}
           Wins(r) == \A s \in matching :
                          \/ r.theme = "dark" /\ s.theme = "light"
                          \/ r.theme = s.theme /\ r.from >= s.from
           shown == {theme \in {"light", "dark"} :
                       Y!OfTheme(entry, theme) # "" /\ (theme = "dark" => dark)}
<1>1. matching = {Rule(theme) : theme \in shown}
  <2>1. ASSUME NEW r \in matching
        PROVE  \E theme \in shown : r = Rule(theme)
    <3>1. PICK d \in Y!Mounted : r \in Y!ChartStyle(d)
      OBVIOUS
    <3>2. PICK theme \in {"light", "dark"}, k \in DOMAIN charts[d].palette :
            r = [from |-> d, of |-> Y!chartId(charts[d]), theme |-> theme, key |-> k,
                 color |-> Y!OfTheme(charts[d].palette[k], theme)]
      BY <3>1, RulesOfChart
    <3>3. k = key /\ d = c
      BY <3>2, ChartIdIsItsOwn
    <3>4. QED
      BY <3>2, <3>3
  <2>2. ASSUME NEW theme \in shown
        PROVE  Rule(theme) \in matching
    <3>1. Rule(theme) \in Y!ChartStyle(c)
      BY RulesOfChart
    <3>2. Rule(theme) \in UNION {Y!ChartStyle(d) : d \in Y!Mounted}
      BY <3>1
    <3>3. QED
      BY <3>2
  <2>3. QED
    BY <2>1, <2>2
<1>3. Y!OfTheme(entry, "dark") = "" => Y!OfTheme(entry, "light") = ""
  <2>1. entry.light = "" <=> entry.dark = ""
    BY ClientPartsAssumption DEF Y!ChartStylesAssumption, StyleInv, Y!StyleTypeOK, Y!Mounted
  <2>2. QED
    BY <2>1 DEF Y!OfTheme, Y!Or
<1>4. Y!Resolved(c, key) = IF matching = {} THEN "" ELSE (CHOOSE r \in matching : Wins(r)).color
  BY DEF Y!Resolved
<1> DEFINE theme == IF dark THEN "dark" ELSE "light"
<1> HIDE DEF matching
<1>5. CASE Y!OfTheme(entry, theme) = ""
  <2>1. shown = {}
    BY <1>3, <1>5
  <2>2. matching = {}
    BY <1>1, <2>1
  <2>3. QED
    BY <1>4, <1>5, <2>2
<1>6. CASE Y!OfTheme(entry, theme) # ""
  <2>1. theme \in shown /\ \A other \in shown : other = "dark" => theme = "dark"
    BY <1>6
  <2>2. Rule(theme) \in matching
    BY <1>1, <2>1
  <2>3. Wins(Rule(theme))
    <3>1. ASSUME NEW s \in matching
          PROVE  \/ theme = "dark" /\ s.theme = "light"
                 \/ theme = s.theme /\ c >= s.from
      <4>1. PICK other \in shown : s = Rule(other)
        BY <1>1
      <4>2. s.theme = other /\ s.from = c
        BY <4>1
      <4>3. /\ other \in {"light", "dark"} /\ theme \in {"light", "dark"}
            /\ other = "dark" => theme = "dark"
        BY <2>1
      <4> HIDE DEF theme
      <4>4. QED
        BY <1>0, <4>2, <4>3
    <3>2. Rule(theme).theme = theme /\ Rule(theme).from = c
      OBVIOUS
    <3>3. QED
      BY <3>1, <3>2
  <2>4. ASSUME NEW r \in matching, Wins(r)
        PROVE  r = Rule(theme)
    <3>1. PICK other \in shown : r = Rule(other)
      BY <1>1
    <3>2. r.theme = other /\ Rule(theme).theme = theme
      BY <3>1
    <3>3. other = theme
      BY <2>1, <2>2, <2>4, <3>2
    <3>4. QED
      BY <3>1, <3>3
  <2> HIDE DEF Wins, Rule
  <2>5. (CHOOSE r \in matching : Wins(r)) = Rule(theme)
    BY <2>2, <2>3, <2>4
  <2>6. Rule(theme).color = Y!OfTheme(entry, theme)
    BY DEF Rule
  <2>7. QED
    BY <1>4, <2>2, <2>5, <2>6
<1>7. QED
  BY <1>5, <1>6

\* The tooltip's heading is that of the properties it is rendered with, tooltip
\* and legend call an item by the same name, and a chart has the colors of its
\* own configuration unless another was given its id (chart.tsx).
THEOREM ChartsAreTheirOwn == Spec => []ChartsPromise
<1>1. Init => ChartInv /\ StyleInv
  <2>1. G!ChartInit => ChartInv
    <3>1. G!ChartInit => {hideLabel, active} \subseteq BOOLEAN
      BY Zenon DEF G!ChartInit
    <3>2. G!ChartInit => DOMAIN memo = {"deps", "value"}
      BY DEF G!ChartInit
    <3>3. QED
      BY <3>1, <3>2 DEF G!ChartInit, ChartInv, G!ChartTypeOK
  <2>2. Y!StyleInit => StyleInv
    <3>1. Y!StyleInit => charts \in [Charts -> ChartRecord]
      BY NoChartIsOne DEF Y!StyleInit
    <3>2. Y!StyleInit => \A c \in Charts : charts[c].uid = 0 /\ charts[c] \in ChartRecord
      BY NoChartIsOne DEF Y!StyleInit
    <3>3. Y!StyleInit => lastUid = 0 /\ dark \in BOOLEAN
      BY DEF Y!StyleInit
    <3>4. QED
      BY <3>1, <3>2, <3>3, ChartFields, StyleBounds DEF StyleInv, Y!StyleTypeOK, Y!Mounted
  <2>3. QED
    BY <2>1, <2>2 DEF Init
<1>2. ChartInv /\ StyleInv /\ [Next]_vars => ChartInv' /\ StyleInv'
  BY ChartInductive, StyleInductive, PartsStep
<1>3. ChartInv /\ StyleInv => ChartsPromise
  BY TooltipLegend, ColorOfItsOwn DEF ChartsPromise, ChartInv, StyleInv, G!LabelIsFresh
<1>4. QED
  BY <1>1, <1>2, <1>3, PTL DEF Spec

-----------------------------------------------------------------------------
(* FormField *)

\* useId gives no id twice.
FormInv ==
    /\ F!FormTypeOK
    /\ \A f, g \in F!Mounted : f # g => items[f] # items[g]

LEMMA FormInductive ==
    ASSUME FormInv, F!FormStep \/ UNCHANGED formVars
    PROVE  FormInv'
<1>0. MaxIds \in Nat /\ lastId \in Nat /\ \A f \in Fields : items[f] \in 0 .. lastId
  BY ClientPartsAssumption DEF F!FormFieldAssumption, FormInv, F!FormTypeOK
<1> USE <1>0 DEF FormInv, F!FormTypeOK, F!Mounted
<1>1. CASE UNCHANGED formVars
  BY <1>1 DEF formVars
<1>2. ASSUME NEW f \in Fields, F!FormItem(f)
      PROVE  FormInv'
  <2>1. /\ lastId' = lastId + 1 /\ lastId' \in 0 .. MaxIds
        /\ \A g \in Fields : items'[g] = IF g = f THEN lastId' ELSE items[g]
    BY <1>2 DEF F!FormItem, F!useId
  <2>2. items' \in [Fields -> 0 .. lastId']
    BY <1>2, <2>1 DEF F!FormItem, F!useId
  <2>3. QED
    BY <1>2, <2>1, <2>2 DEF F!FormItem
<1>3. ASSUME NEW f \in Fields, F!UnmountItem(f)
      PROVE  FormInv'
  BY <1>3 DEF F!UnmountItem
<1>4. ASSUME NEW f \in Fields, NEW message \in Messages \union {"none"}, F!Validate(f, message)
      PROVE  FormInv'
  BY <1>4 DEF F!Validate
<1>5. QED
  BY <1>1, <1>2, <1>3, <1>4 DEF F!FormStep

DescriptionOf(f) == <<items[f], "form-item-description">>

MessageOf(f) == <<items[f], "form-item-message">>

Body(f) == IF errors[f] # "none" THEN errors[f] ELSE IF f \in help THEN "help" ELSE ""

\* A field renders one element for its description and one for its message.
LEMMA FieldRenders ==
    ASSUME NEW f
    PROVE  /\ F!FormDescription(f) = IF f \in hinted
                                     THEN {[id |-> DescriptionOf(f), says |-> "hint"]} ELSE {}
           /\ F!FormMessage(f) = IF Body(f) = "" THEN {}
                                 ELSE {[id |-> MessageOf(f), says |-> Body(f)]}
<1>1. F!useFormField(f) =
        [formItemId |-> <<items[f], "form-item">>, formDescriptionId |-> DescriptionOf(f),
         formMessageId |-> MessageOf(f), error |-> errors[f] # "none"]
  BY DEF F!useFormField, DescriptionOf, MessageOf
<1>2. /\ F!useFormField(f).formDescriptionId = DescriptionOf(f)
      /\ F!useFormField(f).formMessageId = MessageOf(f)
      /\ F!useFormField(f).error = (errors[f] # "none")
  BY <1>1
<1>3. F!FormMessage(f) = IF Body(f) = "" THEN {} ELSE {[id |-> MessageOf(f), says |-> Body(f)]}
  BY <1>2 DEF F!FormMessage, Body
<1>4. F!FormDescription(f) = IF f \in hinted
                             THEN {[id |-> DescriptionOf(f), says |-> "hint"]} ELSE {}
  BY <1>2 DEF F!FormDescription
<1>5. QED
  BY <1>3, <1>4

\* The elements of a field carry ids made from the id of its item.
LEMMA ElementsOfField ==
    ASSUME NEW f
    PROVE  /\ \A e \in F!FormDescription(f) :
                f \in hinted /\ e.id = DescriptionOf(f) /\ e.says = "hint"
           /\ \A e \in F!FormMessage(f) :
                Body(f) # "" /\ e.id = MessageOf(f) /\ e.says = Body(f)
           /\ f \in hinted => F!FormDescription(f) # {}
           /\ Body(f) # "" => F!FormMessage(f) # {}
<1> DEFINE d == [id |-> DescriptionOf(f), says |-> "hint"]
           m == [id |-> MessageOf(f), says |-> Body(f)]
<1>1. /\ d.id = DescriptionOf(f) /\ d.says = "hint"
      /\ m.id = MessageOf(f) /\ m.says = Body(f)
  OBVIOUS
<1>2. /\ F!FormDescription(f) = IF f \in hinted THEN {d} ELSE {}
      /\ F!FormMessage(f) = IF Body(f) = "" THEN {} ELSE {m}
  BY FieldRenders
<1> HIDE DEF d, m
<1>3. QED
  BY <1>1, <1>2

\* No two fields, and no two parts of one, have an id in common.
LEMMA IdsDiffer ==
    ASSUME FormInv, NEW f \in F!Mounted, NEW g \in F!Mounted
    PROVE  /\ DescriptionOf(f) # MessageOf(g)
           /\ DescriptionOf(f) = DescriptionOf(g) => f = g
           /\ MessageOf(f) = MessageOf(g) => f = g
BY DEF FormInv, DescriptionOf, MessageOf

LEMMA FormDescribes ==
    ASSUME FormInv
    PROVE  F!DescribedByItsOwn
<1> SUFFICES ASSUME NEW f \in F!Mounted
    PROVE  LET said == {e.says : e \in {e \in F!Elements : e.id \in F!FormControl(f).describedBy}}
           IN /\ said \subseteq {"hint", errors[f]}
              /\ ("hint" \in said) = (f \in hinted)
              /\ (errors[f] \in Messages \ {""}) => errors[f] \in said
              /\ F!FormControl(f).invalid = (errors[f] # "none")
              /\ {g \in F!Mounted : F!FormControl(g).id = F!FormLabel(f)} = {f}
  BY DEF F!DescribedByItsOwn
<1> DEFINE described == {e \in F!Elements : e.id \in F!FormControl(f).describedBy}
           said == {e.says : e \in described}
<1>1. /\ f \in Fields
      /\ errors[f] \in Messages \union {"none"}
      /\ {"none", "hint"} \intersect Messages = {}
      /\ \A g \in F!Mounted : items[g] = items[f] => g = f
  BY ClientPartsAssumption DEF FormInv, F!FormTypeOK, F!Mounted, F!FormFieldAssumption
<1>2. /\ F!FormControl(f).describedBy
           = IF errors[f] # "none" THEN {DescriptionOf(f), MessageOf(f)}
                                   ELSE {DescriptionOf(f)}
      /\ F!FormControl(f).invalid = (errors[f] # "none")
      /\ \A g \in F!Mounted : F!FormControl(g).id = <<items[g], "form-item">>
      /\ F!FormLabel(f) = <<items[f], "form-item">>
  BY DEF F!FormControl, F!FormLabel, F!useFormField, DescriptionOf, MessageOf
<1>3. ASSUME NEW e \in described
      PROVE  \/ e \in F!FormDescription(f)
             \/ e \in F!FormMessage(f) /\ errors[f] # "none"
  <2>1. PICK g \in F!Mounted : e \in F!FormDescription(g) \union F!FormMessage(g)
    BY DEF F!Elements
  <2>2. CASE e \in F!FormDescription(g)
    <3>1. e.id = DescriptionOf(g)
      BY <2>2, ElementsOfField
    <3>2. e.id \in F!FormControl(f).describedBy
      OBVIOUS
    <3>3. f = g
      BY <1>2, <3>1, <3>2, IdsDiffer
    <3>4. QED
      BY <2>2, <3>3
  <2>3. CASE e \in F!FormMessage(g)
    <3>1. e.id = MessageOf(g)
      BY <2>3, ElementsOfField
    <3>2. e.id \in F!FormControl(f).describedBy
      OBVIOUS
    <3>3. f = g /\ errors[f] # "none"
      BY <1>2, <3>1, <3>2, IdsDiffer
    <3>4. QED
      BY <2>3, <3>3
  <2>4. QED
    BY <2>1, <2>2, <2>3
<1>4. ASSUME NEW e, \/ e \in F!FormDescription(f)
                    \/ e \in F!FormMessage(f) /\ errors[f] # "none"
      PROVE  e \in described
  <2>1. e \in F!Elements
    BY <1>4 DEF F!Elements
  <2>2. e.id \in F!FormControl(f).describedBy
    BY <1>2, <1>4, ElementsOfField
  <2>3. QED
    BY <2>1, <2>2
<1> HIDE DEF described
<1>5. said \subseteq {"hint", errors[f]}
  BY <1>3, ElementsOfField DEF Body
<1>6. "hint" \in said <=> f \in hinted
  <2>1. errors[f] # "none" => Body(f) # "hint"
    BY <1>1 DEF Body
  <2>2. QED
    BY <2>1, <1>3, <1>4, ElementsOfField
<1>7. errors[f] \in Messages \ {""} => errors[f] \in said
  <2>1. errors[f] \in Messages \ {""} => Body(f) = errors[f] /\ errors[f] \notin {"none", ""}
    BY <1>1 DEF Body
  <2>2. QED
    BY <2>1, <1>4, ElementsOfField
<1>8. {g \in F!Mounted : F!FormControl(g).id = F!FormLabel(f)} = {f}
  BY <1>1, <1>2
<1>9. QED
  <2>1. ("hint" \in said) = (f \in hinted)
    BY <1>6
  <2>2. QED
    BY <1>2, <1>5, <1>7, <1>8, <2>1 DEF described

\* A finite set laid out as a list is all in it.
LEMMA SetAsList ==
    ASSUME NEW D, IsFiniteSet(D)
    PROVE  LET list == F!SetToSeq(D)
           IN /\ DOMAIN list = 1 .. Cardinality(D) /\ Cardinality(D) \in Nat
              /\ {list[i] : i \in DOMAIN list} = D
<1> DEFINE n == Cardinality(D)
           list == F!SetToSeq(D)
<1>1. n \in Nat /\ ExistsBijection(1 .. n, D)
  BY FS_CardinalityType
<1>2. \E f \in [1 .. n -> D] : F!IsInjective(f)
  BY <1>1 DEF ExistsBijection, Bijection, Injection, IsInjective, F!IsInjective
<1>3. F!Cardinality(D) = n
  BY DEF F!Cardinality, Cardinality
<1>4. list \in [1 .. n -> D] /\ F!IsInjective(list)
  BY <1>2, <1>3 DEF F!SetToSeq
<1> HIDE DEF list
<1>5. list \in Injection(1 .. n, D)
  BY <1>4 DEF Injection, IsInjective, F!IsInjective
<1>6. Cardinality(1 .. n) = n
  BY <1>1, FS_Interval
<1>7. list \in Surjection(1 .. n, D)
  BY <1>5, <1>6, FS_Injection
<1>8. QED
  BY <1>1, <1>4, <1>7 DEF Surjection, list

LEMMA JustOne == 1 .. 1 = {1}
OBVIOUS

\* What FieldError says of a list of errors: the messages that are in it.
LEMMA FieldErrorSays ==
    ASSUME NEW n \in Nat, NEW errs, errs = [i \in 1 .. n |-> errs[i]]
    PROVE  F!FieldError(FALSE, errs) = {errs[i] : i \in 1 .. n} \ {""}
<1>1. DOMAIN errs = 1 .. n /\ Len(errs) = n
  OBVIOUS
<1>2. CASE n = 1 /\ errs[1] # ""
  <2>1. F!FieldError(FALSE, errs) = {errs[1]}
    BY <1>1, <1>2 DEF F!FieldError
  <2>2. 1 .. n = {1}
    BY <1>2, JustOne
  <2>3. {errs[i] : i \in 1 .. n} = {errs[1]}
    BY <2>2
  <2>4. QED
    BY <1>2, <2>1, <2>3
<1>3. CASE ~(n = 1 /\ errs[1] # "")
  BY <1>1, <1>3 DEF F!FieldError
<1>4. QED
  BY <1>2, <1>3

LEMMA FormMessagesAgree ==
    ASSUME FormInv
    PROVE  F!MessagesAgree
<1>1. ASSUME NEW f \in F!Mounted, errors[f] # "none"
      PROVE  {e.says : e \in F!FormMessage(f)} = {errors[f]} \ {""}
  <2>1. Body(f) = errors[f]
    BY <1>1 DEF Body
  <2>2. QED
    BY <2>1, ElementsOfField
<1>2. ASSUME NEW f \in F!Mounted, errors[f] # "none"
      PROVE  F!FieldError(FALSE, <<F!Message(f)>>) = {e.says : e \in F!FormMessage(f)}
  <2> DEFINE errs == <<F!Message(f)>>
  <2>1. F!Message(f) = errors[f]
    BY <1>2 DEF F!Message
  <2>2. errs[1] = errors[f] /\ errs = [i \in 1 .. 1 |-> errs[i]]
    BY <2>1
  <2> HIDE DEF errs
  <2>3. F!FieldError(FALSE, errs) = {errs[i] : i \in 1 .. 1} \ {""}
    BY <2>2, FieldErrorSays
  <2>4. {errs[i] : i \in 1 .. 1} = {errors[f]}
    BY <2>2
  <2>5. QED
    BY <1>1, <1>2, <2>3, <2>4 DEF errs
<1> DEFINE invalid == {f \in F!Mounted : errors[f] # "none"}
           summary == F!SetToSeq(F!Mounted)
           errs == [i \in DOMAIN summary |-> F!Message(summary[i])]
           says == {e.says : e \in UNION {F!FormMessage(f) : f \in invalid}}
<1>3. /\ F!Mounted = {summary[i] : i \in DOMAIN summary}
      /\ \E n \in Nat : DOMAIN summary = 1 .. n
  <2>1. F!IsFiniteSet(Fields)
    BY ClientPartsAssumption DEF F!FormFieldAssumption
  <2>2. IsFiniteSet(Fields)
    BY <2>1 DEF F!IsFiniteSet, IsFiniteSet
  <2>3. IsFiniteSet(F!Mounted)
    BY <2>2, FS_Subset DEF F!Mounted
  <2>4. QED
    BY <2>3, SetAsList
<1> HIDE DEF summary
<1>4. F!FieldError(FALSE, errs) = {errs[i] : i \in DOMAIN errs} \ {""}
  <2>1. PICK n \in Nat : DOMAIN summary = 1 .. n
    BY <1>3
  <2>2. DOMAIN errs = 1 .. n /\ errs = [i \in 1 .. n |-> errs[i]]
    BY <2>1
  <2> HIDE DEF errs
  <2>3. QED
    BY <2>2, FieldErrorSays
<1>5. {errs[i] : i \in DOMAIN errs} = {F!Message(f) : f \in F!Mounted}
  BY <1>3
<1>6. {F!Message(f) : f \in F!Mounted} \ {""} = {errors[f] : f \in invalid} \ {""}
  BY DEF F!Message
<1>7. says = {errors[f] : f \in invalid} \ {""}
  <2>1. ASSUME NEW t \in says
        PROVE  t \in {errors[f] : f \in invalid} \ {""}
    <3>1. PICK f \in invalid : \E e \in F!FormMessage(f) : t = e.says
      OBVIOUS
    <3>2. QED
      BY <1>1, <3>1
  <2>2. ASSUME NEW f \in invalid, errors[f] # ""
        PROVE  errors[f] \in says
    <3>1. PICK e \in F!FormMessage(f) : errors[f] = e.says
      BY <1>1, <2>2
    <3>2. QED
      BY <3>1
  <2>3. QED
    BY <2>1, <2>2
<1>8. QED
  BY <1>2, <1>4, <1>5, <1>6, <1>7 DEF F!MessagesAgree, summary

\* A control is described by its own field and labelled by its own label, and
\* FieldError and FormMessage say the same (form.tsx, field.tsx).
THEOREM FormFieldsAreTheirOwn == Spec => []FieldPromise
<1>1. Init => FormInv
  <2>1. MaxIds \in Nat
    BY ClientPartsAssumption DEF F!FormFieldAssumption
  <2>2. F!FormInit => FormInv
    BY <2>1 DEF F!FormInit, FormInv, F!FormTypeOK, F!Mounted
  <2>3. QED
    BY <2>2 DEF Init
<1>2. FormInv /\ [Next]_vars => FormInv'
  BY FormInductive, PartsStep
<1>3. FormInv => FieldPromise
  BY FormDescribes, FormMessagesAgree DEF FormInv, FieldPromise
<1>4. QED
  BY <1>1, <1>2, <1>3, PTL DEF Spec

-----------------------------------------------------------------------------
(* ServerLife *)

\* A bundle that lies in dist was read after dist was last removed.
ServerLifeInv ==
    /\ L!LifeTypeOK
    /\ sources \in Nat \ {0}
    /\ wanted <= sources
    /\ dist # L!NoBundle => dist >= wanted

LEMMA ServerLifeInductive ==
    ASSUME ServerLifeInv, L!LifeStep \/ UNCHANGED lifeVars
    PROVE  ServerLifeInv' /\ L!StartsWhatWasBuilt
<1>0. MaxEdits \in Nat /\ MaxRounds \in Nat
  BY ClientPartsAssumption DEF L!ServerLifeAssumption
<1> USE <1>0 DEF ServerLifeInv, L!LifeTypeOK, L!NoBundle, L!StartsWhatWasBuilt
<1>1. CASE UNCHANGED lifeVars
  BY <1>1 DEF lifeVars
<1>2. CASE L!EditSources
  BY <1>2 DEF L!EditSources
<1>3. CASE L!buildAll
  BY <1>3 DEF L!buildAll
<1>4. CASE L!RemoveDist
  <2>1. CASE builder' = "cleaned" /\ dist' = L!Removed(dist) /\ wanted' = sources
    BY <1>4, <2>1 DEF L!RemoveDist, L!Removed
  <2>2. CASE builder' = "failed" /\ dist' \in {dist, L!NoBundle} /\ UNCHANGED wanted
    BY <1>4, <2>2 DEF L!RemoveDist
  <2>3. QED
    BY <1>4, <2>1, <2>2 DEF L!RemoveDist
<1>5. CASE L!esbuild
  BY <1>5 DEF L!esbuild
<1>6. CASE L!Start
  BY <1>6 DEF L!Start
<1>7. CASE L!Listen
  BY <1>7 DEF L!Listen
<1>8. CASE L!Stop
  BY <1>8 DEF L!Stop
<1>9. QED
  BY <1>1, <1>2, <1>3, <1>4, <1>5, <1>6, <1>7, <1>8 DEF L!LifeStep

\* What starts is no older than the sources were when a build last removed dist:
\* build.mjs awaits the removal before it bundles, so that neither a bundling
\* that fails or is killed nor sources that change under it leave an older
\* bundle to start.  (While rm is awaited, or has failed, the old one is there.)
THEOREM ServerStartsWhatWasBuilt == Spec => StartsWhatWasBuilt
<1>1. Init => ServerLifeInv
  <2>1. MaxEdits \in Nat /\ MaxRounds \in Nat
    BY ClientPartsAssumption DEF L!ServerLifeAssumption
  <2>2. L!LifeInit => ServerLifeInv
    <3>1. L!LifeInit => {broken, portTaken} \subseteq BOOLEAN
      BY Zenon DEF L!LifeInit
    <3>2. QED
      BY <2>1, <3>1 DEF L!LifeInit, ServerLifeInv, L!LifeTypeOK, L!NoBundle
  <2>3. QED
    BY <2>2 DEF Init
<1>2. ServerLifeInv /\ [Next]_vars => ServerLifeInv' /\ L!StartsWhatWasBuilt
  BY ServerLifeInductive, PartsStep
<1>3. ServerLifeInv => L!LifeTypeOK
  BY DEF ServerLifeInv
<1>4. QED
  BY <1>1, <1>2, <1>3, PTL DEF Spec, StartsWhatWasBuilt

-----------------------------------------------------------------------------
(* Calendar *)

\* The focus is on the focused day that is shown, or that day's effect is due.
CalendarInv ==
    /\ K!CalendarTypeOK
    /\ focusedDay \in K!Shown(month) => focus = focusedDay \/ focusedDay \in dueDays

\* Every day lies in one of the months there are.
LEMMA MonthOfDay ==
    ASSUME NEW day \in K!Days
    PROVE  K!MonthOf(day) \in 1 .. Months
<1>0. Months \in Nat \ {0} /\ DaysPerMonth \in Nat \ {0}
  BY ClientPartsAssumption DEF K!CalendarAssumption
<1> DEFINE q == (day - 1) \div DaysPerMonth
<1>1. day \in Int /\ 1 <= day /\ day <= Months * DaysPerMonth
  BY <1>0 DEF K!Days
<1>2. q \in Int /\ DaysPerMonth * q <= day - 1 /\ day - 1 < DaysPerMonth * q + DaysPerMonth
  BY <1>0, <1>1
<1> HIDE DEF q
<1>3. 0 <= q
  BY <1>0, <1>1, <1>2
<1>4. q < Months
  <2>1. SUFFICES ASSUME q >= Months PROVE FALSE
    BY <1>0, <1>2
  <2>2. DaysPerMonth * q >= DaysPerMonth * Months
    BY <1>0, <1>2, <2>1
  <2>3. QED
    BY <1>0, <1>1, <1>2, <2>2
<1>5. QED
  BY <1>0, <1>2, <1>3, <1>4 DEF K!MonthOf, q

\* A render that keeps all the buttons of the month or none, and that leaves the
\* page's focus alone or moves it to the focused day, unless that day changes.
LEMMA RenderKeepsFocus ==
    ASSUME CalendarInv,
           NEW kept \in {{}, K!Shown(month)}, NEW m \in 1 .. Months,
           NEW day \in K!Days \union {K!NoDay}, NEW at \in K!Days \union {K!NoDay},
           day = focusedDay => at \in {focus, day},
           K!Render(kept, m, day, at)
    PROVE  CalendarInv'
<1> USE DEF CalendarInv, K!CalendarTypeOK, K!Render
<1>1. K!CalendarTypeOK'
  BY DEF K!Effects, K!Shown
<1>2. ASSUME day \in K!Shown(m)
      PROVE  focus' = day \/ day \in dueDays'
  BY <1>2 DEF K!Effects, K!Shown, K!NoDay
<1>3. QED
  BY <1>1, <1>2 DEF K!Shown

LEMMA CalendarInductive ==
    ASSUME CalendarInv, K!CalendarStep \/ UNCHANGED calendarVars
    PROVE  CalendarInv'
<1>1. CASE UNCHANGED calendarVars
  BY <1>1 DEF calendarVars, CalendarInv, K!CalendarTypeOK, K!Shown
<1>2. CASE K!CalendarDayButton
  BY <1>2 DEF K!CalendarDayButton, CalendarInv, K!CalendarTypeOK, K!Shown
<1>3. CASE K!Root
  BY <1>3, RenderKeepsFocus DEF K!Root, CalendarInv, K!CalendarTypeOK
<1>4. CASE K!Choose
  BY <1>4, RenderKeepsFocus DEF K!Choose, CalendarInv, K!CalendarTypeOK
<1>5. ASSUME NEW day \in K!Days, K!FocusDay(day)
      PROVE  CalendarInv'
  BY <1>5, RenderKeepsFocus DEF K!FocusDay, CalendarInv, K!CalendarTypeOK, K!Shown
<1>6. ASSUME NEW day \in K!Days, K!ArrowKey(day)
      PROVE  CalendarInv'
  BY <1>6, RenderKeepsFocus, MonthOfDay DEF K!ArrowKey, CalendarInv, K!CalendarTypeOK, K!Days, K!NoDay
<1>7. ASSUME NEW m \in 1 .. Months, K!Leave(m)
      PROVE  CalendarInv'
  <2>1. K!Render(K!Shown(month), m, IF focus # K!NoDay THEN K!NoDay ELSE focusedDay, K!NoDay)
    BY <1>7 DEF K!Leave
  <2>2. QED
    BY <2>1, RenderKeepsFocus DEF CalendarInv, K!CalendarTypeOK
<1>8. QED
  BY <1>1, <1>2, <1>3, <1>4, <1>5, <1>6, <1>7 DEF K!CalendarStep

\* Once the effects have run, the page's focus is on the day react-day-picker
\* takes for the focused one, however the grid is replaced (calendar.tsx).
THEOREM CalendarKeepsFocus == Spec => []FocusIsKept
<1>1. Init => CalendarInv
  <2>1. Months \in Nat \ {0}
    BY ClientPartsAssumption DEF K!CalendarAssumption
  <2>2. K!CalendarInit => CalendarInv
    BY <2>1 DEF K!CalendarInit, CalendarInv, K!CalendarTypeOK, K!Shown, K!NoDay
  <2>3. QED
    BY <2>2 DEF Init
<1>2. CalendarInv /\ [Next]_vars => CalendarInv'
  BY CalendarInductive, PartsStep
<1>3. CalendarInv => FocusIsKept
  BY DEF CalendarInv, FocusIsKept, K!FocusIsKept
<1>4. QED
  BY <1>1, <1>2, <1>3, PTL DEF Spec

-----------------------------------------------------------------------------
(* Codegen *)

\* What a project that is through has left behind, if none has failed.
Fresh(p) == generated[p].version >= began /\ generated[p].file = "Api"

CodegenInv ==
    /\ O!CodegenTypeOK
    /\ spec.version \in Nat
    /\ generated = [p \in O!Projects |-> generated[p]]
    /\ began <= spec.version
    /\ failed => spoiled
    /\ step = "failed" => spoiled
    /\ step = "succeeded" => ~failed
    /\ ~failed =>
         /\ step \in {"zod", "typecheck", "succeeded"} => Fresh("api-client-react")
         /\ step \in {"typecheck", "succeeded"} => Fresh("zod")

LEMMA CodegenInductive ==
    ASSUME CodegenInv, O!CodegenStep \/ UNCHANGED codegenVars
    PROVE  CodegenInv'
<1>0. MaxEdits \in Nat /\ MaxRounds \in Nat
  BY ClientPartsAssumption DEF O!CodegenAssumption
<1> USE <1>0 DEF CodegenInv, O!CodegenTypeOK, O!Titles, O!Projects, O!Steps, Fresh
<1>1. CASE UNCHANGED codegenVars
  BY <1>1 DEF codegenVars
<1>2. CASE O!EditSpec
  BY <1>2 DEF O!EditSpec
<1>3. CASE O!codegen
  <2>1. {spec.sound, failed, spoiled}' \subseteq BOOLEAN
    BY <1>3, Zenon DEF O!codegen
  <2>2. QED
    BY <1>3, <2>1 DEF O!codegen
<1>4. ASSUME NEW p \in O!Projects, NEW next \in O!Steps, O!Generate(p, next),
             <<p, next>> \in {<<"api-client-react", "zod">>, <<"zod", "typecheck">>}
      PROVE  CodegenInv'
  <2>1. CASE spec.sound
    BY <1>4, <2>1 DEF O!Generate, O!titleTransformer
  <2>2. CASE ~spec.sound
    BY <1>4, <2>2 DEF O!Generate, O!Cleaned
  <2>3. QED
    BY <2>1, <2>2
<1>5. CASE O!api_client_react
  BY <1>4, <1>5 DEF O!api_client_react
<1>6. CASE O!zod
  BY <1>4, <1>6 DEF O!zod
<1>7. CASE O!typecheck
  BY <1>7 DEF O!typecheck
<1>8. QED
  BY <1>1, <1>2, <1>3, <1>5, <1>6, <1>7 DEF O!CodegenStep

\* A codegen that succeeds leaves client and server with code of the
\* specification it began with or a later one, and one that fails has read a
\* specification that was not in order (orval.config.ts, package.json).
THEOREM CodegenIsExplained == Spec => []CodegenExplained
<1>1. Init => CodegenInv
  <2>1. MaxEdits \in Nat /\ MaxRounds \in Nat
    BY ClientPartsAssumption DEF O!CodegenAssumption
  <2>2. O!CodegenInit => CodegenInv
    <3>1. O!CodegenInit => {spec.sound, failed, spoiled} \subseteq BOOLEAN
      BY DEF O!CodegenInit
    <3>2. O!CodegenInit => spec.version = 1 /\ spec.title \in O!Titles
      BY DEF O!CodegenInit
    <3>3. QED
      BY <2>1, <3>1, <3>2
      DEF O!CodegenInit, CodegenInv, O!CodegenTypeOK, O!Projects, O!Steps
  <2>3. QED
    BY <2>2 DEF Init
<1>2. CodegenInv /\ [Next]_vars => CodegenInv'
  BY CodegenInductive, PartsStep
<1>3. CodegenInv => CodegenExplained
  BY DEF CodegenInv, CodegenExplained, O!CodegenExplained, O!CodegenTypeOK, O!Projects, Fresh
<1>4. QED
  BY <1>1, <1>2, <1>3, PTL DEF Spec

-----------------------------------------------------------------------------
(* CustomFetch *)

CallFields == DOMAIN H!NoCall

\* What Receive makes of a response.
Arrived(response, method) ==
    /\ response.form \in H!Forms
    /\ response.form = "garbage" => response.value # H!null
    /\ response.value.fields \subseteq H!MessageFields
    /\ response.stream = "null" => response.status \in H!NO_BODY_STATUS \/ method = "HEAD"

\* The headers of a request that goes out: the caller's and the defaults, with
\* a token only where the caller sends none.
Signed(call) ==
    LET own == H!HeadersOf(call.request)
    IN \/ call.auth = H!Nobody /\ call.headers = own
       \/ /\ "authorization" \notin DOMAIN own
          /\ call.headers = H!Default(own, "authorization", call.auth, TRUE)

Delivered(call) ==
    LET response == call.response
        outcome == call.outcome
    IN  /\ outcome.kind \in {"value", "ApiError", "ResponseParseError"}
        /\ call.request.method # "HEAD"
        /\ response.status \notin H!NO_BODY_STATUS
        /\ ~response.length0 /\ response.form # "blank"
        => /\ outcome.value = response.value
           /\ response.form # "garbage" => outcome.kind # "ResponseParseError"
           /\ outcome.kind = "ApiError" /\ response.media # "binary"
                 /\ (response.form = "garbage" \/ response.value.fields # {})
                => outcome.message # {}

CallInv(call) ==
    /\ DOMAIN call = CallFields
    /\ call.stage \in H!Stages
    /\ call.base \in Accounts \union {H!Nobody}
    /\ call.auth \in Accounts \union {H!Nobody}
    /\ call.getter \in Accounts \union {H!Nobody}
    /\ call.stage # "done" => call.outcome = H!Pending
    /\ call.stage = "done" => call.outcome.kind # "pending"
    /\ call.stage # "idle" => call.request \in Requests
    /\ call.stage \in {"token", "sent", "received"} =>
         /\ call.auth \in {H!Nobody, call.getter}
         /\ call.base = IF call.request.absolute THEN H!Nobody ELSE call.getter
    /\ call.stage = "token" =>
         /\ call.auth = H!Nobody
         /\ call.headers = H!HeadersOf(call.request)
         /\ "authorization" \notin DOMAIN call.headers
    /\ call.stage \in {"sent", "received"} => Signed(call)
    /\ call.stage = "received" => Arrived(call.response, call.request.method)
    /\ Delivered(call)

FetchInv ==
    /\ runtime \in Runtimes
    /\ account \in Accounts \union {H!Nobody}
    /\ DOMAIN calls = Calls
    /\ \A c \in Calls : CallInv(calls[c])

LEMMA NoCallIsOne == CallInv(H!NoCall)
BY DEF CallInv, CallFields, H!NoCall, H!Stages, H!Nobody, H!Pending, H!Outcome, Delivered

\* Whatever a call does, it does to itself.
LEMMA OneCall ==
    ASSUME FetchInv, NEW c \in Calls, NEW call, CallInv(call),
           calls' = [calls EXCEPT ![c] = call], UNCHANGED <<runtime, account>>
    PROVE  FetchInv'
BY DEF FetchInv

LEMMA FetchStarts ==
    ASSUME FetchInv, NEW c \in Calls, NEW request \in Requests, H!customFetch(c, request)
    PROVE  FetchInv'
<1> DEFINE call == [H!NoCall EXCEPT !.request = request, !.base = H!applyBaseUrl(request),
                                    !.getter = account, !.headers = H!HeadersOf(request)]
           refused == [call EXCEPT !.stage = "done",
                                   !.outcome = H!Outcome("TypeError", H!null)]
           next == IF account = H!Nobody \/ "authorization" \in DOMAIN call.headers
                   THEN "sent" ELSE "token"
           accepted == [call EXCEPT !.stage = next]
<1>1. \/ calls' = [calls EXCEPT ![c] = refused]
      \/ calls' = [calls EXCEPT ![c] = accepted]
  BY DEF H!customFetch
<1>2. /\ account \in Accounts \union {H!Nobody}
      /\ UNCHANGED <<runtime, account>>
  BY DEF FetchInv, H!customFetch
<1>3. /\ DOMAIN call = CallFields /\ call.request = request /\ call.getter = account
      /\ call.headers = H!HeadersOf(request) /\ call.base = H!applyBaseUrl(request)
      /\ call.auth = H!Nobody /\ call.outcome = H!Pending
  BY DEF H!NoCall, CallFields
<1>4. /\ H!applyBaseUrl(request) \in Accounts \union {H!Nobody}
      /\ H!applyBaseUrl(request) = IF request.absolute THEN H!Nobody ELSE account
  BY <1>2 DEF H!applyBaseUrl
<1> HIDE DEF call
<1>5. CallInv(refused)
  <2>1. /\ DOMAIN refused = CallFields /\ refused.request = request
        /\ refused.getter = account /\ refused.base = call.base /\ refused.auth = H!Nobody
        /\ refused.stage = "done" /\ refused.outcome = H!Outcome("TypeError", H!null)
    BY <1>3 DEF CallFields, H!NoCall
  <2>2. refused.outcome.kind = "TypeError"
    BY <2>1 DEF H!Outcome
  <2> HIDE DEF refused
  <2>3. Delivered(refused)
    BY <2>2 DEF Delivered
  <2>4. refused.base \in Accounts \union {H!Nobody} /\ H!Nobody \in Accounts \union {H!Nobody}
    BY <1>3, <1>4, <2>1
  <2>5. QED
    BY <1>2, <2>1, <2>2, <2>3, <2>4, SMTT(30) DEF CallInv, H!Stages
<1>6. CallInv(accepted)
  <2>1. /\ DOMAIN accepted = CallFields /\ accepted.request = request
        /\ accepted.getter = account /\ accepted.base = call.base /\ accepted.auth = H!Nobody
        /\ accepted.headers = H!HeadersOf(request)
        /\ accepted.stage = next /\ accepted.outcome = H!Pending
    BY <1>3 DEF CallFields, H!NoCall
  <2>2. /\ next \in {"sent", "token"}
        /\ next = "token" => "authorization" \notin DOMAIN H!HeadersOf(request)
    BY <1>3
  <2> HIDE DEF accepted, next
  <2>3. Delivered(accepted) /\ Signed(accepted)
    BY <2>1 DEF Delivered, Signed, H!Pending, H!Outcome
  <2>4. /\ accepted.base \in Accounts \union {H!Nobody}
        /\ H!Nobody \in Accounts \union {H!Nobody}
        /\ accepted.base = IF request.absolute THEN H!Nobody ELSE account
    BY <1>3, <1>4, <2>1
  <2>5. accepted.stage \in {"sent", "token"}
    BY <2>1, <2>2
  <2>6. QED
    BY <1>2, <2>1, <2>2, <2>3, <2>4, <2>5 DEF CallInv, H!Stages
<1>7. QED
  BY <1>1, <1>2, <1>5, <1>6, OneCall

\* The headers a call is sent with, with the token that has come.
LEMMA FetchToken ==
    ASSUME FetchInv, NEW c \in Calls, H!TokenArrives(c)
    PROVE  FetchInv'
<1> DEFINE old == calls[c]
           Sent(auth) == [old EXCEPT !.stage = "sent", !.auth = auth,
                !.headers = H!Default(old.headers, "authorization", auth, auth # H!Nobody)]
           rejected == [old EXCEPT !.stage = "done", !.outcome = H!Outcome("rejected", H!null)]
<1>1. /\ CallInv(old) /\ old.stage = "token" /\ UNCHANGED <<runtime, account>>
      /\ DOMAIN calls = Calls
  BY DEF FetchInv, H!TokenArrives
<1>2. DOMAIN old = CallFields /\ CallFields = DOMAIN H!NoCall
  BY <1>1 DEF CallInv, CallFields
<1> HIDE DEF old
<1>3. \/ \E auth \in {old.getter, H!Nobody} : calls' = [calls EXCEPT ![c] = Sent(auth)]
      \/ calls' = [calls EXCEPT ![c] = rejected]
  BY <1>1 DEF H!TokenArrives, old
<1>4. ASSUME NEW auth \in {old.getter, H!Nobody}
      PROVE  CallInv(Sent(auth))
  <2> DEFINE new == Sent(auth)
  <2>1. /\ DOMAIN new = CallFields /\ new.stage = "sent" /\ new.auth = auth
        /\ new.headers = H!Default(old.headers, "authorization", auth, auth # H!Nobody)
        /\ new.request = old.request /\ new.base = old.base /\ new.getter = old.getter
        /\ new.outcome = old.outcome /\ new.response = old.response
    BY <1>2 DEF H!NoCall
  <2> HIDE DEF new
  <2>2. /\ old.headers = H!HeadersOf(old.request) /\ old.outcome = H!Pending
        /\ "authorization" \notin DOMAIN old.headers
    BY <1>1 DEF CallInv
  <2>3. Signed(new)
    <3>1. CASE auth = H!Nobody
      BY <2>1, <2>2, <3>1 DEF Signed, H!Default
    <3>2. CASE auth # H!Nobody
      BY <2>1, <2>2, <3>2 DEF Signed, H!Default
    <3>3. QED
      BY <3>1, <3>2
  <2>4. Delivered(new)
    BY <2>1, <2>2 DEF Delivered, H!Pending, H!Outcome
  <2>5. CallInv(new)
    BY <1>1, <2>1, <2>2, <2>3, <2>4 DEF CallInv, H!Stages
  <2>6. QED
    BY <2>5 DEF new
<1>5. CallInv(rejected)
  <2>1. /\ DOMAIN rejected = CallFields /\ rejected.stage = "done"
        /\ rejected.request = old.request /\ rejected.base = old.base
        /\ rejected.getter = old.getter /\ rejected.auth = old.auth
        /\ rejected.outcome.kind = "rejected"
    BY <1>2 DEF H!NoCall, H!Outcome
  <2> HIDE DEF rejected
  <2>2. Delivered(rejected)
    BY <2>1 DEF Delivered
  <2>3. QED
    BY <1>1, <2>1, <2>2 DEF CallInv, H!Stages
<1>6. QED
  BY <1>1, <1>3, <1>4, <1>5, OneCall

LEMMA FetchReceives ==
    ASSUME FetchInv, NEW c \in Calls, NEW response \in Responses, H!Receive(c, response)
    PROVE  FetchInv'
<1> DEFINE old == calls[c]
           stream == IF runtime = "native" THEN "undefined"
                     ELSE IF response.status \in H!NO_BODY_STATUS \/ old.request.method = "HEAD"
                          THEN "null" ELSE "stream"
           arrived == [response EXCEPT !.stream = stream]
           new == [old EXCEPT !.stage = "received", !.response = arrived]
<1>1. /\ CallInv(old) /\ old.stage = "sent" /\ UNCHANGED <<runtime, account>>
      /\ calls' = [calls EXCEPT ![c] = new]
  BY DEF FetchInv, H!Receive
<1>2. stream = "null" => response.status \in H!NO_BODY_STATUS \/ old.request.method = "HEAD"
  OBVIOUS
<1> HIDE DEF old, stream
<1>3. Arrived(arrived, old.request.method)
  <2>1. DOMAIN response = DOMAIN H!NoResponse
    BY FetchInputs
  <2>2. /\ arrived.stream = stream /\ arrived.status = response.status
        /\ arrived.form = response.form /\ arrived.value = response.value
    BY <2>1 DEF H!NoResponse
  <2> HIDE DEF arrived
  <2>3. QED
    BY <1>2, <2>2, FetchInputs DEF Arrived
<1> HIDE DEF arrived
<1>4. /\ DOMAIN new = CallFields /\ new.stage = "received" /\ new.response = arrived
      /\ new.request = old.request /\ new.base = old.base /\ new.getter = old.getter
      /\ new.auth = old.auth /\ new.headers = old.headers /\ new.outcome = old.outcome
  BY <1>1 DEF CallInv, CallFields, H!NoCall
<1> HIDE DEF new
<1>5. old.outcome = H!Pending
  BY <1>1 DEF CallInv
<1>6. Delivered(new)
  BY <1>4, <1>5 DEF Delivered, H!Pending, H!Outcome
<1>7. Signed(new)
  BY <1>1, <1>4 DEF CallInv, Signed
<1>8. CallInv(new)
  BY <1>1, <1>3, <1>4, <1>5, <1>6, <1>7 DEF CallInv, H!Stages
<1>9. QED
  BY <1>1, <1>8, OneCall

LEMMA FetchRejected ==
    ASSUME FetchInv, NEW c \in Calls, H!FetchRejects(c)
    PROVE  FetchInv'
<1> DEFINE old == calls[c]
           new == [old EXCEPT !.stage = "done", !.outcome = H!Outcome("rejected", H!null)]
<1>1. /\ CallInv(old) /\ old.stage \in {"sent", "received"} /\ UNCHANGED <<runtime, account>>
      /\ calls' = [calls EXCEPT ![c] = new]
  BY DEF FetchInv, H!FetchRejects
<1> HIDE DEF old
<1>2. /\ DOMAIN new = CallFields /\ new.stage = "done" /\ new.outcome.kind = "rejected"
      /\ new.request = old.request /\ new.base = old.base /\ new.getter = old.getter
      /\ new.auth = old.auth
  BY <1>1 DEF CallInv, CallFields, H!NoCall, H!Outcome
<1> HIDE DEF new
<1>3. Delivered(new)
  BY <1>2 DEF Delivered
<1>4. CallInv(new)
  BY <1>1, <1>2, <1>3 DEF CallInv, H!Stages
<1>5. QED
  BY <1>1, <1>4, OneCall

\* What the parser makes of a body that is there.
LEMMA SuccessParsed ==
    ASSUME NEW response, NEW method, NEW responseType \in H!ResponseTypes,
           Arrived(response, method)
    PROVE  LET outcome == H!parseSuccessBody(response, responseType, method)
           IN /\ outcome.kind \in {"value", "ResponseParseError", "TypeError"}
              /\ /\ outcome.kind # "TypeError" /\ method # "HEAD"
                 /\ response.status \notin H!NO_BODY_STATUS
                 /\ ~response.length0 /\ response.form # "blank"
                 => /\ outcome.value = response.value
                    /\ response.form # "garbage" => outcome.kind = "value"
<1> DEFINE type == IF responseType = "auto" THEN H!inferResponseType(response) ELSE responseType
           empty == H!hasNoBody(response, method)
           outcome == H!parseSuccessBody(response, responseType, method)
<1>1. type \in {"json", "text", "blob"}
  BY DEF H!inferResponseType, H!isJsonMediaType, H!isTextMediaType, H!ResponseTypes
<1>2. outcome =
        CASE empty -> H!Outcome("value", H!null)
          [] ~empty /\ type = "json" -> H!parseJsonBody(response)
          [] ~empty /\ type = "text" ->
                H!Outcome("value", IF response.form = "blank" THEN H!null ELSE response.value)
          [] ~empty /\ type = "blob" ->
                IF runtime = "browser" THEN H!Outcome("value", response.value)
                                       ELSE H!Outcome("TypeError", H!null)
  BY DEF H!parseSuccessBody
<1>3. /\ method # "HEAD" /\ response.status \notin H!NO_BODY_STATUS /\ ~response.length0
      => ~empty
  BY DEF H!hasNoBody, Arrived
<1> HIDE DEF type, empty, outcome
<1>4. CASE empty
  <2>1. outcome = H!Outcome("value", H!null)
    BY <1>2, <1>4
  <2>2. QED
    BY <1>3, <1>4, <2>1 DEF H!Outcome, outcome
<1>5. CASE ~empty /\ type = "json"
  <2>1. outcome = H!parseJsonBody(response)
    BY <1>2, <1>5
  <2>2. CASE response.form = "blank"
    BY <2>1, <2>2 DEF H!parseJsonBody, H!Outcome, outcome
  <2>3. CASE response.form \in {"json", "bom"}
    BY <2>1, <2>3 DEF H!parseJsonBody, H!stripBom, H!Outcome, outcome
  <2>4. CASE response.form = "garbage"
    BY <2>1, <2>4 DEF H!parseJsonBody, H!stripBom, H!Outcome, outcome
  <2>5. QED
    BY <2>2, <2>3, <2>4 DEF Arrived, H!Forms
<1>6. CASE ~empty /\ type = "text"
  <2>1. outcome = H!Outcome("value", IF response.form = "blank" THEN H!null ELSE response.value)
    BY <1>2, <1>6
  <2>2. QED
    BY <2>1 DEF H!Outcome, outcome
<1>7. CASE ~empty /\ type = "blob"
  <2>1. \/ outcome = H!Outcome("value", response.value)
        \/ outcome = H!Outcome("TypeError", H!null)
    BY <1>2, <1>7
  <2>2. QED
    BY <2>1 DEF H!Outcome, outcome
<1>8. QED
  BY <1>1, <1>4, <1>5, <1>6, <1>7

\* What an error says: the body, and in its message what the body is about.
LEMMA ErrorExplained ==
    ASSUME NEW response, NEW method, Arrived(response, method)
    PROVE  LET outcome == H!ApiError(response, method)
           IN /\ outcome.kind = "ApiError"
              /\ /\ method # "HEAD" /\ response.status \notin H!NO_BODY_STATUS
                 /\ ~response.length0 /\ response.form # "blank"
                 => /\ outcome.value = response.value
                    /\ response.media # "binary"
                         /\ (response.form = "garbage" \/ response.value.fields # {})
                       => outcome.message # {}
<1> DEFINE data == H!parseErrorBody(response, method)
           message == H!buildErrorMessage(response, data)
<1>1. H!ApiError(response, method) = [kind |-> "ApiError", value |-> data, message |-> message]
  BY DEF H!ApiError
<1>2. /\ method # "HEAD" /\ response.status \notin H!NO_BODY_STATUS
      /\ ~response.length0 /\ response.form # "blank"
      => data = response.value
  BY DEF H!parseErrorBody, H!hasNoBody, Arrived
<1>3. ASSUME data = response.value, response.media # "binary", response.form = "garbage"
      PROVE  message # {}
  <2>1. data # H!null /\ H!stripBom(response.form) # "json"
    BY <1>3 DEF Arrived, H!stripBom
  <2> HIDE DEF data
  <2>2. message = {"text"}
    BY <1>3, <2>1 DEF H!buildErrorMessage
  <2>3. QED
    BY <2>2
<1>4. ASSUME data = response.value, response.media # "binary", response.form # "garbage",
             response.form # "blank", response.value.fields # {}
      PROVE  message # {}
  <2>1. H!stripBom(response.form) = "json"
    BY <1>4 DEF Arrived, H!stripBom, H!Forms
  <2>2. data # H!null
    BY <1>4 DEF H!null, H!Text
  <2>3. data.fields # {} /\ data.fields \subseteq H!MessageFields
    BY <1>4 DEF Arrived
  <2> HIDE DEF data
  <2>4. CASE "detail" \in data.fields
    BY <1>4, <2>1, <2>2, <2>4 DEF H!buildErrorMessage
  <2>5. CASE "detail" \notin data.fields /\ "message" \in data.fields
    BY <1>4, <2>1, <2>2, <2>5 DEF H!buildErrorMessage
  <2>6. CASE /\ "detail" \notin data.fields /\ "message" \notin data.fields
             /\ "error_description" \in data.fields
    BY <1>4, <2>1, <2>2, <2>6 DEF H!buildErrorMessage
  <2>7. CASE /\ "detail" \notin data.fields /\ "message" \notin data.fields
             /\ "error_description" \notin data.fields
    <3>1. "error" \in data.fields \/ "title" \in data.fields
      BY <2>3, <2>7 DEF H!MessageFields
    <3>2. QED
      BY <1>4, <2>1, <2>2, <2>7, <3>1 DEF H!buildErrorMessage
  <2>8. QED
    BY <2>4, <2>5, <2>6, <2>7
<1>5. QED
  BY <1>1, <1>2, <1>3, <1>4

LEMMA FetchFinishes ==
    ASSUME FetchInv, NEW c \in Calls, H!Finish(c)
    PROVE  FetchInv'
<1> DEFINE old == calls[c]
           outcome == IF old.response.status \notin 200 .. 299
                      THEN H!ApiError(old.response, old.request.method)
                      ELSE H!parseSuccessBody(old.response, old.request.responseType,
                                              old.request.method)
           new == [old EXCEPT !.stage = "done", !.outcome = outcome]
<1>1. /\ CallInv(old) /\ old.stage = "received" /\ UNCHANGED <<runtime, account>>
      /\ calls' = [calls EXCEPT ![c] = new]
  BY DEF FetchInv, H!Finish
<1> HIDE DEF old
<1>2. /\ Arrived(old.response, old.request.method)
      /\ old.request.responseType \in H!ResponseTypes
  BY <1>1, FetchInputs DEF CallInv
<1>3. \/ outcome = H!ApiError(old.response, old.request.method)
      \/ outcome = H!parseSuccessBody(old.response, old.request.responseType,
                                      old.request.method)
  OBVIOUS
<1> HIDE DEF outcome
<1>4. /\ DOMAIN new = CallFields /\ new.stage = "done" /\ new.outcome = outcome
      /\ new.request = old.request /\ new.base = old.base /\ new.getter = old.getter
      /\ new.auth = old.auth /\ new.response = old.response
  BY <1>1 DEF CallInv, CallFields, H!NoCall
<1> HIDE DEF new
<1>5. /\ outcome.kind # "pending"
      /\ Delivered(new)
  <2>1. CASE outcome = H!ApiError(old.response, old.request.method)
    BY <1>2, <1>4, <2>1, ErrorExplained DEF Delivered
  <2>2. CASE outcome = H!parseSuccessBody(old.response, old.request.responseType,
                                          old.request.method)
    BY <1>2, <1>4, <2>2, SuccessParsed DEF Delivered
  <2>3. QED
    BY <1>3, <2>1, <2>2
<1>6. CallInv(new)
  BY <1>1, <1>4, <1>5 DEF CallInv, H!Stages
<1>7. QED
  BY <1>1, <1>6, OneCall

LEMMA FetchInductive ==
    ASSUME FetchInv, FetchStep \/ UNCHANGED fetchVars
    PROVE  FetchInv'
<1>1. CASE UNCHANGED fetchVars
  BY <1>1 DEF fetchVars, FetchInv
<1>2. ASSUME NEW a \in Accounts \union {H!Nobody}, H!Configure(a)
      PROVE  FetchInv'
  BY <1>2 DEF H!Configure, FetchInv
<1>3. ASSUME NEW c \in Calls, H!Release(c)
      PROVE  FetchInv'
  BY <1>3, NoCallIsOne, OneCall DEF H!Release
<1>4. QED
  BY <1>1, <1>2, <1>3, FetchStarts, FetchToken, FetchReceives, FetchRejected, FetchFinishes
  DEF FetchStep

Kept(headers, name, value, needed, full) ==
    /\ \A h \in DOMAIN headers : h \in DOMAIN full /\ full[h] = headers[h]
    /\ DOMAIN full \subseteq DOMAIN headers \union {name}
    /\ ~needed => full = headers
    /\ needed => name \in DOMAIN full
    /\ needed /\ name \notin DOMAIN headers => full[name] = value

\* A default is there if it is needed, and never replaces a header.
LEMMA DefaultHeader ==
    ASSUME NEW headers, NEW name, NEW value, NEW needed \in BOOLEAN
    PROVE  Kept(headers, name, value, needed, H!Default(headers, name, value, needed))
<1>1. CASE needed
  BY <1>1 DEF H!Default, H!mergeHeaders, Kept
<1>2. CASE ~needed
  BY <1>2 DEF H!Default, Kept
<1>3. QED
  BY <1>1, <1>2

\* The headers of a request that goes out are the caller's.
LEMMA HeadersMerged ==
    ASSUME NEW call, Signed(call)
    PROVE  /\ \A h \in DOMAIN call.request.given : call.headers[h] = call.request.given[h]
           /\ \A h \in DOMAIN call.request.own \ DOMAIN call.request.given :
                call.headers[h] = call.request.own[h]
           /\ call.request.body = "json text" => "content-type" \in DOMAIN call.headers
           /\ "content-type" \in DOMAIN call.headers
                 /\ call.headers["content-type"] = "json" /\ call.request.body # "json text"
                => "content-type" \in DOMAIN call.request.given \union DOMAIN call.request.own
           /\ call.auth # H!Nobody => call.headers["authorization"] = call.auth
<1> DEFINE theirs == call.request.given
           own == call.request.own
           merged == H!mergeHeaders(own, theirs)
           typed == H!Default(merged, "content-type", "json",
                              H!looksLikeJson(call.request.body))
           full == H!Default(typed, "accept", "json", call.request.responseType = "json")
<1>1. /\ DOMAIN merged = DOMAIN own \union DOMAIN theirs
      /\ \A h \in DOMAIN theirs : merged[h] = theirs[h]
      /\ \A h \in DOMAIN own \ DOMAIN theirs : merged[h] = own[h]
  BY DEF H!mergeHeaders
<1>3. /\ H!looksLikeJson(call.request.body) \in BOOLEAN
      /\ H!looksLikeJson(call.request.body) <=> call.request.body = "json text"
  BY DEF H!looksLikeJson
<1>4. H!HeadersOf(call.request) = full
  BY DEF H!HeadersOf
<1> HIDE DEF merged
<1>5. /\ \A h \in DOMAIN merged : h \in DOMAIN typed /\ typed[h] = merged[h]
      /\ call.request.body = "json text" => "content-type" \in DOMAIN typed
      /\ call.request.body # "json text" => DOMAIN typed \subseteq DOMAIN merged
  <2>1. Kept(merged, "content-type", "json", H!looksLikeJson(call.request.body), typed)
    BY <1>3, DefaultHeader
  <2> HIDE DEF typed
  <2>2. QED
    BY <1>3, <2>1 DEF Kept
<1> HIDE DEF typed
<1>6. /\ \A h \in DOMAIN typed : h \in DOMAIN full /\ full[h] = typed[h]
      /\ DOMAIN full \subseteq DOMAIN typed \union {"accept"}
  <2>1. (call.request.responseType = "json") \in BOOLEAN
    OBVIOUS
  <2>2. Kept(typed, "accept", "json", call.request.responseType = "json", full)
    BY <2>1, DefaultHeader
  <2> HIDE DEF full
  <2>3. QED
    BY <2>2 DEF Kept
<1> HIDE DEF full
<1>7. /\ \A h \in DOMAIN full : h \in DOMAIN call.headers /\ call.headers[h] = full[h]
      /\ DOMAIN call.headers \subseteq DOMAIN full \union {"authorization"}
      /\ call.auth # H!Nobody => call.headers["authorization"] = call.auth
  <2>1. CASE call.auth = H!Nobody /\ call.headers = full
    BY <2>1
  <2>2. CASE /\ "authorization" \notin DOMAIN full
             /\ call.headers = H!Default(full, "authorization", call.auth, TRUE)
    <3>1. Kept(full, "authorization", call.auth, TRUE, call.headers)
      BY <2>2, DefaultHeader
    <3>2. QED
      BY <2>2, <3>1 DEF Kept
  <2>3. QED
    BY <1>4, <2>1, <2>2 DEF Signed
<1>8. QED
  BY <1>1, <1>5, <1>6, <1>7

\* A token is the one of the getter that was configured when its call began, and
\* a request for a path goes with it to that account's server, one for an
\* absolute URL to the host the caller named; the headers that are sent are the
\* caller's; and what the server said reaches the caller in every runtime
\* (custom-fetch.ts).
THEOREM FetchKeepsItsPromise == Spec => []FetchPromise
<1>1. Init => FetchInv
  <2>1. H!FetchInit => FetchInv
    BY NoCallIsOne DEF H!FetchInit, FetchInv
  <2>2. QED
    BY <2>1 DEF Init
<1>2. FetchInv /\ [Next]_vars => FetchInv'
  BY FetchInductive, PartsStep
<1>3. FetchInv => FetchPromise
  <2> SUFFICES ASSUME FetchInv PROVE FetchPromise
    OBVIOUS
  <2>1. H!FetchTypeOK
    <3>1. ASSUME NEW c \in Calls
          PROVE  /\ calls[c].stage \in H!Stages
                 /\ {calls[c].base, calls[c].auth, calls[c].getter}
                      \subseteq Accounts \union {H!Nobody}
                 /\ calls[c].outcome = H!Pending <=> calls[c].stage # "done"
      <4>1. CallInv(calls[c])
        BY DEF FetchInv
      <4>2. calls[c].stage = "done" => calls[c].outcome # H!Pending
        BY <4>1 DEF CallInv, H!Pending, H!Outcome
      <4>3. QED
        BY <4>1, <4>2 DEF CallInv
    <3>2. QED
      BY <3>1 DEF H!FetchTypeOK, FetchInv
  <2>2. H!TokenMatchesServer
    BY DEF FetchInv, CallInv, H!TokenMatchesServer
  <2>3. H!HeadersAreTheCallers
    <3>1. \A c \in Calls : calls[c].stage \in {"sent", "received"} => Signed(calls[c])
      BY DEF FetchInv, CallInv
    <3>2. QED
      BY <3>1, HeadersMerged DEF H!HeadersAreTheCallers
  <2>4. H!PayloadDelivered
    <3>1. \A c \in Calls : Delivered(calls[c])
      BY DEF FetchInv, CallInv
    <3>2. QED
      BY <3>1 DEF Delivered, H!PayloadDelivered
  <2>5. QED
    BY <2>1, <2>2, <2>3, <2>4 DEF FetchPromise
<1>4. QED
  BY <1>1, <1>2, <1>3, PTL DEF Spec

=============================================================================
