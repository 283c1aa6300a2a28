-------------------------- MODULE DevicePartsProofs --------------------------
(***************************************************************************)
(* Proofs about the parts of the device and its gateway.  A behaviour is   *)
(* one of a single part, so that each part has an inductive invariant of   *)
(* its own, which the steps of the others leave alone; a section for each  *)
(* part states it, shows that the part's steps keep it, and draws from it  *)
(* what is promised for every value of the constants.  What a promise asks *)
(* to happen in the end is left to the model checker.                      *)
(***************************************************************************)
EXTENDS DeviceParts, FiniteSetTheorems, SequenceTheorems, WellFoundedInduction,
        NaturalsInduction, TLAPS

\* A set of numbers that is not empty has a smallest one.
LEMMA NatMin ==
    ASSUME NEW S \in SUBSET Nat, S # {}
    PROVE  \E m \in S : \A n \in S : m <= n
<1>1. IsWellFoundedOn(OpToRel(<, Nat), Nat)
  BY NatLessThanWellFounded
<1>2. PICK m \in S : \A n \in S : ~(<<n, m>> \in OpToRel(<, Nat))
  BY <1>1, WFMin
<1>3. \A n \in S : ~(n < m)
  BY <1>2 DEF OpToRel
<1>4. QED
  BY <1>3

\* One that is bounded has a largest one.
LEMMA NatMax ==
    ASSUME NEW b \in Nat, NEW S \in SUBSET (0 .. b), S # {}
    PROVE  \E m \in S : \A n \in S : m >= n
<1> DEFINE D == {d \in 0 .. b : b - d \in S}
<1>1. \A n \in S : b - n \in D
  <2> SUFFICES ASSUME NEW n \in S PROVE b - n \in D
    OBVIOUS
  <2>1. n \in 0 .. b
    OBVIOUS
  <2>2. b - n \in 0 .. b /\ b - (b - n) = n
    BY <2>1
  <2>3. QED
    BY <2>2
<1>2. D \in SUBSET Nat /\ D # {}
  <2>1. PICK n \in S : TRUE
    OBVIOUS
  <2>2. b - n \in D
    BY <1>1, <2>1
  <2>3. QED
    BY <2>2
<1>3. PICK d \in D : \A e \in D : d <= e
  BY <1>2, NatMin
<1>4. b - d \in S
  BY <1>3
<1>5. ASSUME NEW n \in S
      PROVE  b - d >= n
  <2>1. d <= b - n /\ d \in 0 .. b /\ n \in 0 .. b
    BY <1>1, <1>3
  <2>2. QED
    BY <2>1
<1>6. QED
  BY <1>4, <1>5

(***************************************************************************)
(* One step of the whole is a step of one part, or changes nothing of it.  *)
(***************************************************************************)
LEMMA PartsStep ==
    ASSUME [Next]_vars
    PROVE  /\ Serial!Next \/ UNCHANGED serialVars
           /\ Feed!FeedNext \/ UNCHANGED feedVars
           /\ Status!StatusNext \/ UNCHANGED statusVars
           /\ Bridge!BridgeNext \/ UNCHANGED bridgeVars
           /\ Csi!CsiNext \/ UNCHANGED csiVars
           /\ Life!LifeNext \/ UNCHANGED lifeVars
           /\ Dedupe!DedupeNext \/ UNCHANGED dedupeVars
<1>1. CASE Next
  BY <1>1 DEF Next, SerialLinkDoes, EventFeedDoes, StatusMqttDoes, BridgeSyncDoes,
              CsiSensorDoes, NodeLifecycleDoes, RelayDedupeDoes
<1>2. CASE UNCHANGED vars
  BY <1>2 DEF vars
<1>3. QED
  BY <1>1, <1>2

-----------------------------------------------------------------------------
(* The live feed *)

Poll == [at : {"idle", "asked", "read", "answered", "done"}, since : Nat,
         events : SUBSET Nat, now : Nat]

\* What an answer leaves out between `since` and its last event is unseen, and
\* no `since` lies behind what the page knows.
FeedInv ==
    /\ Feed!FeedTypeOK
    /\ Feed!NothingSkipped
    /\ buf \in Seq(Nat)
    /\ polls \in [Feed!Ticks -> Poll]
    /\ pushed \subseteq Feed!ToSet(buf) \union unseen
    /\ \A t \in Feed!Ticks :
         LET p == polls[t] IN
         /\ p.since <= lastEvt
         /\ p.events \subseteq pushed
         /\ \A e \in pushed, l \in p.events :
                p.since < e /\ e <= l => e \in p.events \union unseen
         /\ p.at = "answered" => p.now \in 1 .. clock /\ p.now \notin pushed

LEMMA MaxIsLargest ==
    ASSUME NEW b \in Nat, NEW S \in SUBSET (0 .. b), S # {}
    PROVE  Feed!Max(S) \in S /\ \A n \in S : Feed!Max(S) >= n
BY NatMax DEF Feed!Max

\* The ring after a push.
LEMMA PushKeeps ==
    ASSUME NEW s \in Seq(Nat), Len(s) <= Cap + 1
    PROVE  LET r == IF Len(s) > Cap THEN Feed!Keep(s) ELSE s
           IN  r \in Seq(Nat) /\ Len(r) <= Cap /\ Feed!ToSet(r) \subseteq Feed!ToSet(s)
<1>1. Cap \in Nat /\ Len(s) \in Nat
  BY DevicePartsAssumption DEF Feed!EventFeedAssumption
<1>2. CASE Len(s) > Cap
  <2>1. Len(s) - Cap + 1 = 2 /\ Len(s) = Cap + 1 /\ Cap > 0
    BY <1>1, <1>2, DevicePartsAssumption DEF Feed!EventFeedAssumption
  <2>2. Feed!Keep(s) = SubSeq(s, 2, Len(s))
    BY <2>1 DEF Feed!Keep
  <2>3. /\ SubSeq(s, 2, Len(s)) \in Seq(Nat)
        /\ Len(SubSeq(s, 2, Len(s))) = Cap
        /\ \A i \in 1 .. Cap : SubSeq(s, 2, Len(s))[i] = s[i + 1]
    BY <1>1, <2>1, SubSeqProperties
  <2>4. Feed!ToSet(SubSeq(s, 2, Len(s))) \subseteq Feed!ToSet(s)
    BY <1>1, <2>1, <2>3 DEF Feed!ToSet
  <2>5. QED
    BY <1>1, <1>2, <2>2, <2>3, <2>4
<1>3. CASE ~(Len(s) > Cap)
  BY <1>1, <1>3
<1>4. QED
  BY <1>2, <1>3

LEMMA FeedInductive ==
    ASSUME FeedInv, Feed!FeedNext \/ UNCHANGED feedVars
    PROVE  FeedInv'
<1> USE DEF FeedInv, Feed!FeedTypeOK, Feed!NothingSkipped
<1>0. /\ clock \in Nat /\ lastEvt \in 0 .. clock
      /\ \A t \in Feed!Ticks : polls[t] \in Poll
      /\ \A e \in pushed : e \in Nat /\ 1 <= e /\ e <= clock
      /\ \A t \in Feed!Ticks : polls[t].since \in Nat
  BY DEF Poll
<1>1. CASE UNCHANGED feedVars
  BY <1>1 DEF feedVars, Feed!ToSet, Feed!Ticks
<1>2. CASE Feed!push
  <2> DEFINE s == Append(buf, clock')
  <2>1. clock' = clock + 1 /\ pushed' = pushed \union {clock'}
    BY <1>2 DEF Feed!push
  <2>2. /\ s \in Seq(Nat) /\ Len(s) <= Cap + 1
        /\ Feed!ToSet(s) = Feed!ToSet(buf) \union {clock'}
    <3>1. clock' \in Nat /\ Len(buf) \in Nat /\ Len(buf) <= Cap /\ Cap \in Nat
      BY <1>0, <2>1, DevicePartsAssumption DEF Feed!EventFeedAssumption
    <3>2. /\ s \in Seq(Nat) /\ Len(s) = Len(buf) + 1
          /\ s[Len(buf) + 1] = clock' /\ \A i \in 1 .. Len(buf) : s[i] = buf[i]
      BY <3>1
    <3>3. Feed!ToSet(s) = Feed!ToSet(buf) \union {clock'}
      <4>1. DOMAIN s = 1 .. Len(buf) + 1 /\ DOMAIN buf = 1 .. Len(buf)
        BY <3>1, <3>2
      <4>2. DOMAIN s = DOMAIN buf \union {Len(buf) + 1}
        BY <3>1, <4>1
      <4>3. QED
        BY <3>2, <4>1, <4>2 DEF Feed!ToSet
    <3>4. QED
      BY <3>1, <3>2, <3>3
  <2>3. /\ buf' \in Seq(Nat) /\ Len(buf') <= Cap /\ Feed!ToSet(buf') \subseteq Feed!ToSet(s)
    <3>1. buf' = IF Len(s) > Cap THEN Feed!Keep(s) ELSE s
      BY <1>2 DEF Feed!push
    <3>2. QED
      BY <2>2, <3>1, PushKeeps
  <2>4. unseen' = unseen \union (Feed!ToSet(s) \ Feed!ToSet(buf)')
    BY <1>2 DEF Feed!push, Feed!ToSet
  <2>5. UNCHANGED <<polls, shown, lastEvt>>
    BY <1>2 DEF Feed!push
  <2> HIDE DEF s
  <2>6. Feed!FeedTypeOK'
    <3>1. clock' \in Nat /\ lastEvt' \in 0 .. clock' /\ 1 .. clock \subseteq 1 .. clock'
      BY <1>0, <2>1, <2>5
    <3>2. pushed' \subseteq 1 .. clock'
      BY <1>0, <2>1, <3>1
    <3>3. Feed!ToSet(s) \subseteq pushed' /\ pushed \subseteq pushed'
      BY <2>1, <2>2
    <3>4. Feed!ToSet(buf)' \subseteq pushed'
      BY <2>3, <3>3 DEF Feed!ToSet
    <3>5. unseen' \subseteq pushed' /\ shown' \subseteq pushed'
      BY <2>4, <2>5, <3>3
    <3>6. \A t \in Feed!Ticks : polls'[t].at \in {"idle", "asked", "read", "answered", "done"}
      BY <2>5
    <3>7. QED
      BY <2>3, <3>1, <3>2, <3>4, <3>5, <3>6 DEF Feed!Ticks
  <2>7. pushed' \subseteq Feed!ToSet(buf)' \union unseen'
    BY <2>1, <2>2, <2>4
  <2>8. Feed!NothingSkipped'
    BY <1>0, <2>1, <2>4, <2>5
  <2>9. ASSUME NEW t \in Feed!Ticks
        PROVE  LET p == polls[t] IN
               /\ p.events \subseteq pushed'
               /\ \A e \in pushed', l \in p.events :
                      p.since < e /\ e <= l => e \in p.events \union unseen'
               /\ p.at = "answered" => p.now \in 1 .. clock' /\ p.now \notin pushed'
    <3> DEFINE p == polls[t]
    <3>1. clock' \notin 1 .. clock /\ 1 .. clock \subseteq 1 .. clock'
      BY <1>0, <2>1
    <3>2. p.events \subseteq pushed
      OBVIOUS
    <3>3. ASSUME NEW l \in p.events
          PROVE  ~(clock' <= l)
      <4>1. l \in Nat /\ l <= clock
        BY <1>0, <3>2
      <4>2. QED
        BY <1>0, <2>1, <4>1
    <3>4. \A e \in pushed, l \in p.events :
             p.since < e /\ e <= l => e \in p.events \union unseen
      OBVIOUS
    <3>5. p.at = "answered" => p.now \in 1 .. clock /\ p.now \notin pushed
      OBVIOUS
    <3> HIDE DEF p
    <3>6. p.events \subseteq pushed'
      BY <2>1, <3>2
    <3>7. \A e \in pushed', l \in p.events :
             p.since < e /\ e <= l => e \in p.events \union unseen'
      BY <2>1, <2>4, <3>3, <3>4
    <3>8. p.at = "answered" => p.now \in 1 .. clock' /\ p.now \notin pushed'
      BY <2>1, <3>1, <3>5
    <3>9. QED
      BY <3>6, <3>7, <3>8 DEF p
  <2>10. QED
    BY <2>3, <2>5, <2>6, <2>7, <2>8, <2>9 DEF Feed!ToSet, Feed!Ticks
<1>3. ASSUME NEW t \in Feed!Ticks, UNCHANGED <<buf, pushed, shown, lastEvt, unseen>>,
             clock' \in Nat, clock <= clock',
             NEW p \in Poll, polls' = [polls EXCEPT ![t] = p],
             p.since <= lastEvt, p.events \subseteq pushed,
             \A e \in pushed, l \in p.events :
                 p.since < e /\ e <= l => e \in p.events \union unseen,
             p.at = "answered" => p.now \in 1 .. clock' /\ p.now \notin pushed
      PROVE  FeedInv'
  <2>1. \A u \in Feed!Ticks : polls'[u] = IF u = t THEN p ELSE polls[u]
    BY <1>3
  <2>2. polls' \in [Feed!Ticks -> Poll]
    BY <1>3
  <2>3. 1 .. clock \subseteq 1 .. clock' /\ 0 .. clock \subseteq 0 .. clock'
    BY <1>0, <1>3
  <2>4. Feed!FeedTypeOK'
    BY <1>0, <1>3, <2>1, <2>3 DEF Feed!Ticks, Feed!ToSet, Poll
  <2>5. Feed!NothingSkipped' /\ buf' \in Seq(Nat) /\ pushed' \subseteq Feed!ToSet(buf)' \union unseen'
    BY <1>3 DEF Feed!ToSet
  <2>6. \A u \in Feed!Ticks :
           LET q == polls'[u] IN
           /\ q.since <= lastEvt'
           /\ q.events \subseteq pushed'
           /\ \A e \in pushed', l \in q.events :
                  q.since < e /\ e <= l => e \in q.events \union unseen'
           /\ q.at = "answered" => q.now \in 1 .. clock' /\ q.now \notin pushed'
    BY <1>3, <2>1, <2>3
  <2>7. QED
    BY <2>2, <2>4, <2>5, <2>6 DEF Feed!Ticks
<1>4. ASSUME NEW t \in Feed!Ticks, Feed!Ask(t)
      PROVE  FeedInv'
  <2> DEFINE p == [polls[t] EXCEPT !.at = "asked", !.since = lastEvt]
  <2>0. lastEvt \in Nat /\ polls[t] \in Poll
    BY <1>0
  <2>1. /\ p \in Poll /\ p.since = lastEvt /\ p.at = "asked"
        /\ p.events = polls[t].events
    BY <2>0 DEF Poll
  <2>2. polls' = [polls EXCEPT ![t] = p]
    BY <1>4 DEF Feed!Ask
  <2>3. p.since <= lastEvt /\ polls[t].since <= lastEvt /\ polls[t].since \in Nat
    BY <1>0, <2>1
  <2> HIDE DEF p
  <2>4. \A e \in pushed, l \in p.events :
           p.since < e /\ e <= l => e \in p.events \union unseen
    BY <1>0, <2>1, <2>3
  <2>5. UNCHANGED <<clock, buf, pushed, shown, lastEvt, unseen>>
    BY <1>4 DEF Feed!Ask
  <2>6. clock' \in Nat /\ clock <= clock'
    BY <1>0, <2>5
  <2>7. QED
    BY <1>3, <2>1, <2>2, <2>3, <2>4, <2>5, <2>6
<1>5. ASSUME NEW t \in Feed!Ticks, Feed!ReadEvents(t)
      PROVE  FeedInv'
  <2> DEFINE p == [polls[t] EXCEPT !.at = "read", !.events = Feed!since(polls[t].since)]
  <2>0. Feed!ToSet(buf) \subseteq Nat
    BY DEF Feed!ToSet
  <2>1. /\ p \in Poll /\ p.since = polls[t].since /\ p.at = "read"
        /\ p.events = {e \in Feed!ToSet(buf) : e > polls[t].since}
    BY <1>0, <2>0 DEF Poll, Feed!since
  <2>2. polls' = [polls EXCEPT ![t] = p]
    BY <1>5 DEF Feed!ReadEvents
  <2>3. p.since <= lastEvt /\ polls[t].since \in Nat
    BY <1>0, <2>1 DEF Poll
  <2> HIDE DEF p
  <2>4. p.events \subseteq pushed
    BY <2>1
  <2>5. \A e \in pushed, l \in p.events :
           p.since < e /\ e <= l => e \in p.events \union unseen
    BY <1>0, <2>1, <2>3
  <2>6. UNCHANGED <<clock, buf, pushed, shown, lastEvt, unseen>>
    BY <1>5 DEF Feed!ReadEvents
  <2>7. clock' \in Nat /\ clock <= clock'
    BY <1>0, <2>6
  <2>8. QED
    BY <1>3, <2>1, <2>2, <2>3, <2>4, <2>5, <2>6, <2>7
<1>6. ASSUME NEW t \in Feed!Ticks, Feed!Answer(t)
      PROVE  FeedInv'
  <2> DEFINE p == [polls[t] EXCEPT !.at = "answered", !.now = clock']
  <2>0. clock' = clock + 1 /\ clock' \in Nat /\ clock <= clock'
    BY <1>0, <1>6 DEF Feed!Answer
  <2>1. /\ p \in Poll /\ p.since = polls[t].since /\ p.events = polls[t].events
        /\ p.now = clock'
    BY <1>0, <2>0 DEF Poll
  <2>2. polls' = [polls EXCEPT ![t] = p]
    BY <1>6 DEF Feed!Answer
  <2> HIDE DEF p
  <2>3. p.now \in 1 .. clock' /\ p.now \notin pushed
    BY <1>0, <2>0, <2>1
  <2>4. UNCHANGED <<buf, pushed, shown, lastEvt, unseen>>
    BY <1>6 DEF Feed!Answer
  <2>5. QED
    BY <1>3, <2>0, <2>1, <2>2, <2>3, <2>4
<1>7. ASSUME NEW t \in Feed!Ticks, Feed!Fail(t)
      PROVE  FeedInv'
  <2> DEFINE p == [polls[t] EXCEPT !.at = "done"]
  <2>1. /\ p \in Poll /\ p.since = polls[t].since /\ p.events = polls[t].events
        /\ p.at = "done"
    BY <1>0 DEF Poll
  <2>2. polls' = [polls EXCEPT ![t] = p]
    BY <1>7 DEF Feed!Fail
  <2> HIDE DEF p
  <2>3. UNCHANGED <<clock, buf, pushed, shown, lastEvt, unseen>>
    BY <1>7 DEF Feed!Fail
  <2>4. clock' \in Nat /\ clock <= clock'
    BY <1>0, <2>3
  <2>5. QED
    BY <1>3, <2>1, <2>2, <2>3, <2>4
<1>8. ASSUME NEW t \in Feed!Ticks, Feed!Show(t)
      PROVE  FeedInv'
  <2> DEFINE p == polls[t]
             S == {lastEvt} \union p.events
             d == [polls[t] EXCEPT !.at = "done"]
  <2>1. /\ p.at = "answered" /\ polls' = [polls EXCEPT ![t] = d]
        /\ shown' = shown \union p.events
        /\ lastEvt' = IF Feed!Max(S) = 0 THEN p.now ELSE Feed!Max(S)
        /\ unseen' = IF lastEvt = 0 /\ p.events = {}
                     THEN unseen \union {e \in pushed : e < p.now} ELSE unseen
        /\ UNCHANGED <<clock, buf, pushed>>
    BY <1>8 DEF Feed!Show, Feed!NextSince
  <2>2. /\ p \in Poll /\ p.events \subseteq pushed /\ p.since <= lastEvt
        /\ p.now \in 1 .. clock /\ p.now \notin pushed
        /\ \A e \in pushed, l \in p.events :
               p.since < e /\ e <= l => e \in p.events \union unseen
    BY <1>0, <2>1
  <2>3. S \in SUBSET (0 .. clock) /\ S # {} /\ lastEvt \in S
    <3>1. 1 .. clock \subseteq 0 .. clock
      BY <1>0
    <3>2. QED
      BY <1>0, <2>2, <3>1
  <2>4. Feed!Max(S) \in S /\ \A n \in S : Feed!Max(S) >= n
    BY <1>0, <2>3, MaxIsLargest
  <2>5. lastEvt' \in 0 .. clock /\ lastEvt <= lastEvt'
    <3>1. Feed!Max(S) \in 0 .. clock /\ Feed!Max(S) >= lastEvt
      BY <2>3, <2>4
    <3> HIDE DEF S
    <3>2. QED
      BY <1>0, <2>1, <2>2, <3>1
  <2>6. /\ d \in Poll /\ d.since = p.since /\ d.events = p.events /\ d.at = "done"
    BY <1>0 DEF Poll
  <2> HIDE DEF S, d
  <2>7. ASSUME NEW e \in pushed, e <= lastEvt'
        PROVE  e \in shown' \union unseen'
    <3>1. e \in 1 .. clock
      OBVIOUS
    <3>2. CASE e <= lastEvt
      BY <2>1, <3>2
    <3>3. CASE ~(e <= lastEvt) /\ Feed!Max(S) # 0
      <4>1. Feed!Max(S) \in p.events /\ e <= Feed!Max(S)
        BY <1>0, <2>1, <2>4, <2>7, <3>1, <3>3 DEF S
      <4>2. p.since < e
        BY <1>0, <2>2, <3>1, <3>3 DEF Poll
      <4>3. QED
        BY <2>1, <2>2, <4>1, <4>2
    <3>4. CASE ~(e <= lastEvt) /\ Feed!Max(S) = 0
      <4>1. \A n \in S : n <= 0
        BY <1>0, <2>3, <2>4, <3>4
      <4>2. lastEvt = 0
        BY <1>0, <2>3, <4>1
      <4>3. p.events = {}
        <5>1. SUFFICES ASSUME NEW n \in p.events PROVE FALSE
          OBVIOUS
        <5>2. n \in Nat /\ 1 <= n
          BY <1>0, <2>2
        <5>3. n <= 0
          BY <4>1 DEF S
        <5>4. QED
          BY <5>2, <5>3
      <4>4. e < p.now
        BY <1>0, <2>1, <2>2, <2>7, <3>1, <3>4
      <4>5. QED
        BY <2>1, <4>2, <4>3, <4>4
    <3>5. QED
      BY <3>2, <3>3, <3>4
  <2>8. unseen \subseteq unseen' /\ unseen' \subseteq pushed
    BY <2>1
  <2>9. \A u \in Feed!Ticks : polls'[u] = IF u = t THEN d ELSE polls[u]
    BY <2>1
  <2>10. polls' \in [Feed!Ticks -> Poll]
    BY <2>1, <2>6
  <2>11. Feed!FeedTypeOK'
    BY <1>0, <2>1, <2>2, <2>5, <2>6, <2>8, <2>9 DEF Feed!Ticks, Feed!ToSet, Poll
  <2>12. \A u \in Feed!Ticks :
            LET q == polls'[u] IN
            /\ q.since <= lastEvt'
            /\ q.events \subseteq pushed'
            /\ \A e \in pushed', l \in q.events :
                   q.since < e /\ e <= l => e \in q.events \union unseen'
            /\ q.at = "answered" => q.now \in 1 .. clock' /\ q.now \notin pushed'
    <3> SUFFICES ASSUME NEW u \in Feed!Ticks
                 PROVE  LET q == polls'[u] IN
                        /\ q.since <= lastEvt'
                        /\ q.events \subseteq pushed'
                        /\ \A e \in pushed', l \in q.events :
                               q.since < e /\ e <= l => e \in q.events \union unseen'
                        /\ q.at = "answered" => q.now \in 1 .. clock' /\ q.now \notin pushed'
      OBVIOUS
    <3>1. polls[u].since <= lastEvt'
      BY <1>0, <2>5 DEF Poll
    <3>2. polls'[u].since = polls[u].since /\ polls'[u].events = polls[u].events
      BY <2>6, <2>9
    <3>3. polls'[u].at = "answered" => polls'[u] = polls[u]
      BY <2>6, <2>9
    <3>4. QED
      BY <2>1, <2>8, <3>1, <3>2, <3>3
  <2>13. QED
    BY <2>1, <2>7, <2>8, <2>10, <2>11, <2>12 DEF Feed!Ticks, Feed!ToSet
<1>9. QED
  BY <1>1, <1>2, <1>4, <1>5, <1>6, <1>7, <1>8 DEF Feed!FeedNext

\* EventFeed: for every size of the ring and any number of overlapping ticks, the
\* page goes past no event that it has not shown, but for those it cannot hear of.
THEOREM FeedSkipsNothing == Spec => []NothingSkipped
<1>1. Init => FeedInv
  <2> SUFFICES ASSUME Init PROVE FeedInv
    OBVIOUS
  <2>1. /\ clock = 0 /\ buf = <<>> /\ pushed = {} /\ shown = {} /\ lastEvt = 0 /\ unseen = {}
        /\ polls = [t \in Feed!Ticks |-> Feed!Idle]
    BY DEF Init, Feed!FeedInit
  <2>2. Feed!Idle \in Poll /\ Feed!Idle.at = "idle" /\ Feed!Idle.events = {} /\ Feed!Idle.since = 0
    BY DEF Feed!Idle, Poll
  <2>3. /\ Len(buf) <= Cap /\ Feed!ToSet(buf) = {} /\ buf \in Seq(Nat)
    BY <2>1, DevicePartsAssumption DEF Feed!EventFeedAssumption, Feed!ToSet
  <2>4. QED
    BY <2>1, <2>2, <2>3 DEF FeedInv, Feed!FeedTypeOK, Feed!NothingSkipped
<1>2. FeedInv /\ [Next]_vars => FeedInv'
  BY PartsStep, FeedInductive
<1>3. FeedInv => NothingSkipped
  BY DEF FeedInv, NothingSkipped
<1>4. QED
  BY <1>1, <1>2, <1>3, PTL DEF Spec

-----------------------------------------------------------------------------
(* The dedupe ring of a relay *)

\* How many frames were forwarded after the one in slot s.
Age(s) == IF s < head THEN head - 1 - s ELSE head - 1 - s + Slots

\* Each slot has the frame of its age, or none that old was forwarded.
RingHolds ==
    \A s \in 0 .. Slots - 1 :
        slot[s] = IF Age(s) < Len(forwarded) THEN Dedupe!tag(forwarded[Len(forwarded) - Age(s)])
                                             ELSE Dedupe!Empty

DedupeInv == Dedupe!DedupeTypeOK /\ RingHolds /\ Dedupe!RingIsRecent

\* A pair's tag determines the pair, and is never the mark of an empty slot.
LEMMA TagNames ==
    ASSUME NEW f \in Dedupe!Frames, NEW g \in Dedupe!Frames
    PROVE  /\ Dedupe!tag(f) \in Nat
           /\ Dedupe!tag(f) # Dedupe!Empty
           /\ Dedupe!tag(f) = Dedupe!tag(g) => f = g
<1> DEFINE a == f[1]  b == f[2]  c == g[1]  d == g[2]  S == SeqCount
<1>1. /\ S \in Nat /\ S > 0
      /\ a \in 0 .. S - 1 /\ b \in 0 .. S - 1
      /\ c \in 0 .. S - 1 /\ d \in 0 .. S - 1
      /\ f = <<a, b>> /\ g = <<c, d>>
  <2>1. S \in Nat /\ S > 0 /\ Nodes \subseteq 0 .. S - 1
    BY DevicePartsAssumption DEF Dedupe!RelayDedupeAssumption
  <2>2. PICK x \in Nodes, y \in 0 .. S - 1 : f = <<x, y>>
    BY DEF Dedupe!Frames
  <2>3. PICK z \in Nodes, w \in 0 .. S - 1 : g = <<z, w>>
    BY DEF Dedupe!Frames
  <2>4. QED
    BY <2>1, <2>2, <2>3
<1>2. Dedupe!tag(f) = a * S + b /\ Dedupe!tag(g) = c * S + d /\ Dedupe!Empty = S * S
  BY DEF Dedupe!tag, Dedupe!Empty
<1> HIDE DEF a, b, c, d, S
<1>3. a * S \in Nat /\ c * S \in Nat /\ S * S \in Nat
  BY <1>1
<1>4. \A x, y \in Nat : x < y => x * S + S <= y * S
  <2> SUFFICES ASSUME NEW x \in Nat, NEW y \in Nat, x < y
               PROVE  x * S + S <= y * S
    OBVIOUS
  <2>1. (x + 1) * S <= y * S
    BY <1>1
  <2>2. (x + 1) * S = x * S + S
    BY <1>1
  <2>3. QED
    BY <2>1, <2>2
<1>5. a * S + S <= S * S
  BY <1>1, <1>4
<1>6. Dedupe!tag(f) \in Nat /\ Dedupe!tag(f) # Dedupe!Empty
  BY <1>1, <1>2, <1>3, <1>5
<1>7. ASSUME Dedupe!tag(f) = Dedupe!tag(g)
      PROVE  f = g
  <2>1. a * S + b = c * S + d
    BY <1>2, <1>7
  <2>2. ~(a < c) /\ ~(c < a)
    BY <1>1, <1>3, <1>4, <2>1
  <2>3. a = c
    BY <1>1, <2>2
  <2>4. b = d
    BY <1>1, <1>3, <2>1, <2>3
  <2>5. QED
    BY <1>1, <2>3, <2>4
<1>8. QED
  BY <1>6, <1>7

\* head wraps at the end of the ring.
LEMMA HeadWraps ==
    ASSUME NEW h \in 0 .. Slots - 1
    PROVE  (h + 1) % Slots = IF h + 1 = Slots THEN 0 ELSE h + 1
BY DevicePartsAssumption DEF Dedupe!RelayDedupeAssumption

\* The invariant, over the two branches of sps_dedupe_seen.
LEMMA DedupeInductive ==
    DedupeInv /\ [Dedupe!DedupeNext]_dedupeVars => DedupeInv'
<1> SUFFICES ASSUME DedupeInv, [Dedupe!DedupeNext]_dedupeVars PROVE DedupeInv'
  OBVIOUS
<1> DEFINE n == Len(forwarded)
<1>0. /\ Slots \in Nat /\ Slots > 0
      /\ head \in 0 .. Slots - 1
      /\ slot \in [0 .. Slots - 1 -> Nat]
      /\ forwarded \in Seq(Dedupe!Frames) /\ n \in Nat
      /\ DOMAIN forwarded = 1 .. n
      /\ \A i \in 1 .. n : forwarded[i] \in Dedupe!Frames
  BY DevicePartsAssumption DEF Dedupe!RelayDedupeAssumption, DedupeInv, Dedupe!DedupeTypeOK
<1>1. ASSUME NEW f \in Dedupe!Frames, NEW s \in 0 .. Slots - 1, slot[s] = Dedupe!tag(f),
             slot' = slot, head' = head, forwarded' = forwarded, refused' = f
      PROVE  DedupeInv'
  <2>1. /\ Age(s) \in 0 .. Slots - 1
        /\ slot[s] = IF Age(s) < n THEN Dedupe!tag(forwarded[n - Age(s)]) ELSE Dedupe!Empty
    BY <1>0 DEF DedupeInv, RingHolds, Age
  <2>2. Dedupe!tag(f) # Dedupe!Empty
    BY TagNames
  <2>3. Age(s) < n /\ Dedupe!tag(f) = Dedupe!tag(forwarded[n - Age(s)])
    BY <1>1, <2>1, <2>2
  <2>4. n - Age(s) \in 1 .. n
    BY <1>0, <2>1, <2>3
  <2>5. forwarded[n - Age(s)] = f
    BY <1>0, <2>3, <2>4, TagNames
  <2>6. n - Age(s) > n - Slots
    BY <1>0, <2>1
  <2>7. Dedupe!RingIsRecent'
    BY <1>0, <1>1, <2>4, <2>5, <2>6 DEF DedupeInv, Dedupe!RingIsRecent
  <2>8. Dedupe!DedupeTypeOK' /\ RingHolds'
    BY <1>1 DEF DedupeInv, Dedupe!DedupeTypeOK, RingHolds, Age
  <2>9. QED
    BY <2>7, <2>8 DEF DedupeInv
<1>2. ASSUME NEW f \in Dedupe!Frames, \A s \in 0 .. Slots - 1 : slot[s] # Dedupe!tag(f),
             slot' = [slot EXCEPT ![head] = Dedupe!tag(f)],
             head' = (head + 1) % Slots,
             forwarded' = Append(forwarded, f),
             refused' = Dedupe!NoFrame
      PROVE  DedupeInv'
  <2>1. /\ forwarded' \in Seq(Dedupe!Frames)
        /\ Len(forwarded') = n + 1
        /\ DOMAIN forwarded' = 1 .. (n + 1)
        /\ forwarded'[n + 1] = f
        /\ \A i \in 1 .. n : forwarded'[i] = forwarded[i]
    BY <1>0, <1>2
  <2>2. head' = IF head + 1 = Slots THEN 0 ELSE head + 1
    BY <1>0, <1>2, HeadWraps
  <2>3. \A s \in 0 .. Slots - 1 : slot'[s] = IF s = head THEN Dedupe!tag(f) ELSE slot[s]
    BY <1>0, <1>2
  <2>4. Dedupe!DedupeTypeOK'
    <3>1. Dedupe!tag(f) \in Nat
      BY TagNames
    <3>2. slot' \in [0 .. Slots - 1 -> Nat]
      BY <1>0, <1>2, <3>1
    <3>3. head' \in 0 .. Slots - 1
      BY <1>0, <2>2
    <3>4. QED
      BY <1>2, <2>1, <3>2, <3>3 DEF Dedupe!DedupeTypeOK
  <2>5. ASSUME NEW s \in 0 .. Slots - 1
        PROVE  Age(s)' = IF s = head THEN 0 ELSE Age(s) + 1
    BY <1>0, <2>2 DEF Age
  <2>6. RingHolds'
    <3> SUFFICES ASSUME NEW s \in 0 .. Slots - 1
                 PROVE  slot'[s] = IF Age(s)' < Len(forwarded')
                                   THEN Dedupe!tag(forwarded'[Len(forwarded') - Age(s)'])
                                   ELSE Dedupe!Empty
      BY DEF RingHolds, Dedupe!Empty, Dedupe!tag
    <3>1. CASE s = head
      BY <1>0, <2>1, <2>3, <2>5, <3>1
    <3>2. CASE s # head
      <4>1. Age(s) \in Nat
        BY <1>0 DEF Age
      <4>2. Age(s)' = Age(s) + 1 /\ slot'[s] = slot[s]
        BY <2>3, <2>5, <3>2
      <4>3. slot[s] = IF Age(s) < n THEN Dedupe!tag(forwarded[n - Age(s)]) ELSE Dedupe!Empty
        BY DEF DedupeInv, RingHolds
      <4>4. Age(s) < n => forwarded'[(n + 1) - (Age(s) + 1)] = forwarded[n - Age(s)]
        BY <1>0, <2>1, <4>1
      <4>5. QED
        BY <1>0, <2>1, <4>1, <4>2, <4>3, <4>4
    <3>3. QED
      BY <3>1, <3>2
  <2>7. \A i \in 1 .. n : forwarded[i] = f => (n + 1) - i > Slots
    <3> SUFFICES ASSUME NEW i \in 1 .. n, forwarded[i] = f, (n + 1) - i <= Slots
                 PROVE  FALSE
      BY <1>0
    <3>1. PICK s \in 0 .. Slots - 1 : Age(s) = n - i
      <4>1. n - i \in 0 .. Slots - 1
        BY <1>0
      <4>2. CASE n - i < head
        <5> DEFINE s == head - 1 - (n - i)
        <5>1. s \in 0 .. Slots - 1 /\ s < head
          BY <1>0, <4>1, <4>2
        <5>2. Age(s) = n - i
          BY <1>0, <5>1 DEF Age
        <5>3. QED
          BY <5>1, <5>2
      <4>3. CASE n - i >= head
        <5> DEFINE s == head - 1 - (n - i) + Slots
        <5>1. s \in 0 .. Slots - 1 /\ ~(s < head)
          BY <1>0, <4>1, <4>3
        <5>2. Age(s) = n - i
          BY <1>0, <5>1 DEF Age
        <5>3. QED
          BY <5>1, <5>2
      <4>4. QED
        BY <1>0, <4>1, <4>2, <4>3
    <3>2. slot[s] = Dedupe!tag(forwarded[i])
      <4>1. n - i < n /\ n - (n - i) = i
        BY <1>0
      <4>2. slot[s] = IF Age(s) < n THEN Dedupe!tag(forwarded[n - Age(s)]) ELSE Dedupe!Empty
        BY DEF DedupeInv, RingHolds
      <4>3. QED
        BY <3>1, <4>1, <4>2
    <3>3. QED
      BY <1>2, <3>2
  <2>8. Dedupe!RingIsRecent'
    <3>1. \A i, j \in 1 .. n : i < j /\ forwarded[i] = forwarded[j] => j - i > Slots
      BY <1>0 DEF DedupeInv, Dedupe!RingIsRecent
    <3>2. \A i, j \in 1 .. (n + 1) :
              i < j /\ forwarded'[i] = forwarded'[j] => j - i > Slots
      <4> SUFFICES ASSUME NEW i \in 1 .. (n + 1), NEW j \in 1 .. (n + 1), i < j,
                          forwarded'[i] = forwarded'[j]
                   PROVE  j - i > Slots
        OBVIOUS
      <4>1. CASE j = n + 1
        <5>1. i \in 1 .. n /\ forwarded[i] = f
          BY <1>0, <2>1, <4>1
        <5>2. (n + 1) - i > Slots
          BY <2>7, <5>1
        <5>3. QED
          BY <4>1, <5>2
      <4>2. CASE j # n + 1
        <5>1. i \in 1 .. n /\ j \in 1 .. n
          BY <1>0, <4>2
        <5>2. forwarded[i] = forwarded[j]
          BY <2>1, <5>1
        <5>3. QED
          BY <3>1, <5>1, <5>2
      <4>3. QED
        BY <4>1, <4>2
    <3>3. QED
      BY <1>2, <2>1, <3>2 DEF Dedupe!RingIsRecent, Dedupe!NoFrame
  <2>9. QED
    BY <2>4, <2>6, <2>8 DEF DedupeInv
<1>3. CASE UNCHANGED dedupeVars
  BY <1>3 DEF dedupeVars, DedupeInv, Dedupe!DedupeTypeOK, RingHolds, Age, Dedupe!RingIsRecent
<1>4. QED
  <2>1. ASSUME NEW f \in Dedupe!Frames, Dedupe!sps_dedupe_seen(f)
        PROVE  DedupeInv'
    <3>1. CASE \E s \in 0 .. Slots - 1 : slot[s] = Dedupe!tag(f)
      BY <1>0, <1>1, <2>1, <3>1 DEF Dedupe!sps_dedupe_seen
    <3>2. CASE \A s \in 0 .. Slots - 1 : slot[s] # Dedupe!tag(f)
      BY <1>0, <1>2, <2>1, <3>2 DEF Dedupe!sps_dedupe_seen
    <3>3. QED
      BY <3>1, <3>2
  <2>2. QED
    BY <1>3, <2>1 DEF Dedupe!DedupeNext

\* sps_dedupe_seen, for every ring size, number of sequence numbers and set of
\* nodes: a frame is refused only if it is among the last Slots forwarded, and
\* goes out again only after Slots others.
THEOREM RelayRefusesWhatIsRecent == Spec => []RingIsRecent
<1>1. Init => DedupeInv
  <2> SUFFICES ASSUME Dedupe!DedupeInit PROVE DedupeInv
    BY DEF Init
  <2>1. Slots \in Nat /\ Slots > 0 /\ Dedupe!Empty \in Nat
    BY DevicePartsAssumption DEF Dedupe!RelayDedupeAssumption, Dedupe!Empty
  <2>2. Dedupe!DedupeTypeOK
    BY <2>1 DEF Dedupe!DedupeInit, Dedupe!DedupeTypeOK
  <2>3. RingHolds
    <3>1. \A s \in 0 .. Slots - 1 : Age(s) >= 0
      BY <2>1 DEF Dedupe!DedupeInit, Age
    <3>2. Len(forwarded) = 0
      BY DEF Dedupe!DedupeInit
    <3>3. QED
      BY <2>1, <3>1, <3>2 DEF Dedupe!DedupeInit, RingHolds, Age
  <2>4. Dedupe!RingIsRecent
    BY DEF Dedupe!DedupeInit, Dedupe!RingIsRecent
  <2>5. QED
    BY <2>2, <2>3, <2>4 DEF DedupeInv
<1>2. DedupeInv /\ [Next]_vars => DedupeInv'
  BY PartsStep, DedupeInductive
<1>3. DedupeInv => RingIsRecent
  BY DEF DedupeInv, RingIsRecent
<1>4. QED
  BY <1>1, <1>2, <1>3, PTL DEF Spec

-----------------------------------------------------------------------------
(* The serial link *)

\* Whoever holds the write lock is in a call that will give it back.
LockInCall ==
    wlock # Serial!NoThread =>
        at[wlock] \in (Serial!Writing \ {"lock"}) \union Serial!Closing

SerialInv == Serial!TypeOK /\ Serial!NoDanglingFd /\ LockInCall

LEMMA MinIsMember ==
    ASSUME NEW S \in SUBSET Nat, S # {}
    PROVE  Serial!Min(S) \in S
BY NatMin DEF Serial!Min

\* Leaving a call gives the lock back, if one had it.
LEMMA Leaving ==
    ASSUME SerialInv, NEW t \in Serial!Threads, Serial!Return(t) \/ Serial!Raise(t),
           arg' \in [Serial!Threads -> Serial!Fds \union {Serial!None}],
           \A u \in Serial!Threads : u # t => arg'[u] = arg[u], UNCHANGED ret
    PROVE  /\ wlock' \in Serial!Threads \union {Serial!NoThread}
           /\ at' \in [Serial!Threads -> Serial!Writing \union Serial!Closing \union
                          {"top", "open", "setup", "ping", "load", "read", "dead", "idle"}]
           /\ \A u \in Serial!Threads : at'[u] \in {"write", "close", "read", "setup"} =>
                  arg'[u] \in Serial!Fds
           /\ LockInCall'
           /\ \A u \in Serial!Threads : u # t => at'[u] = at[u]
<1> DEFINE to == {"ping", "load", "top", "idle", "dead"}
<1>1. \A p \in Serial!Purposes : Serial!Resume[p] \in to /\ Serial!Catch[p] \in to
  <2>1. /\ Serial!Resume.cfg = "ping" /\ Serial!Resume.ping = "load" /\ Serial!Resume.answer = "top"
        /\ Serial!Resume.command = "idle" /\ Serial!Resume.readerr = "top"
    BY DEF Serial!Resume
  <2>2. /\ Serial!Catch.cfg = "dead" /\ Serial!Catch.ping = "dead" /\ Serial!Catch.answer = "top"
        /\ Serial!Catch.command = "idle" /\ Serial!Catch.readerr = "dead"
    BY DEF Serial!Resume, Serial!Catch
  <2>3. QED
    BY <2>1, <2>2 DEF Serial!Purposes
<1>2. ret[t] \in Serial!Purposes
  BY DEF SerialInv, Serial!TypeOK
<1>3. PICK l \in to : at' = [at EXCEPT ![t] = l]
  BY <1>1, <1>2 DEF Serial!Return, Serial!Raise, Serial!Goto
<1>4. wlock' = IF wlock = t THEN Serial!NoThread ELSE wlock
  BY DEF Serial!Return, Serial!Raise, Serial!Unlock
<1>5. /\ at'[t] = l /\ \A u \in Serial!Threads : u # t => at'[u] = at[u]
      /\ DOMAIN at = Serial!Threads
  BY <1>3 DEF SerialInv, Serial!TypeOK
<1>6. at' \in [Serial!Threads -> Serial!Writing \union Serial!Closing \union
                  {"top", "open", "setup", "ping", "load", "read", "dead", "idle"}]
  BY <1>3 DEF SerialInv, Serial!TypeOK
<1>7. LockInCall'
  BY <1>4, <1>5 DEF SerialInv, LockInCall, Serial!TypeOK
<1>8. QED
  BY <1>4, <1>5, <1>6, <1>7 DEF SerialInv, Serial!TypeOK

LEMMA SerialInductive ==
    ASSUME SerialInv, Serial!Next \/ UNCHANGED serialVars
    PROVE  SerialInv'
<1>0. /\ "reader" \in Serial!Threads /\ Serial!None \notin Serial!Fds /\ MaxFd \in Nat
      /\ MaxUnplugs \in Nat /\ Serial!NoThread \notin Serial!Threads
  BY DevicePartsAssumption
  DEF Serial!SerialLinkAssumption, Serial!Threads, Serial!None, Serial!Fds, Serial!NoThread
<1> USE <1>0 DEF SerialInv, Serial!TypeOK, Serial!NoDanglingFd, LockInCall, Serial!world, Serial!Goto, Serial!CallWrite,
           Serial!Writing, Serial!Closing
<1>1. CASE UNCHANGED serialVars
  BY <1>1 DEF serialVars
<1>2. CASE Serial!Unplug
  <2>1. unplugs' \in 0 .. MaxUnplugs /\ plugged' = FALSE
    BY <1>2 DEF Serial!Unplug
  <2>2. /\ table' \in [Serial!Fds -> {"free", "port", "gone", "other"}]
        /\ \A n \in Serial!Fds : table'[n] \in {"free", "other"} => table[n] = table'[n]
    BY <1>2 DEF Serial!Unplug
  <2>3. UNCHANGED <<fd, wlock, at, arg, ret>>
    BY <1>2 DEF Serial!Unplug
  <2>4. QED
    BY <2>1, <2>2, <2>3
<1>3. CASE Serial!Plug
  BY <1>3 DEF Serial!Plug
<1>4. Serial!Free # {} => Serial!Min(Serial!Free) \in Serial!Fds /\ table[Serial!Min(Serial!Free)] = "free"
  <2>1. Serial!Free \in SUBSET Nat
    BY DEF Serial!Free, Serial!Fds
  <2>2. QED
    BY <2>1, MinIsMember DEF Serial!Free
<1>5. CASE Serial!OtherOpens
  BY <1>4, <1>5 DEF Serial!OtherOpens
<1>6. ASSUME NEW n \in Serial!Fds, Serial!OtherCloses(n)
      PROVE  SerialInv'
  BY <1>6 DEF Serial!OtherCloses
<1>7. ASSUME NEW t \in Serial!Threads, Serial!CallSteps(t)
      PROVE  SerialInv'
  <2>1. CASE Serial!Lock(t)
    BY <1>7, <2>1 DEF Serial!Lock
  <2>2. CASE Serial!CheckOpen(t)
    BY <1>7, <2>2, Leaving DEF Serial!CheckOpen
  <2>3. CASE Serial!LoadForWrite(t)
    BY <1>7, <2>3, Leaving DEF Serial!LoadForWrite
  <2>4. CASE Serial!Write(t)
    BY <1>7, <2>4, Leaving DEF Serial!Write
  <2>5. CASE Serial!CheckClose(t)
    BY <1>7, <2>5, Leaving DEF Serial!CheckClose
  <2>6. CASE Serial!LoadForClose(t)
    BY <1>7, <2>6, Leaving DEF Serial!LoadForClose
  <2>7. CASE Serial!Close(t)
    BY <1>7, <2>7 DEF Serial!Close
  <2>8. CASE Serial!Clear(t)
    BY <1>7, <2>8, Leaving DEF Serial!Clear
  <2>9. QED
    BY <1>7, <2>1, <2>2, <2>3, <2>4, <2>5, <2>6, <2>7, <2>8 DEF Serial!CallSteps
<1>8. CASE Serial!ReaderSteps
  <2>1. CASE Serial!Top
    BY <2>1 DEF Serial!Top
  <2>2. CASE Serial!OpenPort
    BY <1>4, <2>2 DEF Serial!OpenPort
  <2>3. CASE Serial!SetupPort
    BY <2>3 DEF Serial!SetupPort, Serial!Purposes
  <2>4. CASE Serial!Ping
    BY <2>4 DEF Serial!Ping, Serial!Purposes
  <2>5. CASE Serial!LoadForRead
    BY <2>5 DEF Serial!LoadForRead
  <2>6. CASE Serial!ReadSome
    BY <2>6 DEF Serial!ReadSome, Serial!Purposes
  <2>7. CASE Serial!ReadError
    BY <2>7 DEF Serial!ReadError, Serial!Purposes
  <2>8. QED
    BY <1>8, <2>1, <2>2, <2>3, <2>4, <2>5, <2>6, <2>7 DEF Serial!ReaderSteps
<1>9. ASSUME NEW t \in Senders, Serial!Send(t)
      PROVE  SerialInv'
  BY <1>9 DEF Serial!Send, Serial!Threads, Serial!Purposes
<1>10. QED
  BY <1>1, <1>2, <1>3, <1>5, <1>6, <1>7, <1>8, <1>9 DEF Serial!Next

\* SerialLink: with any number of HTTP threads and descriptors, self._fd never
\* stays on a descriptor that was closed or given to somebody else, and the write
\* lock is held only by a thread in the middle of a call, never by a dead one.
THEOREM SerialPortIsNotStale == Spec => [](Serial!TypeOK /\ Serial!NoDanglingFd /\ LockInCall)
<1>1. Init => SerialInv
  <2> SUFFICES ASSUME Init PROVE SerialInv
    OBVIOUS
  <2>1. MaxUnplugs \in Nat
    BY DevicePartsAssumption DEF Serial!SerialLinkAssumption
  <2>2. Serial!TypeOK
    <3>1. \A t \in Serial!Threads : at[t] \in {"top", "idle"}
      BY DEF Init, Serial!Init
    <3>2. QED
      BY <2>1, <3>1 DEF Init, Serial!Init, Serial!TypeOK, Serial!Purposes
  <2>3. Serial!NoDanglingFd /\ LockInCall
    BY DEF Init, Serial!Init, Serial!NoDanglingFd, LockInCall
  <2>4. QED
    BY <2>2, <2>3 DEF SerialInv
<1>2. SerialInv /\ [Next]_vars => SerialInv'
  BY PartsStep, SerialInductive
<1>3. SerialInv => Serial!TypeOK /\ Serial!NoDanglingFd /\ LockInCall
  BY DEF SerialInv
<1>4. QED
  BY <1>1, <1>2, <1>3, PTL DEF Spec

-----------------------------------------------------------------------------
(* The radio bridge *)

\* While the flag is up, and while a frame is read, the buffer has a frame from
\* the air.
BridgeInv ==
    /\ Bridge!BridgeTypeOK
    /\ Bridge!NoEcho
    /\ rxDone => buffer = "received"
    /\ place = "reading" => buffer = "received"

\* The daemon is told one more thing, which is no echo.
LEMMA Tells ==
    ASSUME BridgeInv, NEW m \in {"RDY", "ERR", "OK", "received"}, toPi' = Append(toPi, m)
    PROVE  toPi' \in Seq({"RDY", "ERR", "OK", "received", "sent", "nothing"}) /\ Bridge!NoEcho'
<1>1. toPi \in Seq({"RDY", "ERR", "OK", "received", "sent", "nothing"})
  BY DEF BridgeInv, Bridge!BridgeTypeOK
<1>2. toPi' \in Seq({"RDY", "ERR", "OK", "received", "sent", "nothing"})
  BY <1>1
<1>3. /\ DOMAIN toPi' = 1 .. Len(toPi) + 1 /\ DOMAIN toPi = 1 .. Len(toPi)
      /\ toPi'[Len(toPi) + 1] = m /\ \A i \in 1 .. Len(toPi) : toPi'[i] = toPi[i]
  BY <1>1
<1>4. \A i \in 1 .. Len(toPi) + 1 : i \in 1 .. Len(toPi) \/ i = Len(toPi) + 1
  BY <1>1
<1>5. Bridge!NoEcho'
  BY <1>3, <1>4 DEF BridgeInv, Bridge!NoEcho
<1>6. QED
  BY <1>2, <1>5

LEMMA Counts ==
    ASSUME used \in Bridge!Counters
    PROVE  /\ used.failures < MaxFailures => [used EXCEPT !.failures = @ + 1] \in Bridge!Counters
           /\ used.frames < MaxFrames => [used EXCEPT !.frames = @ + 1] \in Bridge!Counters
           /\ used.resets < MaxResets => [used EXCEPT !.resets = @ + 1] \in Bridge!Counters
           /\ used.sends < MaxSends => [used EXCEPT !.sends = @ + 1] \in Bridge!Counters
<1>1. {MaxFrames, MaxSends, MaxResets, MaxFailures} \subseteq Nat
  BY DevicePartsAssumption DEF Bridge!BridgeSyncAssumption
<1>2. QED
  BY <1>1 DEF Bridge!Counters

LEMMA ApplyCfgKeeps ==
    ASSUME BridgeInv, place # "reading", NEW c \in {"default", "ours"}, Bridge!applyCfg(c),
           place' = "loop", toBridge' \in Seq({"CFG", "TX"}), UNCHANGED recent
    PROVE  BridgeInv'
<1>1. Bridge!NoEcho' /\ toPi' \in Seq({"RDY", "ERR", "OK", "received", "sent", "nothing"})
  BY Tells DEF Bridge!applyCfg
<1>2. used' \in Bridge!Counters
  BY Counts DEF Bridge!applyCfg, BridgeInv, Bridge!BridgeTypeOK
<1>3. strayed' \in BOOLEAN
  <2>1. (strayed /\ c # "ours") \in BOOLEAN
    BY DEF BridgeInv, Bridge!BridgeTypeOK
  <2>2. QED
    BY <2>1, Zenon DEF Bridge!applyCfg
<1>4. /\ {radioUp', rxDone', recent'} \subseteq BOOLEAN /\ cfg' \in {"none", "default", "ours"}
      /\ buffer' \in {"nothing", "received", "sent"}
      /\ rxDone' => buffer' = "received"
  <2>1. CASE rxDone' = FALSE
    BY <2>1 DEF Bridge!applyCfg, BridgeInv, Bridge!BridgeTypeOK
  <2>2. CASE UNCHANGED <<rxDone, cfg, buffer>> /\ radioUp' = FALSE
    BY <2>2 DEF BridgeInv, Bridge!BridgeTypeOK
  <2>3. QED
    BY <2>1, <2>2 DEF Bridge!applyCfg
<1>5. {radioUp', rxDone', recent', strayed'} \subseteq BOOLEAN
  BY <1>3, <1>4
<1>6. QED
  BY <1>1, <1>2, <1>4, <1>5 DEF BridgeInv, Bridge!BridgeTypeOK

LEMMA BridgeInductive ==
    ASSUME BridgeInv, Bridge!BridgeNext \/ UNCHANGED bridgeVars
    PROVE  BridgeInv'
<1>0. /\ toPi \in Seq({"RDY", "ERR", "OK", "received", "sent", "nothing"})
      /\ toBridge \in Seq({"CFG", "TX"})
  BY DEF BridgeInv, Bridge!BridgeTypeOK
<1> USE DEF Bridge!radio, Bridge!wire
<1>1. CASE UNCHANGED bridgeVars
  BY <1>1 DEF bridgeVars, BridgeInv, Bridge!BridgeTypeOK, Bridge!NoEcho
<1>2. CASE Bridge!Setup
  BY <1>0, <1>2, ApplyCfgKeeps DEF Bridge!Setup
<1>3. toBridge # <<>> => Tail(toBridge) \in Seq({"CFG", "TX"})
  BY <1>0
<1>4. CASE Bridge!HandleCfg
  BY <1>3, <1>4, ApplyCfgKeeps DEF Bridge!HandleCfg
<1>5. CASE Bridge!HandleTx
  <2>1. Bridge!NoEcho' /\ toPi' \in Seq({"RDY", "ERR", "OK", "received", "sent", "nothing"})
    BY <1>5, Tells DEF Bridge!HandleTx
  <2>2. /\ toBridge' \in Seq({"CFG", "TX"})
        /\ UNCHANGED <<place, radioUp, cfg, recent, strayed, used>> /\ place = "loop"
    BY <1>3, <1>5 DEF Bridge!HandleTx
  <2>3. \/ rxDone' = FALSE /\ buffer' = "sent"
        \/ UNCHANGED <<rxDone, buffer>>
    BY <1>5 DEF Bridge!HandleTx, Bridge!AfterTransmit
  <2>4. /\ {radioUp', rxDone', recent', strayed'} \subseteq BOOLEAN
        /\ buffer' \in {"nothing", "received", "sent"}
        /\ rxDone' => buffer' = "received"
    <3>1. CASE rxDone' = FALSE /\ buffer' = "sent"
      BY <2>2, <3>1 DEF BridgeInv, Bridge!BridgeTypeOK
    <3>2. CASE UNCHANGED <<rxDone, buffer>>
      BY <2>2, <3>2 DEF BridgeInv, Bridge!BridgeTypeOK
    <3>3. QED
      BY <2>3, <3>1, <3>2
  <2>5. QED
    BY <2>1, <2>2, <2>4 DEF BridgeInv, Bridge!BridgeTypeOK
<1>6. CASE Bridge!onRxDone
  BY <1>6, Counts DEF Bridge!onRxDone, BridgeInv, Bridge!BridgeTypeOK, Bridge!NoEcho
<1>7. CASE Bridge!BeginRead
  BY <1>7 DEF Bridge!BeginRead, BridgeInv, Bridge!BridgeTypeOK, Bridge!NoEcho
<1>8. CASE Bridge!EndRead
  <2>1. Bridge!NoEcho' /\ toPi' \in Seq({"RDY", "ERR", "OK", "received", "sent", "nothing"})
    <3>1. CASE toPi' = Append(toPi, buffer)
      BY <1>8, <3>1, Tells DEF Bridge!EndRead, BridgeInv
    <3>2. CASE UNCHANGED toPi
      BY <1>0, <3>2 DEF BridgeInv, Bridge!NoEcho
    <3>3. QED
      BY <1>8, <3>1, <3>2 DEF Bridge!EndRead
  <2>2. QED
    BY <1>8, <2>1 DEF Bridge!EndRead, BridgeInv, Bridge!BridgeTypeOK
<1>9. CASE Bridge!Reset
  <2>1. {radioUp', rxDone', recent', strayed'} \subseteq BOOLEAN
    BY <1>9 DEF Bridge!Reset, BridgeInv, Bridge!BridgeTypeOK
  <2>2. used' \in Bridge!Counters
    BY <1>9, Counts DEF Bridge!Reset, BridgeInv, Bridge!BridgeTypeOK
  <2>3. place' = "setup" /\ rxDone' = FALSE /\ cfg' = "none" /\ buffer' = "nothing"
    BY <1>9 DEF Bridge!Reset
  <2>4. toBridge' \in Seq({"CFG", "TX"}) /\ UNCHANGED toPi
    BY <1>9 DEF Bridge!Reset
  <2>5. Bridge!NoEcho'
    BY <2>4 DEF BridgeInv, Bridge!NoEcho
  <2>6. QED
    BY <1>0, <2>1, <2>2, <2>3, <2>4, <2>5 DEF BridgeInv, Bridge!BridgeTypeOK
<1>10. CASE Bridge!_dispatch
  <2>1. /\ toPi' \in Seq({"RDY", "ERR", "OK", "received", "sent", "nothing"})
        /\ \A i \in DOMAIN toPi' : i + 1 \in DOMAIN toPi /\ toPi'[i] = toPi[i + 1]
    BY <1>0, <1>10 DEF Bridge!_dispatch
  <2>2. Bridge!NoEcho'
    BY <2>1 DEF BridgeInv, Bridge!NoEcho
  <2>3. toBridge' \in Seq({"CFG", "TX"})
    <3>1. toBridge' = toBridge \/ toBridge' = Append(toBridge, "CFG")
      BY <1>10 DEF Bridge!_dispatch
    <3>2. QED
      BY <1>0, <3>1
  <2>4. recent' \in BOOLEAN /\ strayed' \in BOOLEAN
    <3>1. (strayed \/ (Head(toPi) = "RDY" /\ cfg # "ours")) \in BOOLEAN
      BY DEF BridgeInv, Bridge!BridgeTypeOK
    <3>2. {strayed, recent} \subseteq BOOLEAN
      BY DEF BridgeInv, Bridge!BridgeTypeOK
    <3>3. QED
      BY <1>10, <3>1, <3>2, Zenon DEF Bridge!_dispatch
  <2>5. QED
    BY <1>10, <2>1, <2>2, <2>3, <2>4 DEF Bridge!_dispatch, BridgeInv, Bridge!BridgeTypeOK
<1>11. CASE Bridge!SecondPasses
  BY <1>11 DEF Bridge!SecondPasses, BridgeInv, Bridge!BridgeTypeOK, Bridge!NoEcho
<1>12. CASE Bridge!send_frame
  <2>1. toBridge' \in Seq({"CFG", "TX"})
    BY <1>0, <1>12 DEF Bridge!send_frame
  <2>2. QED
    BY <1>12, <2>1, Counts DEF Bridge!send_frame, BridgeInv, Bridge!BridgeTypeOK, Bridge!NoEcho
<1>13. QED
  BY <1>1, <1>2, <1>4, <1>5, <1>6, <1>7, <1>8, <1>9, <1>10, <1>11, <1>12
  DEF Bridge!BridgeNext, Bridge!BridgeLoop

\* BridgeSync: through any number of frames, transmissions, resets and failed
\* starts of the radio the daemon is handed frames from the air only.
THEOREM BridgeEchoesNothing == Spec => [](Bridge!BridgeTypeOK /\ Bridge!NoEcho)
<1>1. Init => BridgeInv
  <2> SUFFICES ASSUME Init PROVE BridgeInv
    OBVIOUS
  <2>1. {MaxFrames, MaxSends, MaxResets, MaxFailures} \subseteq Nat
    BY DevicePartsAssumption DEF Bridge!BridgeSyncAssumption
  <2>2. used \in Bridge!Counters
    BY <2>1 DEF Init, Bridge!BridgeInit, Bridge!Counters
  <2>3. {radioUp, rxDone, recent, strayed} \subseteq BOOLEAN
    BY DEF Init, Bridge!BridgeInit
  <2>4. toBridge \in Seq({"CFG", "TX"}) /\ toPi = <<>>
    BY DEF Init, Bridge!BridgeInit
  <2>5. place = "setup" /\ rxDone = FALSE /\ cfg = "none" /\ buffer = "nothing"
    BY DEF Init, Bridge!BridgeInit
  <2>6. QED
    BY <2>2, <2>3, <2>4, <2>5 DEF BridgeInv, Bridge!BridgeTypeOK, Bridge!NoEcho
<1>2. BridgeInv /\ [Next]_vars => BridgeInv'
  BY PartsStep, BridgeInductive
<1>3. BridgeInv => Bridge!BridgeTypeOK /\ Bridge!NoEcho
  BY DEF BridgeInv
<1>4. QED
  BY <1>1, <1>2, <1>3, PTL DEF Spec

-----------------------------------------------------------------------------
(* The life of a node *)

\* What was touched since its boot or its last TAP has its arming cancelled, unless
\* the configuration has no auto-arm; and an untold motion has its flag.
LifeInv ==
    /\ Life!LifeTypeOK
    /\ Life!FlagIsKept
    /\ auto_arm_s > 0 /\ touched => autoArmCancelled

LifeBooleans ==
    {awake, adxl, motion_wake_enable, sensorOk, radioOk, csiHoldsAwake,
     autoArmCancelled, touched, armed, rtc_tamper} \subseteq BOOLEAN

LEMMA LifeConstants ==
    /\ auto_arm_s \in Nat /\ MaxTime \in Nat /\ MaxEvents \in Nat
    /\ DeployDelay \in Nat /\ Interval \in Nat
BY DevicePartsAssumption DEF Life!NodeLifecycleAssumption

\* A heartbeat keeps the flag of what it does not tell.
LEMMA HeartbeatKeeps ==
    ASSUME LifeInv, Life!sendHeartbeat
    PROVE  /\ events' \in 0 .. MaxEvents /\ rtc_tamper' \in BOOLEAN
           /\ motion' \in {"told", "untold", "lost"}
           /\ Life!FlagIsKept'
<1> USE LifeConstants
    DEF LifeInv, Life!LifeTypeOK, Life!FlagIsKept, Life!sendHeartbeat, Life!Happens, Life!tamper
<1>1. rtc_tamper \in BOOLEAN /\ events \in 0 .. MaxEvents
  OBVIOUS
<1>2. ASSUME rtc_tamper' = FALSE, UNCHANGED events,
             NEW outcome \in {"told", "lost"},
             motion' = IF rtc_tamper THEN outcome ELSE motion
      PROVE  motion' \in {"told", "untold", "lost"} /\ motion' # "untold"
  <2>1. CASE rtc_tamper
    BY <1>2, <2>1
  <2>2. CASE ~rtc_tamper
    BY <1>2, <2>2
  <2>3. QED
    BY <2>1, <2>2
<1>3. CASE Life!Happens /\ UNCHANGED <<rtc_tamper, motion>>
  BY <1>1, <1>3
<1>4. CASE ~(Life!Happens /\ UNCHANGED <<rtc_tamper, motion>>)
  BY <1>1, <1>2, <1>4
<1>5. QED
  BY <1>3, <1>4

\* A node that goes to sleep forgets all but RTC memory.
LEMMA SleepKeeps ==
    ASSUME LifeInv, NEW found \in BOOLEAN, Life!goToSleep(found), rtc_tamper' \in BOOLEAN,
           motion' \in {"told", "untold", "lost"}, events' \in 0 .. MaxEvents,
           Life!FlagIsKept'
    PROVE  LifeInv'
<1>1. (adxl /\ motion_wake_enable /\ found) \in BOOLEAN
  BY DEF LifeInv, Life!LifeTypeOK
<1>2. armed' \in BOOLEAN
  BY <1>1, Zenon DEF Life!goToSleep
<1>3. LifeBooleans'
  BY <1>2 DEF Life!goToSleep, Life!profile, LifeInv, Life!LifeTypeOK, LifeBooleans
<1>4. QED
  BY <1>3, LifeConstants
  DEF Life!goToSleep, Life!profile, LifeInv, Life!LifeTypeOK, LifeBooleans

LEMMA LifeInductive ==
    ASSUME LifeInv, Life!LifeNext \/ UNCHANGED lifeVars
    PROVE  /\ LifeInv'
           /\ auto_arm_s > 0 /\ touched /\ awake /\ ~awake' => events' # events
<1> USE LifeConstants
    DEF LifeInv, Life!LifeTypeOK, Life!FlagIsKept, Life!profile, Life!health, Life!arming,
        Life!tamper
<1>1. Life!Happens => events' \in 0 .. MaxEvents /\ events' # events
  BY DEF Life!Happens
<1>2. CASE UNCHANGED lifeVars
  BY <1>2 DEF lifeVars
<1>3. CASE Life!Tick
  BY <1>3 DEF Life!Tick
<1>4. CASE Life!AutoArm
  <2>1. sensorOk \in BOOLEAN /\ Life!goToSleep(sensorOk) /\ UNCHANGED <<rtc_tamper, motion, events>>
    BY <1>4 DEF Life!AutoArm
  <2>2. LifeInv'
    BY <2>1, SleepKeeps
  <2>3. QED
    BY <1>4, <2>2 DEF Life!AutoArm
<1>5. CASE Life!TimePasses
  BY <1>5 DEF Life!TimePasses
<1>6. CASE Life!TimerWake
  <2>1. PICK found \in BOOLEAN : Life!goToSleep(found)
    BY <1>6 DEF Life!TimerWake, Life!SleepAgain
  <2>2. LifeInv'
    BY <1>6, <2>1, HeartbeatKeeps, SleepKeeps DEF Life!TimerWake
  <2>3. QED
    BY <1>6, <2>2 DEF Life!TimerWake
<1>7. CASE Life!Keystroke
  <2>1. autoArmCancelled' \in BOOLEAN
    <3>1. (autoArmCancelled \/ auto_arm_s > 0) \in BOOLEAN
      OBVIOUS
    <3>2. QED
      BY <1>7, <3>1, Zenon DEF Life!Keystroke
  <2>2. auto_arm_s > 0 => autoArmCancelled'
    BY <1>7 DEF Life!Keystroke
  <2>3. QED
    BY <1>1, <1>7, <2>1, <2>2 DEF Life!Keystroke
<1>8. CASE Life!Hold
  BY <1>1, <1>8 DEF Life!Hold
<1>9. CASE Life!Tap
  <2>1. LifeBooleans'
    BY <1>9, HeartbeatKeeps DEF Life!Tap, LifeBooleans
  <2>2. QED
    BY <1>9, <2>1, HeartbeatKeeps DEF Life!Tap, LifeBooleans
<1>10. CASE Life!Report
  BY <1>10, HeartbeatKeeps DEF Life!Report
<1>11. CASE Life!Sleep
  <2>1. sensorOk \in BOOLEAN /\ Life!goToSleep(sensorOk) /\ UNCHANGED <<rtc_tamper, motion>>
    BY <1>11 DEF Life!Sleep
  <2>2. events' \in 0 .. MaxEvents /\ events' # events
    BY <1>1, <1>11 DEF Life!Sleep
  <2>3. LifeInv'
    BY <2>1, <2>2, SleepKeeps
  <2>4. QED
    BY <2>2, <2>3
<1>12. CASE Life!MotionWake
  <2>1. PICK found \in BOOLEAN : Life!goToSleep(found)
    BY <1>12 DEF Life!MotionWake, Life!SleepAgain
  <2>2. rtc_tamper' = TRUE /\ motion' = "untold" /\ events' \in 0 .. MaxEvents
    BY <1>1, <1>12 DEF Life!MotionWake
  <2>3. LifeInv'
    BY <2>1, <2>2, SleepKeeps
  <2>4. QED
    BY <1>12, <2>3 DEF Life!MotionWake
<1>13. CASE Life!Reset
  <2>1. LifeBooleans'
    BY <1>13 DEF Life!Reset, Life!ColdBoot, LifeBooleans
  <2>2. Life!FlagIsKept' /\ motion' \in {"told", "untold", "lost"}
    BY <1>13 DEF Life!Reset
  <2>3. QED
    BY <1>1, <1>13, <2>1, <2>2 DEF Life!Reset, Life!ColdBoot, LifeBooleans
<1>14. QED
  BY <1>2, <1>3, <1>4, <1>5, <1>6, <1>7, <1>8, <1>9, <1>10, <1>11, <1>12, <1>13
  DEF Life!LifeNext, Life!Runs

\* NodeLifecycle: a node that was touched after its boot or its last TAP does not
\* put itself to sleep, and a motion that woke the node keeps its flag until a
\* heartbeat carried it to the radio, whatever the times of the configuration.
THEOREM TouchKeepsAwake ==
    Spec => [](Life!LifeTypeOK /\ Life!FlagIsKept) /\ Life!TouchHoldsBench
<1>1. Init => LifeInv
  <2> SUFFICES ASSUME Init PROVE LifeInv
    OBVIOUS
  <2>1. LifeBooleans
    BY DEF Init, Life!LifeInit, LifeBooleans
  <2>2. QED
    BY <2>1, LifeConstants
    DEF Init, Life!LifeInit, LifeInv, Life!LifeTypeOK, Life!FlagIsKept, LifeBooleans
<1>2. LifeInv /\ [Next]_vars => LifeInv'
  BY PartsStep, LifeInductive
<1>3. LifeInv /\ [Next]_vars =>
        [auto_arm_s > 0 /\ touched /\ awake /\ ~awake' => events' # events]_(Life!lifeVars)
  BY PartsStep, LifeInductive
<1>4. LifeInv => Life!LifeTypeOK /\ Life!FlagIsKept
  BY DEF LifeInv
<1>5. QED
  BY <1>1, <1>2, <1>3, <1>4, PTL DEF Spec, Life!TouchHoldsBench

-----------------------------------------------------------------------------
(* The WiFi radar *)

\* A number is so many whole turns of the clock and what the clock shows.
LEMMA Turns ==
    ASSUME NEW a \in Nat, NEW w \in Nat \ {0}
    PROVE  /\ a % w \in 0 .. w - 1
           /\ \E q \in Nat : a = q * w + (a % w)
<1>1. a % w \in 0 .. w - 1 /\ a = w * (a \div w) + (a % w) /\ (a \div w) \in Int
  OBVIOUS
<1>2. a \div w \in Nat
  OBVIOUS
<1> DEFINE q == a \div w
<1>3. a = w * q + (a % w) /\ q \in Nat
  BY <1>1, <1>2
<1> HIDE DEF q
<1>4. w * q = q * w
  BY <1>3
<1>5. QED
  BY <1>1, <1>3, <1>4

\* What lies later and shows at least h more on a clock that wraps is at least h later.
LEMMA LaterByTheClock ==
    ASSUME NEW a \in Nat, NEW b \in Nat, NEW w \in Nat \ {0}, NEW h \in Nat,
           b <= a, a % w >= (b % w) + h
    PROVE  a - b >= h
<1>1. PICK q \in Nat : a = q * w + (a % w)
  BY Turns
<1>2. PICK r \in Nat : b = r * w + (b % w)
  BY Turns
<1>3. a % w \in 0 .. w - 1 /\ b % w \in 0 .. w - 1
  BY Turns
<1> DEFINE x == a % w  y == b % w
<1>4. /\ a = q * w + x /\ b = r * w + y
      /\ x \in 0 .. w - 1 /\ y \in 0 .. w - 1 /\ x >= y + h
  BY <1>1, <1>2, <1>3
<1> HIDE DEF x, y
<1>5. q * w \in Nat /\ r * w \in Nat
  OBVIOUS
<1>6. q >= r
  <2>1. SUFFICES ASSUME q + 1 <= r PROVE FALSE
    OBVIOUS
  <2>2. (q + 1) * w <= r * w
    BY <2>1
  <2>3. (q + 1) * w = q * w + w
    OBVIOUS
  <2>4. QED
    BY <1>4, <1>5, <2>2, <2>3
<1>7. q * w >= r * w
  BY <1>6
<1>8. QED
  BY <1>4, <1>5, <1>7

\* What lies behind the next wrap, and shows at least h less a turn more, is at least
\* h later too.
LEMMA LaterBehindTheWrap ==
    ASSUME NEW a \in Nat, NEW b \in Nat, NEW w \in Nat \ {0}, NEW h \in Nat,
           b <= a, a - b >= w - (b % w), a % w >= (b % w) + h - w
    PROVE  a - b >= h
<1>1. PICK q \in Nat : a = q * w + (a % w)
  BY Turns
<1>2. PICK r \in Nat : b = r * w + (b % w)
  BY Turns
<1>3. a % w \in 0 .. w - 1 /\ b % w \in 0 .. w - 1
  BY Turns
<1> DEFINE x == a % w  y == b % w
<1>4. /\ a = q * w + x /\ b = r * w + y
      /\ x \in 0 .. w - 1 /\ y \in 0 .. w - 1 /\ x >= y + h - w
      /\ a - b >= w - y
  BY <1>1, <1>2, <1>3
<1> HIDE DEF x, y
<1>5. q * w \in Nat /\ r * w \in Nat
  OBVIOUS
<1>6. q > r
  <2>1. SUFFICES ASSUME q <= r PROVE FALSE
    OBVIOUS
  <2>2. q * w <= r * w
    BY <2>1
  <2>3. QED
    BY <1>4, <1>5, <2>2
<1>7. q * w >= r * w + w
  <2>1. (r + 1) * w <= q * w
    BY <1>6
  <2>2. (r + 1) * w = r * w + w
    OBVIOUS
  <2>3. QED
    BY <1>5, <2>1, <2>2
<1>8. QED
  BY <1>4, <1>5, <1>7

\* What has been released was so in the past, and set the hold-off.
CsiInv ==
    /\ Csi!CsiTypeOK
    /\ Csi!HoldoffIsKept
    /\ trigger \in [at : Nat, since : Nat]
    /\ released # Csi!Never =>
         /\ released <= time
         /\ holdoffUntil = ((released % Wrap) + Holdoff) % Wrap

LEMMA CsiConstants ==
    /\ Ring \in Nat \ {0} /\ Window \in Nat \ {0} /\ Needed \in Nat \ {0} /\ Wrap \in Nat \ {0}
    /\ Timeout \in Nat /\ Holdoff \in Nat /\ Holdoff < Wrap /\ MaxTime \in Nat /\ MaxRecals \in Nat
    /\ Start \in 0 .. MaxTime
BY DevicePartsAssumption DEF Csi!CsiSensorAssumption

\* An event is at least the hold-off after the last release.
LEMMA DetectKeeps ==
    ASSUME CsiInv, NEW metric \in Csi!Levels, Csi!Detect(metric), UNCHANGED time
    PROVE  /\ inEvent' \in BOOLEAN
           /\ holdoffUntil' \in 0 .. Wrap - 1 /\ released' \in 0 .. Csi!Never
           /\ trigger' \in [at : Nat, since : Nat]
           /\ Csi!HoldoffIsKept'
           /\ released' # Csi!Never =>
                /\ released' <= time
                /\ holdoffUntil' = ((released' % Wrap) + Holdoff) % Wrap
<1>1. /\ time \in Nat /\ time <= MaxTime /\ inEvent \in BOOLEAN
      /\ holdoffUntil \in 0 .. Wrap - 1 /\ released \in Nat /\ released <= Csi!Never
      /\ Csi!Never = MaxTime + 1 /\ Csi!Never \in Nat
  BY CsiConstants DEF CsiInv, Csi!CsiTypeOK, Csi!Never
<1>2. inEvent' \in BOOLEAN
  <2>1. (inEvent /\ ~Csi!Release(metric)) \in BOOLEAN
    BY <1>1
  <2>2. QED
    BY <2>1, Zenon DEF Csi!Detect
<1>3. /\ holdoffUntil' \in 0 .. Wrap - 1 /\ released' \in 0 .. Csi!Never
      /\ released' # Csi!Never =>
           /\ released' <= time
           /\ holdoffUntil' = ((released' % Wrap) + Holdoff) % Wrap
  <2>1. CASE Csi!Release(metric)
    <3>1. holdoffUntil' = ((time % Wrap) + Holdoff) % Wrap /\ released' = time
      BY <2>1 DEF Csi!Detect, Csi!HoldoffAfter, Csi!millis
    <3>2. (time % Wrap) + Holdoff \in Nat
      BY <1>1, CsiConstants, Turns
    <3>3. holdoffUntil' \in 0 .. Wrap - 1
      BY <3>1, <3>2, CsiConstants, Turns
    <3>4. QED
      BY <1>1, <3>1, <3>3, CsiConstants
  <2>2. CASE ~Csi!Release(metric)
    BY <1>1, <2>2 DEF Csi!Detect, CsiInv
  <2>3. QED
    BY <2>1, <2>2
<1>4. trigger' \in [at : Nat, since : Nat] /\ Csi!HoldoffIsKept'
  <2>1. CASE Csi!Triggered(metric)
    <3>1. trigger' = [at |-> time, since |-> released] /\ time % Wrap >= holdoffUntil
      BY <2>1 DEF Csi!Detect, Csi!Triggered, Csi!millis
    <3>2. ASSUME released # Csi!Never
          PROVE  /\ released % Wrap \in 0 .. Wrap - 1
                 /\ released <= time
                 /\ time % Wrap >= ((released % Wrap) + Holdoff) % Wrap
      BY <1>1, <3>1, <3>2, CsiConstants, Turns DEF CsiInv
    <3>3. ASSUME released # Csi!Never, (released % Wrap) + Holdoff < Wrap
          PROVE  time - released >= Holdoff
      <4>1. ((released % Wrap) + Holdoff) % Wrap = (released % Wrap) + Holdoff
        BY <3>2, <3>3, CsiConstants
      <4>2. QED
        BY <1>1, <3>2, <3>3, <4>1, CsiConstants, LaterByTheClock
    <3>4. ASSUME released # Csi!Never, (released % Wrap) + Holdoff >= Wrap,
                 time - released >= Wrap - (released % Wrap)
          PROVE  time - released >= Holdoff
      <4>1. ((released % Wrap) + Holdoff) % Wrap = (released % Wrap) + Holdoff - Wrap
        BY <3>2, <3>4, CsiConstants
      <4>2. QED
        BY <1>1, <3>2, <3>4, <4>1, CsiConstants, LaterBehindTheWrap
    <3>5. trigger'.at = time /\ trigger'.since = released /\ trigger' \in [at : Nat, since : Nat]
      BY <1>1, <3>1
    <3>6. released # Csi!Never => released % Wrap \in 0 .. Wrap - 1 /\ released <= time
      BY <3>2
    <3>7. QED
      BY <1>1, <3>3, <3>4, <3>5, <3>6, CsiConstants DEF Csi!HoldoffIsKept, Csi!Never
  <2>2. CASE ~Csi!Triggered(metric)
    BY <2>2 DEF Csi!Detect, CsiInv, Csi!HoldoffIsKept, Csi!Never
  <2>3. QED
    BY <2>1, <2>2
<1>5. QED
  BY <1>2, <1>3, <1>4

LEMMA CsiInductive ==
    ASSUME CsiInv, Csi!CsiNext \/ UNCHANGED csiVars
    PROVE  CsiInv'
<1> USE CsiConstants DEF Csi!window, Csi!event
<1>1. CASE UNCHANGED csiVars
  BY <1>1 DEF csiVars, CsiInv, Csi!CsiTypeOK, Csi!HoldoffIsKept, Csi!Never
<1>2. CASE Csi!Tick
  BY <1>2 DEF Csi!Tick, CsiInv, Csi!CsiTypeOK, Csi!HoldoffIsKept, Csi!Never
<1>3. CASE Csi!ingestTurbulence
  BY <1>3 DEF Csi!ingestTurbulence, CsiInv, Csi!CsiTypeOK, Csi!HoldoffIsKept, Csi!Never
<1>4. CASE Csi!PollBegin
  <2>1. calibNeeded' \in {calibSamples, calibNeeded}
    BY <1>4 DEF Csi!PollBegin, Csi!Enough
  <2>2. QED
    BY <1>4, <2>1 DEF Csi!PollBegin, CsiInv, Csi!CsiTypeOK, Csi!HoldoffIsKept, Csi!Never
<1>5. ASSUME NEW metric \in Csi!Levels, Csi!Drain(metric)
      PROVE  CsiInv'
  <2>1. /\ ring' \in 0 .. Ring - 1 /\ draining' \in 0 .. ring'
        /\ UNCHANGED <<time, calibNeeded, calibStart, recals>>
    BY <1>5 DEF Csi!Drain, CsiInv, Csi!CsiTypeOK
  <2>2. /\ winLen' \in 0 .. Window
        /\ calibSamples' \in 0 .. Needed /\ calibSamples' <= calibNeeded
    BY <1>5 DEF Csi!Drain, CsiInv, Csi!CsiTypeOK, Csi!calibrating
  <2>3. CASE Csi!Detect(metric)
    BY <2>1, <2>2, <2>3, DetectKeeps DEF CsiInv, Csi!CsiTypeOK, Csi!Never
  <2>4. CASE UNCHANGED <<inEvent, holdoffUntil, released, trigger>>
    BY <2>1, <2>2, <2>4 DEF CsiInv, Csi!CsiTypeOK, Csi!HoldoffIsKept, Csi!Never
  <2>5. QED
    BY <1>5, <2>3, <2>4 DEF Csi!Drain
<1>6. CASE Csi!recalibrate
  <2>1. time % Wrap \in 0 .. Wrap - 1
    BY Turns DEF CsiInv, Csi!CsiTypeOK
  <2>2. inEvent' \in BOOLEAN
    BY <1>6 DEF Csi!recalibrate
  <2>3. /\ calibStart' = time % Wrap /\ holdoffUntil' = 0 /\ released' = Csi!Never
        /\ calibSamples' = 0 /\ calibNeeded' = Needed /\ winLen' = 0
        /\ recals' \in 0 .. MaxRecals
        /\ UNCHANGED <<time, ring, draining, trigger>>
    BY <1>6 DEF Csi!recalibrate, Csi!millis, CsiInv, Csi!CsiTypeOK
  <2>4. Csi!HoldoffIsKept'
    BY <2>3 DEF CsiInv, Csi!HoldoffIsKept, Csi!Never
  <2>5. Csi!CsiTypeOK'
    BY <2>1, <2>2, <2>3 DEF CsiInv, Csi!CsiTypeOK, Csi!Never
  <2>6. QED
    BY <2>3, <2>4, <2>5 DEF CsiInv, Csi!Never
<1>7. QED
  BY <1>1, <1>2, <1>3, <1>4, <1>5, <1>6 DEF Csi!CsiNext, Csi!CsiPoll

\* CsiSensor: for every width of the clock, hold-off and ring, ring and window are
\* never overrun, and an event is a hold-off after the last release unless that
\* hold-off reaches past a wrap of the clock that has not come yet.
THEOREM RadarHoldsOff == Spec => [](Csi!CsiTypeOK /\ Csi!HoldoffIsKept)
<1>1. Init => CsiInv
  <2> SUFFICES ASSUME Init PROVE CsiInv
    OBVIOUS
  <2>1. Start % Wrap \in 0 .. Wrap - 1
    BY CsiConstants, Turns
  <2>2. /\ time = Start /\ calibStart = Start % Wrap /\ inEvent \in BOOLEAN
        /\ released = Csi!Never /\ trigger = [at |-> Start, since |-> Csi!Never]
    BY DEF Init, Csi!CsiInit, Csi!millis
  <2>3. Csi!CsiTypeOK
    BY <2>1, <2>2, CsiConstants DEF Init, Csi!CsiInit, Csi!CsiTypeOK, Csi!Never
  <2>4. Start \in Nat /\ Csi!Never \in Nat
    BY CsiConstants DEF Csi!Never
  <2>5. QED
    BY <2>2, <2>3, <2>4 DEF CsiInv, Csi!HoldoffIsKept
<1>2. CsiInv /\ [Next]_vars => CsiInv'
  BY PartsStep, CsiInductive
<1>3. CsiInv => Csi!CsiTypeOK /\ Csi!HoldoffIsKept
  BY DEF CsiInv
<1>4. QED
  BY <1>1, <1>2, <1>3, PTL DEF Spec

-----------------------------------------------------------------------------
(* The status of a node *)

LEMMA StatusInductive ==
    ASSUME Status!StatusTypeOK, Status!StatusNext \/ UNCHANGED statusVars
    PROVE  Status!StatusTypeOK'
<1>0. /\ MaxChanges \in Nat /\ MaxDrops \in Nat
      /\ "serial" \in Status!Threads /\ "main" \in Status!Threads
  BY DevicePartsAssumption DEF Status!StatusMqttAssumption, Status!Threads
<1> USE <1>0 DEF Status!StatusTypeOK, Status!row, Status!threads, Status!Go
<1>1. CASE UNCHANGED statusVars
  BY <1>1 DEF statusVars
<1>2. ASSUME NEW flag \in BOOLEAN, Status!OnHeartbeat(flag)
      PROVE  Status!StatusTypeOK'
  <2>1. {tamper', silent'} \subseteq BOOLEAN
    BY <1>2 DEF Status!OnHeartbeat
  <2>2. QED
    BY <1>2, <2>1 DEF Status!OnHeartbeat
<1>3. CASE Status!FallSilent
  <2>1. {tamper', silent'} \subseteq BOOLEAN
    BY <1>3 DEF Status!FallSilent
  <2>2. QED
    BY <1>3, <2>1 DEF Status!FallSilent
<1>4. CASE Status!BrokerEnds
  BY <1>4 DEF Status!BrokerEnds
<1>5. CASE Status!Hour
  BY <1>5 DEF Status!Hour
<1>6. CASE Status!PublishHeartbeat
  BY <1>6 DEF Status!PublishHeartbeat, Status!publish
<1>7. ASSUME NEW t \in Status!Threads, Status!Round(t)
      PROVE  Status!StatusTypeOK'
  <2>1. CASE Status!Classify(t)
    <3>1. Status!classify \in Status!Colors
      <4>1. tamper \in BOOLEAN /\ silent \in BOOLEAN
        OBVIOUS
      <4>2. QED
        BY <4>1 DEF Status!classify, Status!Colors
    <3>2. QED
      BY <1>7, <2>1, <3>1 DEF Status!Classify
  <2>2. CASE Status!Compare(t)
    BY <1>7, <2>2 DEF Status!Compare
  <2>3. CASE Status!Cache(t)
    BY <1>7, <2>3 DEF Status!Cache
  <2>4. CASE Status!PublishStatus(t)
    BY <1>7, <2>4 DEF Status!PublishStatus, Status!publish
  <2>5. QED
    BY <1>7, <2>1, <2>2, <2>3, <2>4 DEF Status!Round
<1>8. QED
  BY <1>1, <1>2, <1>3, <1>4, <1>5, <1>6, <1>7 DEF Status!StatusNext

\* StatusMqtt: cache, keys and retained message are colors throughout, however the
\* two threads and the broker interleave.
THEOREM StatusIsColor == Spec => []Status!StatusTypeOK
<1>1. Init => Status!StatusTypeOK
  <2> SUFFICES ASSUME Init PROVE Status!StatusTypeOK
    OBVIOUS
  <2>1. MaxChanges \in Nat /\ MaxDrops \in Nat
    BY DevicePartsAssumption DEF Status!StatusMqttAssumption
  <2>2. {tamper, silent} \subseteq BOOLEAN
    BY DEF Init, Status!StatusInit
  <2>3. QED
    BY <2>1, <2>2 DEF Init, Status!StatusInit, Status!StatusTypeOK, Status!Colors
<1>2. Status!StatusTypeOK /\ [Next]_vars => Status!StatusTypeOK'
  BY PartsStep, StatusInductive
<1>3. QED
  BY <1>1, <1>2, PTL DEF Spec


=============================================================================
