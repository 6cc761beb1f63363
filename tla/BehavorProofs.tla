--------------------------- MODULE BehavorProofs ---------------------------
(***************************************************************************)
(* Lemmas about the behaviour processor that hold for every record, event  *)
(* and rule: what stabilisation returns, and what its two memories hold    *)
(* and add up to after a round.                                            *)
(***************************************************************************)
EXTENDS Behavor, SequenceTheorems, SumTheorems

(* A nonempty set of naturals has its least element as Min.                *)
LEMMA LeastOfNaturals ==
    ASSUME NEW S, S \subseteq Nat, S # {}
    PROVE  Min(S) \in S /\ \A n \in S : Min(S) <= n
<1> DEFINE R == {ss \in Nat \X Nat : ss[1] < ss[2]}
<1>1. IsWellFoundedOn(R, Nat)
  BY NatLessThanWellFounded, Zenon DEF OpToRel
<1>2. PICK x \in S : \A y \in S : ~(<<y, x>> \in R)
  BY <1>1, WFMin, Zenon
<1>3. \A y \in S : x <= y
  <2>1. TAKE y \in S
  <2>2. ~(<<y, x>> \in R)
    BY <1>2
  <2>3. x \in Nat /\ y \in Nat
    OBVIOUS
  <2> QED
    BY <2>2, <2>3
<1> QED
  BY <1>3, Zenon DEF Min

(* Stabilisation never recommends more than the round wishes.              *)
LEMMA StabilizedAtMostDesired ==
    ASSUME NEW desired \in Nat, NEW current, NEW up, NEW down, NEW now,
           NEW records \in Seq(Recommendation)
    PROVE  /\ Stabilized(desired, current, up, down, records, now) \in Nat
           /\ Stabilized(desired, current, up, down, records, now) <= desired
<1> DEFINE cutoff == now - DelaySeconds(desired, current, up, down)
           recent == {rec \in ToSet(records) : After(rec.Timestamp, cutoff)}
           S == {desired} \cup {rec.DesiredReplicas : rec \in recent}
<1>1. ToSet(records) \subseteq Recommendation
  BY LenProperties DEF ToSet
<1>2. S \subseteq Nat
  BY <1>1 DEF Recommendation
<1>3. S # {} /\ desired \in S
  OBVIOUS
<1>4. Min(S) \in S /\ \A n \in S : Min(S) <= n
  <2> HIDE DEF S
  <2> QED
    BY <1>2, <1>3, LeastOfNaturals
<1>5. Stabilized(desired, current, up, down, records, now) = Min(S)
  BY DEF Stabilized
<1> HIDE DEF S
<1> QED
  BY <1>2, <1>3, <1>4, <1>5

(* The records stay a sequence of recommendations.                         *)
LEMMA RecordedIsSequence ==
    ASSUME NEW records \in Seq(Recommendation), NEW recommendation \in Nat,
           NEW up, NEW down, NEW now \in Nat
    PROVE  Recorded(recommendation, up, down, records, now) \in Seq(Recommendation)
<1> DEFINE slot == SelectLastInSeq(records, LAMBDA rec :
                       Before(rec.Timestamp, now - max(up.window, down.window)))
           new  == [DesiredReplicas |-> recommendation, Timestamp |-> now]
<1>1. new \in Recommendation
  BY DEF Recommendation
<1>2. ASSUME NEW i PROVE [records EXCEPT ![i] = new] \in Seq(Recommendation)
  <2>1. CASE i \in 1..Len(records)
    BY <1>1, <2>1, ExceptSeq
  <2>2. CASE i \notin 1..Len(records)
    <3>1. [records EXCEPT ![i] = new] = records
      BY <2>2, LenProperties
    <3> QED
      BY <3>1
  <2> QED
    BY <2>1, <2>2
<1>3. Append(records, new) \in Seq(Recommendation)
  BY <1>1
<1>4. Recorded(recommendation, up, down, records, now)
        = IF slot > 0 THEN [records EXCEPT ![slot] = new] ELSE Append(records, new)
  BY DEF Recorded
<1> HIDE DEF slot, new
<1> QED
  BY <1>2, <1>3, <1>4

(* A bounded nonempty set of naturals has its greatest element as Max.     *)
LEMMA GreatestOfBounded ==
    ASSUME NEW n \in Nat, NEW S, S \subseteq 1..n, S # {}
    PROVE  Max(S) \in S
<1> DEFINE T == {n - s : s \in S}
<1>1. T \subseteq Nat /\ T # {}
  <2>1. \A s \in S : s \in 1..n
    OBVIOUS
  <2>2. \A s \in S : n - s \in Nat
    BY <2>1
  <2> QED
    BY <2>2
<1>2. Min(T) \in T /\ \A t \in T : Min(T) <= t
  <2> HIDE DEF T
  <2> QED
    BY <1>1, LeastOfNaturals
<1>3. PICK m \in S : Min(T) = n - m
  BY <1>2
<1>4. \A s \in S : m >= s
  <2>1. TAKE s \in S
  <2>2. n - m <= n - s
    BY <1>2, <1>3
  <2>3. m \in Int /\ s \in Int
    OBVIOUS
  <2> QED
    BY <2>2, <2>3
<1> QED
  BY <1>4, Zenon DEF Max

(* A record that is too young for the shorter of the two windows, or for   *)
(* anything less, is not the one whose slot is taken.                      *)
LEMMA RecordedKeepsYoung ==
    ASSUME NEW records \in Seq(Recommendation), NEW recommendation, NEW up, NEW down,
           NEW now \in Nat, up.window \in Nat, down.window \in Nat,
           NEW least \in Nat, least <= up.window, least <= down.window,
           NEW rec \in ToSet(records), ~Before(rec.Timestamp, now - least)
    PROVE  rec \in ToSet(Recorded(recommendation, up, down, records, now))
<1> DEFINE cutoff == now - max(up.window, down.window)
           Obsolete == {i \in 1..Len(records) : Before(records[i].Timestamp, cutoff)}
           slot == SelectLastInSeq(records, LAMBDA r : Before(r.Timestamp, cutoff))
           new  == [DesiredReplicas |-> recommendation, Timestamp |-> now]
           result == Recorded(recommendation, up, down, records, now)
<1>1. Len(records) \in Nat /\ DOMAIN records = 1..Len(records)
  BY LenProperties
<1>2. PICK i \in 1..Len(records) : rec = records[i]
  BY <1>1 DEF ToSet
<1>3. i \notin Obsolete
  <2>1. records[i] \in Recommendation
    BY <1>2, ElementOfSeq
  <2>2. rec.Timestamp \in Nat
    BY <1>2, <2>1 DEF Recommendation
  <2>3. max(up.window, down.window) \in Nat /\ least <= max(up.window, down.window)
    BY DEF max
  <2> HIDE DEF Obsolete
  <2>4. ~Before(rec.Timestamp, cutoff)
    BY <2>2, <2>3 DEF Before
  <2> QED
    BY <1>2, <2>4 DEF Obsolete
<1>4. slot = IF Obsolete = {} THEN 0 ELSE Max(Obsolete)
  BY Zenon DEF SelectLastInSeq
<1>5. Obsolete # {} => Max(Obsolete) \in Obsolete
  <2>1. Obsolete \subseteq 1..Len(records)
    OBVIOUS
  <2> HIDE DEF Obsolete
  <2> QED
    BY <1>1, <2>1, GreatestOfBounded
<1>6. slot # i
  <2> HIDE DEF Obsolete, slot
  <2> QED
    BY <1>2, <1>3, <1>4, <1>5
<1>7. result = IF slot > 0 THEN [records EXCEPT ![slot] = new] ELSE Append(records, new)
  BY DEF Recorded
<1>8. i \in DOMAIN result /\ result[i] = records[i]
  <2> HIDE DEF slot, new, result
  <2>1. CASE slot > 0
    BY <1>1, <1>6, <1>7, <2>1
  <2>2. CASE ~(slot > 0)
    BY <1>1, <1>2, <1>7, <2>2
  <2> QED
    BY <2>1, <2>2
<1>9. rec \in ToSet(result)
  <2> HIDE DEF result
  <2> QED
    BY <1>2, <1>8 DEF ToSet
<1> QED
  BY <1>9

-----------------------------------------------------------------------------
(* The same events, with those before the cutoff marked too.               *)
MarkedFrom(events, cutoff, marked) ==
    /\ marked \in Seq(ScaleEvent)
    /\ DOMAIN marked = DOMAIN events
    /\ Len(marked) = Len(events)
    /\ \A i \in DOMAIN events :
          /\ marked[i].ReplicaChange = events[i].ReplicaChange
          /\ marked[i].TimeStamp = events[i].TimeStamp
          /\ marked[i].OutDated = (events[i].OutDated \/ Before(events[i].TimeStamp, cutoff))

(* Marking changes nothing but the mark, and marks only what is too old.   *)
LEMMA MarkedIsSequence ==
    ASSUME NEW events \in Seq(ScaleEvent), NEW period, NEW now
    PROVE  MarkedFrom(events, now - period, MarkedOutdated(events, period, now))
<1> DEFINE marked == MarkedOutdated(events, period, now)
           Flag(i) == events[i].OutDated \/ Before(events[i].TimeStamp, now - period)
<1>1. DOMAIN events = 1..Len(events) /\ Len(events) \in Nat
  BY LenProperties
<1>2. marked = [i \in DOMAIN events |-> [ReplicaChange |-> events[i].ReplicaChange,
                                         TimeStamp |-> events[i].TimeStamp,
                                         OutDated |-> Flag(i)]]
  BY Zenon DEF MarkedOutdated
<1>3. \A i \in DOMAIN events : events[i].ReplicaChange \in Nat /\ events[i].TimeStamp \in Nat
  <2>1. \A i \in DOMAIN events : events[i] \in ScaleEvent
    BY <1>1, ElementOfSeq
  <2> QED
    BY <2>1 DEF ScaleEvent
<1>4. \A i \in DOMAIN events : Flag(i) \in BOOLEAN
  OBVIOUS
<1> HIDE DEF Flag, marked
<1>5. \A i \in DOMAIN events : marked[i] \in ScaleEvent
  BY <1>2, <1>3, <1>4 DEF ScaleEvent
<1>6. marked \in Seq(ScaleEvent) /\ DOMAIN marked = DOMAIN events
  <2>1. marked = [i \in 1..Len(events) |-> marked[i]]
    BY <1>1, <1>2
  <2> QED
    BY <1>1, <1>5, <2>1
<1>7. Len(marked) = Len(events)
  BY <1>1, <1>6, LenProperties
<1>8. \A i \in DOMAIN events : /\ marked[i].ReplicaChange = events[i].ReplicaChange
                               /\ marked[i].TimeStamp = events[i].TimeStamp
                               /\ marked[i].OutDated = Flag(i)
  BY <1>2, Zenon
<1> QED
  BY <1>6, <1>7, <1>8 DEF Flag, marked, MarkedFrom

(* The events stay a sequence too.                                         *)
LEMMA EventStoredIsSequence ==
    ASSUME NEW events \in Seq(ScaleEvent), NEW rules, NEW change \in Nat, NEW now \in Nat
    PROVE  EventStored(events, rules, change, now) \in Seq(ScaleEvent)
<1> DEFINE marked == MarkedOutdated(events, LongestPolicyPeriod(rules), now)
           slot == SelectLastInSeq(marked, LAMBDA event : event.OutDated)
           new  == [ReplicaChange |-> change, TimeStamp |-> now, OutDated |-> FALSE]
<1>1. new \in ScaleEvent
  BY DEF ScaleEvent
<1>2. marked \in Seq(ScaleEvent)
  BY MarkedIsSequence DEF MarkedFrom
<1>3. ASSUME NEW i PROVE [marked EXCEPT ![i] = new] \in Seq(ScaleEvent)
  <2> HIDE DEF marked, new
  <2>1. CASE i \in 1..Len(marked)
    BY <1>1, <1>2, <2>1, ExceptSeq
  <2>2. CASE i \notin 1..Len(marked)
    <3>1. [marked EXCEPT ![i] = new] = marked
      BY <1>2, <2>2, LenProperties
    <3> QED
      BY <1>2, <3>1
  <2> QED
    BY <2>1, <2>2
<1>4. Append(marked, new) \in Seq(ScaleEvent)
  <2> HIDE DEF marked, new
  <2> QED
    BY <1>1, <1>2
<1>5. EventStored(events, rules, change, now)
        = IF slot > 0 THEN [marked EXCEPT ![slot] = new] ELSE Append(marked, new)
  BY DEF EventStored
<1> HIDE DEF slot, new, marked
<1> QED
  BY <1>3, <1>4, <1>5

-----------------------------------------------------------------------------
(* A finite nonempty set of naturals has its greatest element as Max.      *)
LEMMA GreatestOfFinite ==
    ASSUME NEW S, S \subseteq Nat, S # {}, IsFiniteSet(S)
    PROVE  Max(S) \in S /\ \A n \in S : n <= Max(S)
<1> DEFINE Greatest(T, m) == m \in T /\ \A n \in T : n <= m
           P == {T \in SUBSET S : T = {} \/ \E m \in T : Greatest(T, m)}
<1>1. {} \in P
  OBVIOUS
<1>2. ASSUME NEW T \in SUBSET S, T # {}, \A x \in T : T \ {x} \in P
      PROVE  T \in P
  <2>1. PICK x \in T : T \ {x} \in P
    BY <1>2
  <2>2. CASE T \ {x} = {}
    <3>1. Greatest(T, x)
      BY <2>2
    <3> QED
      BY <3>1
  <2>3. CASE \E m \in T \ {x} : Greatest(T \ {x}, m)
    <3>1. PICK m \in T \ {x} : Greatest(T \ {x}, m)
      BY <2>3
    <3>2. m \in Nat /\ x \in Nat
      OBVIOUS
    <3>3. Greatest(T, IF m <= x THEN x ELSE m)
      BY <3>1, <3>2
    <3>4. (IF m <= x THEN x ELSE m) \in T
      OBVIOUS
    <3> HIDE DEF Greatest
    <3> QED
      BY <3>3, <3>4
  <2> HIDE DEF Greatest
  <2> QED
    BY <2>1, <2>2, <2>3
<1>3. \E m \in S : Greatest(S, m)
  <2>1. \A T \in SUBSET S : T \in P
    <3> HIDE DEF P
    <3> QED
      BY <1>1, <1>2, InductionOverSubsets
  <2> HIDE DEF Greatest
  <2> QED
    BY <2>1
<1>4. Max(S) = CHOOSE m \in S : \A n \in S : m >= n
  BY Zenon DEF Max
<1>5. \E m \in S : \A n \in S : m >= n
  BY <1>3
<1>6. Max(S) \in S /\ \A n \in S : Max(S) >= n
  BY <1>4, <1>5, Zenon
<1> QED
  BY <1>6

(* With a slice of policies the longest period is a natural.               *)
LEMMA LongestPeriodIsNatural ==
    ASSUME NEW rules \in Rules, IsFiniteSet(rules.policies)
    PROVE  LongestPolicyPeriod(rules) \in Nat
<1> DEFINE periods == {p.period : p \in rules.policies}
<1>1. periods \subseteq Nat
  BY DEF Rules
<1>2. IsFiniteSet(periods)
  <2> DEFINE period == [p \in rules.policies |-> p.period]
  <2>1. period \in [rules.policies -> periods]
    OBVIOUS
  <2>2. \A y \in periods : \E p \in rules.policies : period[p] = y
    OBVIOUS
  <2> HIDE DEF period, periods
  <2>3. period \in Surjection(rules.policies, periods)
    BY <2>1, <2>2 DEF Surjection
  <2> QED
    BY <2>3, FS_Surjection
<1>3. {0} \cup periods \subseteq Nat /\ {0} \cup periods # {} /\ IsFiniteSet({0} \cup periods)
  <2> HIDE DEF periods
  <2> QED
    BY <1>1, <1>2, FS_AddElement
<1>4. Max({0} \cup periods) \in {0} \cup periods
  <2> HIDE DEF periods
  <2> QED
    BY <1>3, GreatestOfFinite
<1> QED
  BY <1>3, <1>4 DEF LongestPolicyPeriod

(* What a rate limit reads in the events: the changes after a cutoff.      *)
Weights(events, cutoff) ==
    [i \in DOMAIN events |->
        IF After(events[i].TimeStamp, cutoff) THEN events[i].ReplicaChange ELSE 0]
EventSum(events, cutoff) == SumFunctionOnSet(Weights(events, cutoff), DOMAIN events)

(* Nothing after the cutoff is marked.                                     *)
KeptSince(events, cutoff) ==
    \A i \in DOMAIN events : events[i].OutDated => ~After(events[i].TimeStamp, cutoff)

(* ReplicasChange is such a sum.                                           *)
LEMMA ReplicasChangeIsSum ==
    ASSUME NEW period, NEW events, NEW now
    PROVE  ReplicasChange(period, events, now) = EventSum(events, now - period)
<1>1. DOMAIN Weights(events, now - period) = DOMAIN events
  BY DEF Weights
<1> QED
  BY <1>1, Zenon DEF ReplicasChange, EventSum, Weights, SumFunction

(* A stored event adds its change to the sum after any cutoff that no      *)
(* marked event is younger than, whichever slot it takes, provided the     *)
(* cutoff lies within the longest period of the rules it is stored with.   *)
LEMMA StoredEventIsAdded ==
    ASSUME NEW events \in Seq(ScaleEvent), NEW rules, NEW change \in Nat, NEW now \in Nat,
           NEW least \in Nat, LongestPolicyPeriod(rules) \in Nat,
           least <= LongestPolicyPeriod(rules),
           KeptSince(events, now - least)
    PROVE  LET stored == EventStored(events, rules, change, now)
           IN  /\ KeptSince(stored, now - least)
               /\ \A c \in Int : c >= now - least =>
                     EventSum(stored, c)
                       = EventSum(events, c) + (IF After(now, c) THEN change ELSE 0)
<1> DEFINE marked == MarkedOutdated(events, LongestPolicyPeriod(rules), now)
           Marked == {i \in 1..Len(marked) : marked[i].OutDated}
           slot == SelectLastInSeq(marked, LAMBDA event : event.OutDated)
           new  == [ReplicaChange |-> change, TimeStamp |-> now, OutDated |-> FALSE]
           stored == EventStored(events, rules, change, now)
           n == Len(events)
<1>1. n \in Nat /\ DOMAIN events = 1..n
  BY LenProperties
<1>2. /\ marked \in Seq(ScaleEvent) /\ DOMAIN marked = 1..n /\ Len(marked) = n
      /\ \A i \in 1..n : /\ marked[i].ReplicaChange = events[i].ReplicaChange
                         /\ marked[i].TimeStamp = events[i].TimeStamp
                         /\ marked[i].OutDated = (\/ events[i].OutDated
                                                  \/ Before(events[i].TimeStamp,
                                                            now - LongestPolicyPeriod(rules)))
  <2>1. MarkedFrom(events, now - LongestPolicyPeriod(rules), marked)
    BY MarkedIsSequence
  <2> HIDE DEF marked
  <2> QED
    BY <1>1, <2>1 DEF MarkedFrom
<1>3. stored = IF slot > 0 THEN [marked EXCEPT ![slot] = new] ELSE Append(marked, new)
  BY Zenon DEF EventStored
<1>4. slot = IF Marked = {} THEN 0 ELSE Max(Marked)
  BY Zenon DEF SelectLastInSeq
<1>5. \A i \in 1..n : events[i].ReplicaChange \in Nat /\ events[i].TimeStamp \in Nat
  <2>1. \A i \in 1..n : events[i] \in ScaleEvent
    BY <1>1, ElementOfSeq
  <2> QED
    BY <2>1 DEF ScaleEvent
<1>6. new.ReplicaChange = change /\ new.TimeStamp = now /\ new.OutDated = FALSE
  OBVIOUS
<1> HIDE DEF marked, new, stored
<1>7. Marked # {} => slot \in Marked
  <2>1. Marked \subseteq 1..n
    BY <1>2
  <2> HIDE DEF Marked, slot
  <2> QED
    BY <1>1, <1>4, <2>1, GreatestOfBounded
<1> HIDE DEF slot, Marked, n
<1>8. \A i \in 1..n : marked[i].OutDated => ~After(events[i].TimeStamp, now - least)
  <2> SUFFICES ASSUME NEW i \in 1..n, marked[i].OutDated
               PROVE  ~After(events[i].TimeStamp, now - least)
    OBVIOUS
  <2>1. CASE events[i].OutDated
    BY <1>1, <2>1 DEF KeptSince
  <2>2. CASE Before(events[i].TimeStamp, now - LongestPolicyPeriod(rules))
    BY <1>5, <2>2 DEF Before, After
  <2> QED
    BY <1>2, <2>1, <2>2
<1>9. CASE Marked = {}
  <2>1. stored = Append(marked, new)
    BY <1>3, <1>4, <1>9
  <2>2. DOMAIN stored = 1..(n + 1) /\ stored[n + 1] = new /\ \A i \in 1..n : stored[i] = marked[i]
    <3>1. new \in ScaleEvent
      BY DEF new, ScaleEvent
    <3>2. /\ stored \in Seq(ScaleEvent) /\ Len(stored) = n + 1 /\ stored[n + 1] = new
          /\ \A i \in 1..n : stored[i] = marked[i]
      <4>0. marked \in Seq(ScaleEvent)
        BY <1>2
      <4>1. /\ Append(marked, new) \in Seq(ScaleEvent)
            /\ Len(Append(marked, new)) = Len(marked) + 1
            /\ Append(marked, new)[Len(marked) + 1] = new
            /\ \A i \in 1..Len(marked) : Append(marked, new)[i] = marked[i]
        BY <3>1, <4>0, AppendProperties
      <4>2. Len(marked) = n
        BY <1>2
      <4> QED
        BY <2>1, <4>1, <4>2, Zenon
    <3> QED
      BY <3>2, LenProperties
  <2>3. KeptSince(stored, now - least)
    <3> SUFFICES ASSUME NEW i \in 1..(n + 1), stored[i].OutDated
                 PROVE  ~After(stored[i].TimeStamp, now - least)
      BY <2>2 DEF KeptSince
    <3>1. i \in 1..n
      BY <1>1, <1>6, <2>2
    <3> QED
      BY <1>2, <1>8, <2>2, <3>1
  <2>4. ASSUME NEW c \in Int, c >= now - least
        PROVE  EventSum(stored, c)
                 = EventSum(events, c) + (IF After(now, c) THEN change ELSE 0)
    <3> DEFINE old == Weights(events, c)
               neu == Weights(stored, c)
    <3>1. \A i \in 1..n : old[i] = IF After(events[i].TimeStamp, c)
                                   THEN events[i].ReplicaChange ELSE 0
      BY <1>1 DEF Weights
    <3>2. \A i \in 1..(n + 1) : neu[i] = IF After(stored[i].TimeStamp, c)
                                         THEN stored[i].ReplicaChange ELSE 0
      BY <2>2 DEF Weights
    <3>3. \A i \in 1..n : i \in 1..(n + 1)
      BY <1>1
    <3>4. n + 1 \in 1..(n + 1)
      BY <1>1
    <3> HIDE DEF old, neu
    <3>5. \A i \in 1..n : old[i] \in Int /\ neu[i] = old[i]
      <4> SUFFICES ASSUME NEW i \in 1..n PROVE old[i] \in Int /\ neu[i] = old[i]
        OBVIOUS
      <4>1. neu[i] = IF After(marked[i].TimeStamp, c) THEN marked[i].ReplicaChange ELSE 0
        BY <2>2, <3>2, <3>3, Zenon
      <4>2. neu[i] = IF After(events[i].TimeStamp, c) THEN events[i].ReplicaChange ELSE 0
        BY <1>2, <4>1, Zenon
      <4> QED
        BY <1>5, <3>1, <4>2
    <3>6. neu[n + 1] = (IF After(now, c) THEN change ELSE 0) /\ neu[n + 1] \in Int
      BY <1>6, <2>2, <3>2, <3>4
    <3>7. SumFunctionOnSet(neu, 1..(n + 1)) = SumFunctionOnSet(old, 1..n) + neu[n + 1]
      BY <1>1, <3>5, <3>6, SumOfAppend
    <3> QED
      BY <1>1, <2>2, <3>6, <3>7 DEF EventSum, old, neu
  <2> QED
    BY <2>3, <2>4 DEF stored
<1>10. CASE Marked # {}
  <2>1. slot \in 1..n /\ marked[slot].OutDated
    BY <1>2, <1>7, <1>10 DEF Marked
  <2>2. stored = [marked EXCEPT ![slot] = new]
    BY <1>1, <1>3, <2>1
  <2>3. DOMAIN stored = 1..n /\ stored[slot] = new
        /\ \A i \in (1..n) \ {slot} : stored[i] = marked[i]
    BY <1>2, <2>1, <2>2
  <2>4. KeptSince(stored, now - least)
    <3> SUFFICES ASSUME NEW i \in 1..n, stored[i].OutDated
                 PROVE  ~After(stored[i].TimeStamp, now - least)
      BY <2>3 DEF KeptSince
    <3>1. i \in (1..n) \ {slot}
      BY <1>6, <2>3
    <3> QED
      BY <1>2, <1>8, <2>3, <3>1
  <2>5. ASSUME NEW c \in Int, c >= now - least
        PROVE  EventSum(stored, c)
                 = EventSum(events, c) + (IF After(now, c) THEN change ELSE 0)
    <3> DEFINE old == Weights(events, c)
               neu == Weights(stored, c)
    <3>1. \A i \in 1..n : old[i] = IF After(events[i].TimeStamp, c)
                                   THEN events[i].ReplicaChange ELSE 0
      BY <1>1 DEF Weights
    <3>2. \A i \in 1..n : neu[i] = IF After(stored[i].TimeStamp, c)
                                   THEN stored[i].ReplicaChange ELSE 0
      BY <2>3 DEF Weights
    <3> HIDE DEF old, neu
    <3>3. \A i \in (1..n) \ {slot} : neu[i] = old[i]
      <4> SUFFICES ASSUME NEW i \in (1..n) \ {slot} PROVE neu[i] = old[i]
        OBVIOUS
      <4>1. i \in 1..n /\ stored[i] = marked[i]
        BY <2>3
      <4>2. neu[i] = IF After(marked[i].TimeStamp, c) THEN marked[i].ReplicaChange ELSE 0
        BY <3>2, <4>1, Zenon
      <4>3. neu[i] = IF After(events[i].TimeStamp, c) THEN events[i].ReplicaChange ELSE 0
        BY <1>2, <4>1, <4>2, Zenon
      <4> QED
        BY <3>1, <4>1, <4>3, Zenon
    <3>4. old[slot] = 0
      <4>1. ~After(events[slot].TimeStamp, now - least)
        BY <1>8, <2>1
      <4>2. ~After(events[slot].TimeStamp, c)
        BY <1>5, <2>1, <2>5, <4>1 DEF After
      <4> QED
        BY <2>1, <3>1, <4>2
    <3>5. neu[slot] = IF After(now, c) THEN change ELSE 0
      BY <1>6, <2>1, <2>3, <3>2
    <3>6. \A i \in 1..n : old[i] \in Int /\ neu[i] \in Int
      <4>1. \A i \in 1..n : old[i] \in Int
        BY <1>5, <3>1
      <4>2. neu[slot] \in Int
        BY <3>5
      <4> QED
        BY <3>3, <4>1, <4>2
    <3>7. IsFiniteSet(1..n)
      BY <1>1, FS_Interval
    <3>8. SumFunctionOnSet(neu, 1..n) = SumFunctionOnSet(old, 1..n) - old[slot] + neu[slot]
      <4> DEFINE D == 1..n
      <4>1. slot \in D
        BY <2>1
      <4> HIDE DEF D
      <4> QED
        <5>1. IsFiniteSet(D) /\ (\A i \in D : old[i] \in Int /\ neu[i] \in Int)
              /\ (\A i \in D \ {slot} : neu[i] = old[i])
          BY <3>3, <3>6, <3>7 DEF D
        <5>2. SumFunctionOnSet(neu, D) = SumFunctionOnSet(old, D) - old[slot] + neu[slot]
          BY <4>1, <5>1, SumOfUpdate
        <5> QED
          BY <5>2 DEF D
    <3>9. SumFunctionOnSet(old, 1..n) \in Int
      BY <3>6, <3>7, SumType
    <3> HIDE DEF n
    <3>10. SumFunctionOnSet(neu, 1..n)
             = SumFunctionOnSet(old, 1..n) + (IF After(now, c) THEN change ELSE 0)
      BY <3>4, <3>5, <3>8, <3>9
    <3> QED
      BY <1>1, <2>3, <3>10 DEF EventSum, old, neu
  <2> QED
    BY <2>4, <2>5 DEF stored
<1> QED
  BY <1>9, <1>10
=============================================================================
