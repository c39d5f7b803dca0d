---------------------------- MODULE HelperProofs ----------------------------
(***************************************************************************)
(* Theorems about MemoryGovernor, for any thresholds, candidates and       *)
(* readings, and about SpawnManager, for any configurations, budgets and   *)
(* requests, both for any width of their counters.                         *)
(***************************************************************************)
EXTENDS MCHelpers, FiniteSetTheorems, WellFoundedInduction, TLAPS

\* The governor never counts a sample that was not taken, or one from before
\* the count began anew.
CountsAreBacked ==
  /\ governor.pressure <= Cardinality(Recent("pressure", "clear"))
  /\ governor.clear <= Cardinality(Recent("clear", "pressure"))

IInv == TypeOK /\ CountsAreBacked /\ PauseIsEarned /\ ReleaseIsEarned /\ OomIsNeverMissed

LEMMA NextIsBounded ==
  ASSUME NEW n \in 0 .. MaxCount
  PROVE  Next32(n) \in 0 .. MaxCount /\ Next32(n) <= n + 1
  BY ConstantsAssumption DEF Next32

\* A governor whose counts were set anew.
LEMMA Updated ==
  ASSUME NEW g \in [state : States, pressure : 0 .. MaxCount, clear : 0 .. MaxCount,
                    paused : BOOLEAN],
         NEW state \in States, NEW p \in 0 .. MaxCount, NEW c \in 0 .. MaxCount,
         NEW paused \in BOOLEAN, NEW h,
         \/ h = [g EXCEPT !.state = state, !.pressure = p, !.clear = c] /\ paused = g.paused
         \/ h = [g EXCEPT !.state = state, !.pressure = p, !.clear = c, !.paused = paused]
  PROVE  /\ h \in [state : States, pressure : 0 .. MaxCount, clear : 0 .. MaxCount,
                   paused : BOOLEAN]
         /\ h.state = state /\ h.pressure = p /\ h.clear = c
  OBVIOUS

LEMMA KindIsTyped == ASSUME NEW raw PROVE Kind(raw) \in Kinds
  BY DEF Kind, Kinds

LEMMA RecentIsFinite ==
  ASSUME TypeOK, NEW kind, NEW other
  PROVE  /\ Recent(kind, other) \subseteq 1 .. Len(history)
         /\ IsFiniteSet(Recent(kind, other))
         /\ Cardinality(Recent(kind, other)) \in Nat
<1>1. Recent(kind, other) \subseteq 1 .. Len(history)
  BY DEF Recent, TypeOK
<1>2. IsFiniteSet(1 .. Len(history))
  BY FS_Interval DEF TypeOK
<1>3. QED
  BY <1>1, <1>2, FS_Subset, FS_CardinalityType

\* What one more sample does to the recent ones of a kind.
LEMMA RecentGrows ==
  ASSUME TypeOK, NEW k \in Kinds, history' = Append(history, k),
         NEW kind \in Kinds, NEW other \in Kinds, kind # other
  PROVE  /\ k = kind  => Cardinality(Recent(kind, other)') = Cardinality(Recent(kind, other)) + 1
         /\ k = other => Recent(kind, other)' = {}
         /\ k \notin {kind, other} => Recent(kind, other)' = Recent(kind, other)
<1> DEFINE n == Len(history)
<1>1. /\ n \in Nat
      /\ DOMAIN history = 1 .. n /\ Len(history') = n + 1 /\ DOMAIN history' = 1 .. n + 1
      /\ history'[n + 1] = k
      /\ \A i \in 1 .. n : history'[i] = history[i]
  BY DEF TypeOK
<1> HIDE DEF n
<1>2. Recent(kind, other) = {i \in 1 .. n : history[i] = kind /\ \A j \in i .. n : history[j] # other}
  BY <1>1 DEF Recent, n
<1>3. Recent(kind, other)' =
        {i \in 1 .. n + 1 : history'[i] = kind /\ \A j \in i .. n + 1 : history'[j] # other}
  BY <1>1 DEF Recent
<1>4. ASSUME k = other PROVE Recent(kind, other)' = {}
  <2>1. \A i \in 1 .. n + 1 : n + 1 \in i .. n + 1 /\ history'[n + 1] = other
    BY <1>1, <1>4
  <2>2. QED
    BY <1>3, <2>1
<1>5. ASSUME k # other, NEW i \in 1 .. n
      PROVE  i \in Recent(kind, other)' <=> i \in Recent(kind, other)
  <2>1. i .. n + 1 = (i .. n) \cup {n + 1} /\ i .. n \subseteq 1 .. n /\ i \in 1 .. n + 1
    BY <1>1
  <2>2. (\A j \in i .. n + 1 : history'[j] # other) <=> (\A j \in i .. n : history[j] # other)
    BY <1>1, <1>5, <2>1
  <2>3. QED
    BY <1>1, <1>2, <1>3, <2>1, <2>2
<1>6. ASSUME k # other
      PROVE  n + 1 \in Recent(kind, other)' <=> k = kind
  <2>1. \A j \in n + 1 .. n + 1 : j = n + 1
    BY <1>1
  <2>2. n + 1 \in 1 .. n + 1
    BY <1>1
  <2>3. QED
    BY <1>1, <1>3, <1>6, <2>1, <2>2
<1>7. Recent(kind, other)' \subseteq (1 .. n) \cup {n + 1} /\ Recent(kind, other) \subseteq 1 .. n
  BY <1>1, <1>2, <1>3
<1>8. ASSUME k \notin {kind, other} PROVE Recent(kind, other)' = Recent(kind, other)
  BY <1>5, <1>6, <1>7, <1>8
<1>9. ASSUME k = kind
      PROVE  Cardinality(Recent(kind, other)') = Cardinality(Recent(kind, other)) + 1
  <2>1. Recent(kind, other)' = Recent(kind, other) \cup {n + 1}
    BY <1>5, <1>6, <1>7, <1>9
  <2>2. n + 1 \notin Recent(kind, other)
    BY <1>1, <1>7
  <2>3. QED
    BY <2>1, <2>2, RecentIsFinite, FS_AddElement
<1>10. QED
  BY <1>4, <1>8, <1>9

LEMMA InitialState == Init => IInv
<1> SUFFICES ASSUME Init PROVE IInv
  OBVIOUS
<1>1. TypeOK
  <2>1. cgroup \in Counts /\ previous \in Counts
    BY DEF Init, Counts
  <2>2. 0 \in 0 .. MaxCount /\ "Normal" \in States
    BY ConstantsAssumption DEF States
  <2>3. governor \in [state : States, pressure : 0 .. MaxCount, clear : 0 .. MaxCount,
                      paused : BOOLEAN]
    BY <2>2 DEF Init
  <2>4. helpers \in Seq(Candidates) /\ history \in Seq(Kinds)
    BY DEF Init
  <2>5. actions \subseteq Actions /\ victim \subseteq Nat /\ failure \in BOOLEAN
    BY DEF Init
  <2>6. QED
    BY <2>1, <2>3, <2>4, <2>5 DEF TypeOK
<1>2. governor.pressure = 0 /\ governor.clear = 0 /\ governor.state = "Normal"
  BY DEF Init
<1>3. CountsAreBacked
  <2>1. /\ Cardinality(Recent("pressure", "clear")) \in Nat
        /\ Cardinality(Recent("clear", "pressure")) \in Nat
    BY <1>1, RecentIsFinite
  <2>2. QED
    BY <1>2, <2>1 DEF CountsAreBacked
<1>4. PauseIsEarned /\ ReleaseIsEarned
  BY <1>2 DEF PauseIsEarned, ReleaseIsEarned
<1>5. OomIsNeverMissed
  BY DEF Init, OomIsNeverMissed
<1>6. QED
  BY <1>1, <1>3, <1>4, <1>5 DEF IInv

\* One sample, seen by the governor.
LEMMA ObserveStep ==
  ASSUME IInv, NEW raw, NEW listed \in Listings, history' = Append(history, Kind(raw)),
         Observe(Kind(raw), listed)
  PROVE  /\ governor' \in [state : States, pressure : 0 .. MaxCount, clear : 0 .. MaxCount,
                           paused : BOOLEAN]
         /\ actions' \subseteq Actions /\ victim' \subseteq Nat
         /\ CountsAreBacked' /\ PauseIsEarned' /\ ReleaseIsEarned'
<1> DEFINE P == Recent("pressure", "clear")
           C == Recent("clear", "pressure")
<1>1. Kind(raw) \in Kinds /\ {"pressure", "clear"} \subseteq Kinds
  BY KindIsTyped DEF Kinds
<1>2. /\ governor \in [state : States, pressure : 0 .. MaxCount, clear : 0 .. MaxCount,
                       paused : BOOLEAN]
      /\ governor.pressure <= Cardinality(P) /\ governor.clear <= Cardinality(C)
      /\ Cardinality(P) \in Nat /\ Cardinality(C) \in Nat
      /\ MaxCount \in Nat /\ PauseSpawns \in BOOLEAN
      /\ Sustained \in 1 .. MaxCount /\ Clear \in 1 .. MaxCount
  BY RecentIsFinite, ConstantsAssumption DEF IInv, TypeOK, CountsAreBacked
<1>3. /\ governor.pressure \in 0 .. MaxCount /\ governor.clear \in 0 .. MaxCount
      /\ Next32(governor.pressure) \in 0 .. MaxCount
      /\ Next32(governor.pressure) <= governor.pressure + 1
      /\ Next32(governor.clear) \in 0 .. MaxCount
      /\ Next32(governor.clear) <= governor.clear + 1
  BY <1>2, NextIsBounded
<1>4. Cardinality({}) = 0
  BY FS_EmptySet
<1> DEFINE Governor == [state : States, pressure : 0 .. MaxCount, clear : 0 .. MaxCount,
                        paused : BOOLEAN]
<1>5. SUFFICES /\ governor' \in Governor
               /\ actions' \subseteq Actions /\ victim' \subseteq Nat
               /\ governor'.pressure <= Cardinality(P') /\ governor'.clear <= Cardinality(C')
               /\ governor'.state = "PressureSustained" => Cardinality(P') >= Sustained
               /\ governor'.state = "SpawnPauseReleased" => Cardinality(C') >= Clear
  BY DEF CountsAreBacked, PauseIsEarned, ReleaseIsEarned
<1>6. governor.state \in States /\ governor.paused \in BOOLEAN /\ 0 \in 0 .. MaxCount
  BY <1>2
<1>7. States = {"Normal", "PressureObserved", "PressureSustained", "PressureCleared",
                "SpawnPauseReleased", "Terminal"}
  BY DEF States
<1>8. CASE Kind(raw) = "terminal"
  <2>1. P' = P /\ C' = C
    BY <1>1, <1>8, RecentGrows DEF IInv
  <2>2. governor' = [governor EXCEPT !.state = "Terminal", !.paused = TRUE]
        /\ actions' = {"KillGroup", "FailRun"} /\ victim' = {}
    BY <1>8 DEF Observe, Terminal
  <2>3. /\ governor' \in Governor /\ governor'.state = "Terminal"
        /\ governor'.pressure = governor.pressure /\ governor'.clear = governor.clear
    BY <1>2, <2>2 DEF States
  <2>4. QED
    BY <1>2, <2>1, <2>2, <2>3 DEF Actions
<1>9. CASE Kind(raw) = "pressure"
  <2>1. Cardinality(P') = Cardinality(P) + 1 /\ Cardinality(C') = 0
    BY <1>1, <1>4, <1>9, RecentGrows DEF IInv
  <2>2. CASE Pressure
    <3>1. governor' = [governor EXCEPT !.state = "PressureObserved",
                                       !.pressure = Next32(governor.pressure), !.clear = 0]
          /\ actions' = {"Observe"} /\ victim' = {}
      BY <2>2 DEF Pressure
    <3>2. /\ governor' \in Governor /\ governor'.state = "PressureObserved"
          /\ governor'.pressure = Next32(governor.pressure) /\ governor'.clear = 0
      BY <1>2, <1>3, <1>6, <1>7, <3>1, Updated
    <3>3. QED
      BY <1>2, <1>3, <2>1, <3>1, <3>2 DEF Actions
  <2>3. CASE SustainedPressure(listed)
    <3>1. Next32(governor.pressure) >= Sustained
          /\ governor' = [governor EXCEPT !.state = "PressureSustained",
                                          !.pressure = Next32(governor.pressure), !.clear = 0,
                                          !.paused = @ \/ PauseSpawns]
      BY <2>3 DEF SustainedPressure
    <3>2. actions' \subseteq Actions
      BY <2>3 DEF SustainedPressure, Actions
    <3>3. victim' \subseteq Nat
      <4>1. listed \in Seq(Candidate)
        BY ConstantsAssumption
      <4>2. \A i \in DOMAIN listed : listed[i] \in Candidate
        BY <4>1
      <4>3. \A i \in DOMAIN listed : listed[i].id \in Nat
        BY <4>2 DEF Candidate
      <4>4. QED
        BY <2>3, <4>3 DEF SustainedPressure, Victim
    <3>4. (governor.paused \/ PauseSpawns) \in BOOLEAN
      BY <1>6, Zenon
    <3>5. /\ governor' \in Governor /\ governor'.state = "PressureSustained"
          /\ governor'.pressure = Next32(governor.pressure) /\ governor'.clear = 0
      BY <1>2, <1>3, <1>6, <1>7, <3>1, <3>4, Updated
    <3>6. QED
      BY <1>2, <1>3, <2>1, <3>1, <3>2, <3>3, <3>5
  <2>4. QED
    BY <1>9, <2>2, <2>3 DEF Observe
<1>10. CASE Kind(raw) = "clear"
  <2>1. Cardinality(P') = 0 /\ Cardinality(C') = Cardinality(C) + 1
    BY <1>1, <1>4, <1>10, RecentGrows DEF IInv
  <2>2. CASE ClearSample
    <3> DEFINE state == IF governor.state = "Normal" THEN "Normal" ELSE "PressureCleared"
    <3>1. governor' = [governor EXCEPT !.pressure = 0, !.clear = Next32(governor.clear),
                                       !.state = state]
      BY <2>2 DEF ClearSample
    <3>2. actions' \subseteq Actions /\ victim' \subseteq Nat
      BY <2>2 DEF ClearSample, Actions
    <3>3. state \in States \ {"PressureSustained", "SpawnPauseReleased"}
      BY DEF States
    <3>4. /\ governor' \in Governor /\ governor'.state = state
          /\ governor'.pressure = 0 /\ governor'.clear = Next32(governor.clear)
      BY <1>2, <1>3, <1>6, <3>1, <3>3, Updated
    <3>5. QED
      BY <1>2, <1>3, <2>1, <3>2, <3>3, <3>4
  <2>3. CASE Release
    <3>1. Next32(governor.clear) >= Clear
          /\ governor' = [governor EXCEPT !.pressure = 0, !.clear = Next32(governor.clear),
                                          !.paused = FALSE, !.state = "SpawnPauseReleased"]
          /\ actions' = {"ReleaseSpawnPause"} /\ victim' = {}
      BY <2>3 DEF Release
    <3>2. /\ governor' \in Governor /\ governor'.state = "SpawnPauseReleased"
          /\ governor'.pressure = 0 /\ governor'.clear = Next32(governor.clear)
      BY <1>2, <1>3, <1>6, <1>7, <3>1, Updated
    <3>3. QED
      BY <1>2, <1>3, <2>1, <3>1, <3>2 DEF Actions
  <2>4. QED
    BY <1>10, <2>2, <2>3 DEF Observe
<1>11. QED
  BY <1>1, <1>8, <1>9, <1>10 DEF Kinds

LEMMA SampleStep ==
  ASSUME IInv, NEW read \in Readings, NEW listed \in Listings, NEW attached \in BOOLEAN,
         Sample(read, listed, attached)
  PROVE  IInv'
<1> DEFINE raw == Raw(read)
<1>1. /\ history' = Append(history, Kind(raw)) /\ Observe(Kind(raw), listed)
      /\ previous' = raw /\ helpers' = listed /\ cgroup' = cgroup
      /\ failure' = (failure \/ ~ attached \/ OutOfMemory(raw) \/ "FailRun" \in actions')
  BY DEF Sample
<1>2. raw \in Counts /\ Kind(raw) \in Kinds
  BY KindIsTyped DEF Raw, Counts, IInv, TypeOK
<1> HIDE DEF raw
<1>3. /\ governor' \in [state : States, pressure : 0 .. MaxCount, clear : 0 .. MaxCount,
                        paused : BOOLEAN]
      /\ actions' \subseteq Actions /\ victim' \subseteq Nat
      /\ CountsAreBacked' /\ PauseIsEarned' /\ ReleaseIsEarned'
  BY <1>1, ObserveStep
<1>4. failure' \in BOOLEAN /\ history' \in Seq(Kinds) /\ helpers' \in Seq(Candidates)
  BY <1>1, <1>2, ConstantsAssumption DEF IInv, TypeOK
<1>5. TypeOK'
  BY <1>1, <1>2, <1>3, <1>4 DEF IInv, TypeOK
<1>6. OomIsNeverMissed'
  <2>1. CASE raw["oom"] > 0
    BY <1>1, <2>1 DEF OutOfMemory, OomIsNeverMissed
  <2>2. CASE Kind(raw) = "terminal"
    BY <1>1, <2>2 DEF Observe, Terminal, OomIsNeverMissed
  <2>3. CASE ~ (raw["oom"] > 0) /\ Kind(raw) # "terminal"
    <3>1. ASSUME NEW i \in DOMAIN history', history'[i] = "terminal"
          PROVE  i \in DOMAIN history /\ history[i] = "terminal"
      BY <1>1, <2>3, <3>1 DEF IInv, TypeOK
    <3>2. (\E i \in DOMAIN history : history[i] = "terminal") => failure
      BY DEF IInv, OomIsNeverMissed
    <3>3. QED
      BY <1>1, <2>3, <3>1, <3>2 DEF OomIsNeverMissed
  <2>4. QED
    BY <2>1, <2>2, <2>3
<1>7. QED
  BY <1>3, <1>5, <1>6 DEF IInv

LEMMA CountStep ==
  ASSUME IInv, NEW c \in Counter, Count(c)
  PROVE  IInv'
<1>1. UNCHANGED <<previous, governor, actions, victim, helpers, failure, history>>
  BY DEF Count
<1>2. cgroup' \in Counts
  BY DEF Count, IInv, TypeOK, Counts
<1>3. TypeOK'
  BY <1>1, <1>2 DEF IInv, TypeOK
<1>4. QED
  BY <1>1, <1>3 DEF IInv, CountsAreBacked, PauseIsEarned, ReleaseIsEarned, OomIsNeverMissed, Recent

LEMMA Step == IInv /\ [Next]_vars => IInv'
<1> SUFFICES ASSUME IInv, [Next]_vars PROVE IInv'
  OBVIOUS
<1>1. ASSUME NEW c \in Counter, Count(c) PROVE IInv'
  BY <1>1, CountStep
<1>2. ASSUME NEW read \in Readings, NEW listed \in Listings, NEW attached \in BOOLEAN,
             Sample(read, listed, attached)
      PROVE  IInv'
  BY <1>2, SampleStep
<1>3. CASE UNCHANGED vars
  BY <1>3 DEF vars, IInv, TypeOK, CountsAreBacked, PauseIsEarned, ReleaseIsEarned,
              OomIsNeverMissed, Recent
<1>4. QED
  BY <1>1, <1>2, <1>3 DEF Next

\* The sample counts stay within their type, however long the process runs.
THEOREM TypeCorrect == Spec => []TypeOK
<1>1. IInv => TypeOK
  BY DEF IInv
<1>2. QED
  BY <1>1, InitialState, Step, PTL DEF Spec

\* No helper is cancelled, and no run failed, for less pressure than the policy
\* asks for.
THEOREM PressureIsSustained == Spec => []PauseIsEarned
<1>1. IInv => PauseIsEarned
  BY DEF IInv
<1>2. QED
  BY <1>1, InitialState, Step, PTL DEF Spec

\* Spawns do not resume before the clear samples the policy asks for.
THEOREM CooldownIsServed == Spec => []ReleaseIsEarned
<1>1. IInv => ReleaseIsEarned
  BY DEF IInv
<1>2. QED
  BY <1>1, InitialState, Step, PTL DEF Spec

\* Every out-of-memory event that was read has failed the run.
THEOREM OomFailsTheRun == Spec => []OomIsNeverMissed
<1>1. IInv => OomIsNeverMissed
  BY DEF IInv
<1>2. QED
  BY <1>1, InitialState, Step, PTL DEF Spec

-----------------------------------------------------------------------------
\* Which helper is cancelled

\* The candidates a listing shows that no other one precedes.
Readers(listed) == {i \in DOMAIN listed : listed[i].readOnly}
Least(listed) ==
  {i \in Readers(listed) : \A j \in Readers(listed) : ~ Precedes(listed[j], listed[i])}

\* A set of indexes has a first one.
LEMMA FirstOf ==
  ASSUME NEW T, T \subseteq Nat, T # {}
  PROVE  \E n \in T : \A m \in T : n <= m
<1> DEFINE R == OpToRel(<, Nat)
<1>1. IsWellFoundedOn(R, Nat)
  BY NatLessThanWellFounded, Zenon
<1>2. \A n, m \in Nat : <<n, m>> \in R <=> n < m
  BY DEF OpToRel
<1> HIDE DEF R
<1>3. PICK n \in T : \A m \in T : ~ (<<m, n>> \in R)
  BY <1>1, WFMin
<1>4. ASSUME NEW m \in T PROVE n <= m
  <2>1. ~ (m < n) /\ m \in Nat /\ n \in Nat
    BY <1>2, <1>3, <1>4
  <2>2. QED
    BY <2>1
<1>5. QED
  BY <1>4

\* The sort leaves nothing to chance but candidates of one id, so any of the
\* least ones names the victim.
LEMMA AnyLeastIsTheVictim ==
  ASSUME NEW n \in Nat, NEW listed, DOMAIN listed = 1 .. n,
         \A i \in 1 .. n : listed[i] \in Candidate,
         NEW i \in Least(listed)
  PROVE  Victim(listed) = {listed[i].id}
<1>1. Least(listed) \subseteq Readers(listed) /\ Readers(listed) \subseteq 1 .. n
  BY DEF Least, Readers
<1>2. ASSUME NEW j \in Least(listed) PROVE listed[j].id = listed[i].id
  <2>1. ~ Precedes(listed[j], listed[i]) /\ ~ Precedes(listed[i], listed[j])
    BY <1>1 DEF Least
  <2>2. /\ listed[i].priority \in Int /\ listed[i].score \in Nat
        /\ listed[i].started \in Nat /\ listed[i].id \in Nat
        /\ listed[j].priority \in Int /\ listed[j].score \in Nat
        /\ listed[j].started \in Nat /\ listed[j].id \in Nat
    BY <1>1 DEF Candidate
  <2>3. QED
    BY <2>1, <2>2 DEF Precedes
<1>3. PICK first \in Least(listed) : \A j \in Least(listed) : first <= j
  BY <1>1, FirstOf
<1>4. Victim(listed) =
        {listed[k].id : k \in {m \in Least(listed) : \A j \in Least(listed) : m <= j}}
  BY DEF Victim, Least, Readers
<1>5. QED
  BY <1>2, <1>3, <1>4

LEMMA VictimIsLeast ==
  ASSUME NEW listed, Victim(listed) # {}
  PROVE  Least(listed) # {}
BY DEF Victim, Least, Readers

\* A listing in another order has the same victim.
LEMMA OrderIsIgnored ==
  ASSUME NEW listed \in Seq(Candidate), Victim(listed) # {},
         NEW order \in [DOMAIN listed -> DOMAIN listed],
         \A i, j \in DOMAIN listed : order[i] = order[j] => i = j
  PROVE  Victim([i \in DOMAIN listed |-> listed[order[i]]]) = Victim(listed)
<1> DEFINE n == Len(listed)
           D == 1 .. n
           other == [i \in DOMAIN listed |-> listed[order[i]]]
<1>1. n \in Nat /\ DOMAIN listed = D /\ \A i \in D : listed[i] \in Candidate
  OBVIOUS
<1>2. order \in [D -> D]
  BY <1>1
<1>3. \A k \in D : \E i \in D : order[i] = k
  <2>1. order \in Injection(D, D)
    BY <1>1, <1>2 DEF Injection, IsInjective
  <2>2. IsFiniteSet(D)
    BY <1>1, FS_Interval
  <2>3. order \in Surjection(D, D)
    BY <2>1, <2>2, FS_Injection
  <2>4. QED
    BY <2>3 DEF Surjection
<1>4. DOMAIN other = D /\ \A i \in D : other[i] = listed[order[i]] /\ order[i] \in D
  BY <1>1, <1>2
<1>5. \A i \in D : other[i] \in Candidate
  BY <1>1, <1>4
<1> HIDE DEF n, other
<1>6. PICK l \in Least(listed) : TRUE
  BY VictimIsLeast
<1>7. l \in D
  BY <1>1, <1>6 DEF Least, Readers
<1>8. PICK i \in D : order[i] = l
  BY <1>3, <1>7
<1>9. i \in Least(other)
  <2>1. i \in Readers(other)
    BY <1>4, <1>6, <1>8 DEF Least, Readers
  <2>2. ASSUME NEW j \in Readers(other) PROVE ~ Precedes(other[j], other[i])
    <3>1. j \in D /\ order[j] \in Readers(listed)
      BY <1>1, <1>4 DEF Readers
    <3>2. QED
      BY <1>4, <1>6, <1>8, <3>1 DEF Least
  <2>3. QED
    BY <2>1, <2>2 DEF Least
<1>10. Victim(listed) = {listed[l].id}
  BY <1>1, <1>6, AnyLeastIsTheVictim
<1>11. Victim(other) = {other[i].id}
  BY <1>1, <1>4, <1>5, <1>9, AnyLeastIsTheVictim
<1>12. QED
  BY <1>4, <1>8, <1>10, <1>11 DEF other

\* The victim is the one of the listing that the governor was given last.
VictimOfHelpers == victim # {} => victim = Victim(helpers)

LEMMA VictimStep == IInv /\ VictimOfHelpers /\ [Next]_vars => VictimOfHelpers'
<1> SUFFICES ASSUME IInv, VictimOfHelpers, [Next]_vars PROVE VictimOfHelpers'
  OBVIOUS
<1>1. ASSUME NEW c \in Counter, Count(c) PROVE VictimOfHelpers'
  BY <1>1 DEF Count, VictimOfHelpers
<1>2. ASSUME NEW read \in Readings, NEW listed \in Listings, NEW attached \in BOOLEAN,
             Sample(read, listed, attached)
      PROVE  VictimOfHelpers'
  <2>1. helpers' = listed /\ Observe(Kind(Raw(read)), listed)
    BY <1>2 DEF Sample
  <2>2. victim' = {} \/ victim' = Victim(listed)
    BY <2>1 DEF Observe, Terminal, Pressure, SustainedPressure, ClearSample, Release
  <2>3. QED
    BY <2>1, <2>2 DEF VictimOfHelpers
<1>3. CASE UNCHANGED vars
  BY <1>3 DEF vars, VictimOfHelpers
<1>4. QED
  BY <1>1, <1>2, <1>3 DEF Next

\* The helper that is cancelled is named by the candidates themselves, whatever
\* the order the registry's map gave them in.
THEOREM VictimIsDetermined == Spec => []VictimIgnoresOrder
<1>1. Init => VictimOfHelpers
  BY DEF Init, VictimOfHelpers
<1>2. IInv /\ VictimOfHelpers => VictimIgnoresOrder
  <2> SUFFICES ASSUME IInv, VictimOfHelpers, victim # {},
                      NEW order \in [DOMAIN helpers -> DOMAIN helpers],
                      \A i, j \in DOMAIN helpers : order[i] = order[j] => i = j
               PROVE  Victim([i \in DOMAIN helpers |-> helpers[order[i]]]) = victim
    BY DEF VictimIgnoresOrder
  <2>1. helpers \in Seq(Candidate) /\ victim = Victim(helpers)
    BY ConstantsAssumption DEF IInv, TypeOK, VictimOfHelpers
  <2>2. QED
    BY <2>1, OrderIsIgnored
<1>3. QED
  BY <1>1, <1>2, InitialState, Step, VictimStep, PTL DEF Spec

-----------------------------------------------------------------------------
\* SpawnManager

\* What From<&SpawnConfig> leaves of a configuration fits the counters.
PolicyFits ==
  /\ policy.children <= MaxCount
  /\ policy.total <= MaxTokens /\ policy.input <= MaxTokens /\ policy.output <= MaxTokens

\* The snapshot is what the children that were spawned add up to.
BudgetCounts ==
  /\ budget.started = initial.started + Len(children)
  /\ children # <<>> => budget.started <= policy.children
  /\ policy.total < MaxTokens =>
       /\ budget.input = initial.input + Len(children) * policy.input
       /\ children # <<>> => budget.input <= policy.total

WriterIsNoted ==
  /\ initial.writer => budget.writer
  /\ Spawns!Writers # {} => budget.writer
  /\ ~ policy.writers => \A i, j \in Spawns!Writers : i = j
  /\ ~ policy.writers /\ initial.writer => Spawns!Writers = {}
  /\ \A i \in Spawns!Writers : Spawns!IsWriter(children[i].request)

PressureHolds ==
  /\ budget.pressure = initial.pressure
  /\ Spawns!NoHelperUnderPressure

PlanInv == Spawns!TypeOK /\ PolicyFits /\ BudgetCounts /\ WriterIsNoted /\ PressureHolds

LEMMA PlusIsBounded ==
  ASSUME NEW a \in Nat, NEW b \in Nat, NEW max \in Nat
  PROVE  /\ Spawns!Plus(a, b, max) \in 0 .. max
         /\ Spawns!Plus(a, b, max) < max => Spawns!Plus(a, b, max) = a + b
         /\ a < max => Spawns!Plus(a, 1, max) = a + 1
  BY DEF Spawns!Plus, Spawns!Least

LEMMA PolicyOfConfig ==
  ASSUME NEW c \in Configs
  PROVE  /\ Spawns!PolicyOf(c) \in Spawns!Policy
         /\ Spawns!PolicyOf(c).children <= MaxCount
         /\ Spawns!PolicyOf(c).total <= MaxTokens
         /\ Spawns!PolicyOf(c).input <= MaxTokens
         /\ Spawns!PolicyOf(c).output <= MaxTokens
<1>1. c \in Spawns!Policy /\ MaxCount \in Nat
  BY SpawnAssumption DEF Spawns!ConstantsAssumption
<1>2. /\ Spawns!Least(c.children, MaxCount) \in Nat
      /\ Spawns!Least(c.children, MaxCount) <= MaxCount
      /\ Spawns!Least(IF c.writers THEN c.depth ELSE Spawns!Least(c.depth, 1), MaxCount) \in Nat
  BY <1>1 DEF Spawns!Policy, Spawns!Least
<1>3. Spawns!PolicyOf(c) \in Spawns!Policy
  BY <1>1, <1>2 DEF Spawns!PolicyOf, Spawns!Policy
<1>4. /\ Spawns!PolicyOf(c).children = Spawns!Least(c.children, MaxCount)
      /\ Spawns!PolicyOf(c).total = c.total /\ Spawns!PolicyOf(c).input = c.input
      /\ Spawns!PolicyOf(c).output = c.output
  BY <1>1 DEF Spawns!PolicyOf, Spawns!Policy
<1>5. QED
  BY <1>2, <1>3, <1>4, SpawnAssumption DEF Spawns!ConstantsAssumption

LEMMA PlanStarts == Spawns!Init => PlanInv
<1> SUFFICES ASSUME Spawns!Init PROVE PlanInv
  OBVIOUS
<1>1. PICK c \in Configs : policy = Spawns!PolicyOf(c)
  BY DEF Spawns!Init
<1>2. policy \in Spawns!Policy /\ PolicyFits
  BY <1>1, PolicyOfConfig DEF PolicyFits
<1>3. initial \in Spawns!Budget /\ budget = initial /\ children = <<>> /\ decisions = <<>>
  BY SpawnAssumption DEF Spawns!ConstantsAssumption, Spawns!Init
<1>4. Spawns!TypeOK
  BY <1>2, <1>3 DEF Spawns!TypeOK
<1>5. BudgetCounts
  BY <1>2, <1>3 DEF BudgetCounts, Spawns!Budget, Spawns!Policy
<1>6. WriterIsNoted /\ PressureHolds
  BY <1>3 DEF WriterIsNoted, PressureHolds, Spawns!Writers, Spawns!NoHelperUnderPressure
<1>7. QED
  BY <1>2, <1>4, <1>5, <1>6 DEF PlanInv

LEMMA ReasonIsTyped ==
  ASSUME NEW request, NEW b
  PROVE  /\ Spawns!Reason(request, b) \in Spawns!Reasons
         /\ Spawns!Reason(request, b) = "allowed" => Spawns!Failed(request, b) = {}
<1>1. CASE Spawns!Failed(request, b) = {}
  BY <1>1 DEF Spawns!Reason, Spawns!Reasons
<1>2. CASE Spawns!Failed(request, b) # {}
  <2> DEFINE First(i) == /\ Spawns!Checks[i] \in Spawns!Failed(request, b)
                         /\ \A j \in 1 .. i - 1 : Spawns!Checks[j] \notin Spawns!Failed(request, b)
  <2>1. DOMAIN Spawns!Checks = 1 .. 8
    BY DEF Spawns!Checks
  <2>2. PICK r \in Spawns!Failed(request, b) : TRUE
    BY <1>2
  <2>3. r \in Spawns!Reasons /\ r # "allowed"
    BY <2>2 DEF Spawns!Failed, Spawns!Fails
  <2>4. PICK k \in 1 .. 8 : Spawns!Checks[k] \in Spawns!Failed(request, b)
    BY <2>1, <2>2, <2>3 DEF Spawns!Reasons
  <2>5. \E i \in 1 .. 8 : First(i)
    <3>1. \/ First(1) \/ First(2) \/ First(3) \/ First(4)
          \/ First(5) \/ First(6) \/ First(7) \/ First(8)
      BY <2>4
    <3>2. QED
      BY <3>1
  <2>6. PICK i \in DOMAIN Spawns!Checks : i = (CHOOSE n \in DOMAIN Spawns!Checks : First(n)) /\ First(i)
    BY <2>1, <2>5
  <2>7. Spawns!Reason(request, b) = Spawns!Checks[i]
    BY <1>2, <2>6 DEF Spawns!Reason
  <2>8. Spawns!Checks[i] # "allowed" /\ Spawns!Checks[i] \in Spawns!Reasons
    BY <2>6 DEF Spawns!Checks, Spawns!Reasons
  <2>9. QED
    BY <2>7, <2>8
<1>3. QED
  BY <1>1, <1>2

\* What spawning a child changes, once it was allowed.
LEMMA SpawnStep ==
  ASSUME PlanInv, NEW request \in Spawns!Request, Spawns!Spawn(request)
  PROVE  /\ budget' \in Spawns!Budget
         /\ children' \in Seq([request : Spawns!Request, index : Nat \ {0}])
         /\ Spawns!Failed(request, budget) = {}
         /\ budget.started < policy.children
         /\ budget'.started = budget.started + 1
         /\ budget'.pressure = budget.pressure
         /\ budget'.writer = (budget.writer \/ Spawns!Writes(request))
         /\ policy.total < MaxTokens =>
              budget'.input = budget.input + policy.input /\ budget'.input <= policy.total
<1> USE SpawnAssumption DEF Spawns!ConstantsAssumption, PlanInv, Spawns!TypeOK, PolicyFits
<1>1. Spawns!Failed(request, budget) = {}
  BY ReasonIsTyped DEF Spawns!Spawn
<1>2. \A r \in Spawns!Reasons : ~ Spawns!Fails(r, request, budget)
  BY <1>1 DEF Spawns!Failed
<1>3. "max_children_reached" \in Spawns!Reasons /\ "budget_exhausted" \in Spawns!Reasons
  BY DEF Spawns!Reasons, Spawns!Checks
<1>4. ~ (budget.started >= policy.children)
  BY <1>2, <1>3 DEF Spawns!Fails
<1>5. ~ Spawns!Exceeds(budget)
  BY <1>2, <1>3 DEF Spawns!Fails
<1>6. /\ budget.started \in 0 .. MaxCount /\ budget.active \in 0 .. MaxCount
      /\ budget.input \in 0 .. MaxTokens /\ budget.output \in 0 .. MaxTokens
      /\ budget.writer \in BOOLEAN
      /\ policy.children \in Nat /\ policy.input \in Nat /\ policy.output \in Nat
      /\ policy.total \in Nat
  BY DEF Spawns!Budget, Spawns!Policy
<1>7. /\ Spawns!Plus(budget.started, 1, MaxCount) = budget.started + 1
      /\ Spawns!Plus(budget.started, 1, MaxCount) \in 0 .. MaxCount
      /\ Spawns!Plus(budget.active, 1, MaxCount) \in 0 .. MaxCount
      /\ Spawns!Plus(budget.input, policy.input, MaxTokens) \in 0 .. MaxTokens
      /\ Spawns!Plus(budget.output, policy.output, MaxTokens) \in 0 .. MaxTokens
  <2>1. /\ budget.started \in Nat /\ budget.active \in Nat
        /\ budget.input \in Nat /\ budget.output \in Nat
        /\ 1 \in Nat /\ MaxCount \in Nat /\ MaxTokens \in Nat
        /\ budget.started < MaxCount
    BY <1>4, <1>6
  <2>2. /\ Spawns!Plus(budget.started, 1, MaxCount) \in 0 .. MaxCount
        /\ Spawns!Plus(budget.active, 1, MaxCount) \in 0 .. MaxCount
    BY <2>1, PlusIsBounded
  <2>3. Spawns!Plus(budget.started, 1, MaxCount) = budget.started + 1
    BY <2>1, PlusIsBounded
  <2>4. Spawns!Plus(budget.input, policy.input, MaxTokens) \in 0 .. MaxTokens
    BY <1>6, <2>1, PlusIsBounded
  <2>5. Spawns!Plus(budget.output, policy.output, MaxTokens) \in 0 .. MaxTokens
    BY <1>6, <2>1, PlusIsBounded
  <2>6. QED
    BY <2>2, <2>3, <2>4, <2>5
<1>8. budget' = Spawns!Spent(request, budget)
  BY DEF Spawns!Spawn
<1>9. (budget.writer \/ Spawns!Writes(request)) \in BOOLEAN
  BY <1>6, Zenon DEF Spawns!Writes
<1>10. budget' \in Spawns!Budget
  BY <1>7, <1>8, <1>9 DEF Spawns!Spent, Spawns!Budget
<1>11. /\ budget'.started = Spawns!Plus(budget.started, 1, MaxCount)
       /\ budget'.input = Spawns!Plus(budget.input, policy.input, MaxTokens)
       /\ budget'.pressure = budget.pressure
       /\ budget'.writer = (budget.writer \/ Spawns!Writes(request))
  BY <1>8 DEF Spawns!Spent, Spawns!Budget
<1>12. ASSUME policy.total < MaxTokens
       PROVE  budget'.input = budget.input + policy.input /\ budget'.input <= policy.total
  <2>1. Spawns!Plus(budget.input, policy.input, MaxTokens) <= policy.total
    BY <1>5, <1>6, <1>7 DEF Spawns!Exceeds
  <2>2. Spawns!Plus(budget.input, policy.input, MaxTokens) < MaxTokens
    BY <1>6, <1>7, <1>12, <2>1
  <2>3. Spawns!Plus(budget.input, policy.input, MaxTokens) = budget.input + policy.input
    BY <1>6, <2>2, PlusIsBounded DEF Spawns!Plus, Spawns!Least
  <2>4. QED
    BY <1>11, <2>1, <2>3
<1>13. children' \in Seq([request : Spawns!Request, index : Nat \ {0}])
  <2>1. Len(decisions) + 1 \in Nat \ {0}
    OBVIOUS
  <2>2. [request |-> request, index |-> Len(decisions) + 1]
          \in [request : Spawns!Request, index : Nat \ {0}]
    BY <2>1
  <2>3. QED
    BY <2>2 DEF Spawns!Spawn
<1>14. QED
  BY <1>1, <1>4, <1>6, <1>7, <1>10, <1>11, <1>12, <1>13

\* One more child of a certain size.
LEMMA OneMore ==
  ASSUME NEW a \in Int, NEW n \in Nat, NEW k \in Nat
  PROVE  a + n * k + k = a + (n + 1) * k
  OBVIOUS

LEMMA DecideStep ==
  ASSUME PlanInv, NEW request \in Spawns!Request, Spawns!Decide(request)
  PROVE  PlanInv'
<1> USE DEF PlanInv
<1>1. UNCHANGED <<policy, initial>>
  BY DEF Spawns!Decide
<1>2. decisions' \in Seq([request : Spawns!Request, reason : Spawns!Reasons])
  <2>1. [request |-> request, reason |-> Spawns!Reason(request, budget)]
          \in [request : Spawns!Request, reason : Spawns!Reasons]
    BY ReasonIsTyped
  <2>2. QED
    BY <2>1 DEF Spawns!Decide, Spawns!TypeOK
<1>3. CASE Spawns!Skip(request)
  <2>1. UNCHANGED <<budget, children>>
    BY <1>3 DEF Spawns!Skip
  <2>2. Spawns!TypeOK' /\ PolicyFits'
    BY <1>1, <1>2, <2>1 DEF Spawns!TypeOK, PolicyFits
  <2>3. BudgetCounts' /\ WriterIsNoted' /\ PressureHolds'
    BY <1>1, <2>1 DEF BudgetCounts, WriterIsNoted, PressureHolds, Spawns!NoHelperUnderPressure, Spawns!Writers
  <2>4. QED
    BY <2>2, <2>3
<1>4. CASE Spawns!Spawn(request)
  <2> DEFINE n == Len(children)
             child == [request |-> request, index |-> Len(decisions) + 1]
  <2>1. /\ budget' \in Spawns!Budget
        /\ children' \in Seq([request : Spawns!Request, index : Nat \ {0}])
        /\ Spawns!Failed(request, budget) = {}
        /\ budget.started < policy.children
        /\ budget'.started = budget.started + 1
        /\ budget'.pressure = budget.pressure
        /\ budget'.writer = (budget.writer \/ Spawns!Writes(request))
        /\ policy.total < MaxTokens =>
             budget'.input = budget.input + policy.input /\ budget'.input <= policy.total
    BY <1>4, SpawnStep
  <2>2. /\ n \in Nat
        /\ children' = Append(children, child)
        /\ Len(children') = n + 1
        /\ DOMAIN children = 1 .. n /\ DOMAIN children' = 1 .. n + 1
        /\ children'[n + 1].request = request
        /\ \A i \in 1 .. n : children'[i] = children[i]
    BY <1>4 DEF Spawns!Spawn, Spawns!TypeOK
  <2>3. Spawns!TypeOK' /\ PolicyFits'
    BY <1>1, <1>2, <2>1 DEF Spawns!TypeOK, PolicyFits
  <2>4. BudgetCounts'
    <3>1. /\ budget.started \in Nat /\ initial.started \in Nat /\ initial.input \in Nat
          /\ policy.children \in Nat /\ policy.input \in Nat
      BY DEF Spawns!TypeOK, Spawns!Budget, Spawns!Policy
    <3>2. budget'.started = initial'.started + Len(children') /\ budget'.started <= policy'.children
      <4>1. budget.started = initial.started + n
        BY DEF BudgetCounts
      <4>2. budget.started + 1 = initial.started + (n + 1) /\ budget.started + 1 <= policy.children
        <5> HIDE DEF n
        <5>1. n \in Nat /\ budget.started < policy.children
          BY <2>1, <2>2
        <5>2. QED
          BY <3>1, <4>1, <5>1
      <4>3. QED
        BY <1>1, <2>1, <2>2, <4>2
    <3>3. ASSUME policy'.total < MaxTokens
          PROVE  budget'.input = initial'.input + Len(children') * policy'.input
      <4>1. budget'.input = budget.input + policy.input
            /\ budget.input = initial.input + n * policy.input
        BY <1>1, <2>1, <3>3 DEF BudgetCounts
      <4>2. initial.input + n * policy.input + policy.input = initial.input + (n + 1) * policy.input
        <5>1. ASSUME NEW k \in Nat, NEW m \in Nat, NEW a \in Nat
              PROVE  a + m * k + k = a + (m + 1) * k
          BY OneMore
        <5>2. QED
          BY <2>2, <3>1, <5>1
      <4>3. QED
        BY <1>1, <2>2, <4>1, <4>2
    <3>4. QED
      BY <1>1, <2>1, <3>2, <3>3 DEF BudgetCounts
  <2>5. \A reason \in Spawns!Reasons : ~ Spawns!Fails(reason, request, budget)
    BY <2>1 DEF Spawns!Failed
  <2>6. {"scope_not_enforceable", "writer_already_active", "memory_pressure"} \subseteq Spawns!Reasons
    BY DEF Spawns!Reasons, Spawns!Checks
  <2>7. WriterIsNoted'
    <3>1. Spawns!Writers' = IF Spawns!Writes(request) THEN Spawns!Writers \cup {n + 1} ELSE Spawns!Writers
      BY <2>2 DEF Spawns!Writers
    <3>2. Spawns!Writers \subseteq 1 .. n
      BY <2>2 DEF Spawns!Writers
    <3>3. Spawns!Writes(request) => Spawns!IsWriter(request)
      BY <2>5, <2>6 DEF Spawns!Fails
    <3>4. Spawns!Writes(request) /\ ~ policy.writers => ~ budget.writer
      BY <2>5, <2>6 DEF Spawns!Fails
    <3>5. Spawns!Writes(request) /\ ~ policy.writers => Spawns!Writers = {} /\ ~ initial.writer
      BY <3>4 DEF WriterIsNoted
    <3>6. \A i \in Spawns!Writers' : Spawns!IsWriter(children'[i].request)
      BY <2>2, <3>1, <3>2, <3>3 DEF WriterIsNoted
    <3>7. /\ initial'.writer => budget'.writer
          /\ Spawns!Writers' # {} => budget'.writer
      <4>1. budget'.writer = (budget.writer \/ Spawns!Writes(request)) /\ initial' = initial
        BY <1>1, <2>1
      <4>2. CASE Spawns!Writes(request)
        BY <4>1, <4>2, Zenon
      <4>3. CASE ~ Spawns!Writes(request)
        <5>1. Spawns!Writers' = Spawns!Writers
          BY <3>1, <4>3
        <5>2. QED
          BY <4>1, <5>1, Zenon DEF WriterIsNoted
      <4>4. QED
        BY <4>2, <4>3, Zenon
    <3>8. ASSUME ~ policy'.writers
          PROVE  /\ \A i, j \in Spawns!Writers' : i = j
                 /\ initial'.writer => Spawns!Writers' = {}
      BY <1>1, <3>1, <3>5, <3>8 DEF WriterIsNoted
    <3>9. QED
      BY <3>6, <3>7, <3>8, Zenon DEF WriterIsNoted
  <2>8. PressureHolds'
    <3>1. initial.pressure /\ policy.pause => Spawns!IsWriter(request)
      BY <2>5, <2>6 DEF Spawns!Fails, PressureHolds
    <3>2. ASSUME initial'.pressure, policy'.pause, NEW i \in 1 .. n + 1
          PROVE  Spawns!IsWriter(children'[i].request)
      <4>1. CASE i \in 1 .. n
        BY <1>1, <2>2, <3>2, <4>1 DEF PressureHolds, Spawns!NoHelperUnderPressure
      <4>2. CASE i = n + 1
        BY <1>1, <2>2, <3>1, <3>2, <4>2
      <4>3. QED
        BY <2>2, <4>1, <4>2
    <3>3. QED
      BY <1>1, <2>1, <2>2, <3>2 DEF PressureHolds, Spawns!NoHelperUnderPressure
  <2>9. QED
    BY <2>3, <2>4, <2>7, <2>8
<1>5. QED
  BY <1>3, <1>4 DEF Spawns!Decide

LEMMA PlanStep == PlanInv /\ [Spawns!Next]_Spawns!vars => PlanInv'
<1> SUFFICES ASSUME PlanInv, [Spawns!Next]_Spawns!vars PROVE PlanInv'
  OBVIOUS
<1>1. CASE Spawns!Next
  BY <1>1, DecideStep, SpawnAssumption DEF Spawns!ConstantsAssumption, Spawns!Next
<1>2. CASE UNCHANGED Spawns!vars
  BY <1>2 DEF Spawns!vars, PlanInv, Spawns!TypeOK, PolicyFits, BudgetCounts, WriterIsNoted, PressureHolds,
              Spawns!NoHelperUnderPressure, Spawns!Writers
<1>3. QED
  BY <1>1, <1>2

\* The budget stays within the widths of its counters, whatever is asked for.
THEOREM PlansAreTyped == Spawns!Spec => []Spawns!TypeOK
<1>1. PlanInv => Spawns!TypeOK
  BY DEF PlanInv
<1>2. QED
  BY <1>1, PlanStarts, PlanStep, PTL DEF Spawns!Spec

\* No plan has more children than the policy allows, and none is uncounted.
THEOREM ChildCap == Spawns!Spec => []Spawns!ChildrenAreCapped
<1>1. PlanInv => Spawns!ChildrenAreCapped
  BY DEF PlanInv, BudgetCounts, Spawns!ChildrenAreCapped
<1>2. QED
  BY <1>1, PlanStarts, PlanStep, PTL DEF Spawns!Spec

\* The tokens granted add up to at most the total, in unbounded arithmetic.
THEOREM TokenCap == HelpersSpec => []TokensAreCapped
<1>1. HelpersInit => PlanInv
  BY PlanStarts DEF HelpersInit
<1>2. PlanInv /\ [HelpersNext]_<<part, vars, planVars>> => PlanInv'
  <2>1. [HelpersNext]_<<part, vars, planVars>> => [Spawns!Next]_Spawns!vars
    BY DEF HelpersNext, planVars, Spawns!vars
  <2>2. QED
    BY <2>1, PlanStep
<1>3. PlanInv => TokensAreCapped
  BY DEF PlanInv, BudgetCounts, TokensAreCapped, Spawns!TokensAreCapped
<1>4. QED
  BY <1>1, <1>2, <1>3, PTL DEF HelpersSpec

\* At most one child writes, and it is an Implementer.
THEOREM SingleWriter == Spawns!Spec => []Spawns!OneWriter
<1>1. PlanInv => Spawns!OneWriter
  BY DEF PlanInv, WriterIsNoted, Spawns!OneWriter
<1>2. QED
  BY <1>1, PlanStarts, PlanStep, PTL DEF Spawns!Spec

\* No helper is spawned under memory pressure.
THEOREM PressurePausesHelpers == Spawns!Spec => []Spawns!NoHelperUnderPressure
<1>1. PlanInv => Spawns!NoHelperUnderPressure
  BY DEF PlanInv, PressureHolds
<1>2. QED
  BY <1>1, PlanStarts, PlanStep, PTL DEF Spawns!Spec
=============================================================================
