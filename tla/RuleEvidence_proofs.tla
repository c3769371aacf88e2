------------------------- MODULE RuleEvidence_proofs -------------------------
(***************************************************************************)
(* Theorems about the verdicts of unused_rules, for any rules, length of   *)
(* an hour, window, look-back of the rollup and age of a counter.          *)
(***************************************************************************)
EXTENDS RuleEvidence, FiniteSetTheorems, WellFoundedInduction, TLAPS

----------------------------------------------------------------------------
(* Arithmetic of hours.                                                    *)

\* A tick lies in its hour.
LEMMA HourBounds ==
    ASSUME NEW t \in Nat
    PROVE  Hour(t) \in Nat /\ StartOf(Hour(t)) <= t /\ t < StartOf(Hour(t)) + HourTicks
BY EvidenceAssumption DEF Hour, StartOf

\* A later tick does not lie in an earlier hour.
LEMMA HourMonotone ==
    ASSUME NEW t \in Nat, NEW u \in Nat, t <= u
    PROVE  Hour(t) <= Hour(u)
BY EvidenceAssumption DEF Hour

\* A tick from an hour's start on lies in that hour or later.
LEMMA HourFrom ==
    ASSUME NEW t \in Nat, NEW h \in Nat, StartOf(h) <= t
    PROVE  h <= Hour(t)
<1> USE EvidenceAssumption
<1>1. Hour(t) \in Nat /\ t < StartOf(Hour(t)) + HourTicks
    BY HourBounds
<1>2. h * HourTicks < (Hour(t) + 1) * HourTicks
    BY <1>1 DEF StartOf
<1> QED BY <1>1, <1>2

\* A tick up to an hour's start lies in that hour or earlier.
LEMMA HourUpTo ==
    ASSUME NEW t \in Nat, NEW h \in Nat, t <= StartOf(h)
    PROVE  Hour(t) <= h
<1> USE EvidenceAssumption
<1>1. Hour(t) \in Nat /\ StartOf(Hour(t)) <= t
    BY HourBounds
<1>2. Hour(t) * HourTicks <= h * HourTicks
    BY <1>1 DEF StartOf
<1> QED BY <1>1, <1>2

\* A set of naturals has a least element.
LEMMA LeastNatural ==
    ASSUME NEW T, T \subseteq Nat, T # {}
    PROVE  \E x \in T : \A y \in T : x <= y
<1>1. PICK x \in T : \A y \in T : ~(<<y, x>> \in OpToRel(<, Nat))
    BY NatLessThanWellFounded, WFMin
<1>2. \A y \in T : ~(y < x)
    BY <1>1 DEF OpToRel
<1> QED BY <1>2

LEMMA MinOfNaturals ==
    ASSUME NEW T, T \subseteq Nat, T # {}
    PROVE  Min(T) \in T
BY LeastNatural, Zenon DEF Min

\* A bounded one has a greatest.
LEMMA MaxOfNaturals ==
    ASSUME NEW N \in Nat, NEW T, T \subseteq 0..N, T # {}
    PROVE  Max(T) \in T
<1> DEFINE D == {N - t : t \in T}
<1>1. D \subseteq Nat /\ D # {}
    <2>1. \A t \in T : N - t \in Nat
        OBVIOUS
    <2> QED BY <2>1, Zenon
<1> HIDE DEF D
<1>2. PICK z \in D : \A y \in D : z <= y
    BY <1>1, LeastNatural
<1> USE DEF D
<1>3. PICK x \in T : z = N - x
    BY <1>2
<1>4. ASSUME NEW y \in T PROVE x >= y
    <2>1. N - y \in D
        OBVIOUS
    <2>2. z <= N - y
        BY <1>2, <2>1, Zenon
    <2>3. x \in 0..N /\ y \in 0..N
        OBVIOUS
    <2> HIDE DEF D
    <2> QED BY <1>3, <2>2, <2>3
<1> QED BY <1>4, Zenon DEF Max

----------------------------------------------------------------------------
(* Counting matches.                                                       *)

\* The matches of a rule, counted: none only if there is none, never more than
\* there are matches, and no fewer when matches come.
LEMMA Counting ==
    ASSUME NEW S, IsFiniteSet(S), NEW T \in SUBSET S
    PROVE  /\ IsFiniteSet(T) /\ Cardinality(T) \in Nat /\ Cardinality(T) <= Cardinality(S)
           /\ T # {} => Cardinality(T) >= 1
<1>1. IsFiniteSet(T) /\ Cardinality(T) <= Cardinality(S) /\ Cardinality(T) \in Nat
    BY FS_Subset, FS_CardinalityType
<1>2. T # {} => Cardinality(T) # 0
    BY <1>1, FS_EmptySet
<1> QED BY <1>1, <1>2

----------------------------------------------------------------------------
(* The inductive invariant.                                                *)

Counter == [hits : (-1)..MaxMatches, at : 0..MaxClock]

\* The shape of the records and what is past.
Shape ==
    /\ IsFiniteSet(matches) /\ Cardinality(matches) <= MaxMatches
    /\ \A m \in matches : m.ts <= clock
    /\ punctual \subseteq logged
    /\ rolled \subseteq Nat /\ rollup.hours \subseteq Nat
    /\ entities \in [Rules -> Counter]
    /\ collector.at \in 0..clock
    /\ collector.stage = "write" => collector.hits \in [Rules -> (-1)..MaxMatches]
    /\ question = [stage |-> question.stage, since |-> question.since, until |-> question.until,
                   seen |-> question.seen, covered |-> question.covered]
    /\ question.since \in Int /\ question.until \in 0..clock
    /\ question.stage # "idle" => question.seen \in [Rules -> Counter]
    /\ question.stage # "idle" => \A r \in Rules : question.seen[r].at <= clock
    /\ \A r \in Rules : verdict[r] = "unused" => question.stage = "idle"

SessionsOf(S, k) == {m \in S : m.rule = k[1] /\ Hour(m.ts) = k[2]}
SessionsIn(k) == SessionsOf(logged, k)

\* A row of a pass, or of the table, is of an hour that is over, and holds at
\* least one session and no more than there were.
RowSound(rows, hours) ==
    \A k \in DOMAIN rows :
        /\ k \in Rules \X (0..Hour(MaxClock)) /\ k[2] \in hours
        /\ rows[k] \in 1..Cardinality(SessionsIn(k))

\* A punctual match of an hour that was counted has its row.
RowComplete(rows, hours) ==
    \A m \in punctual : Hour(m.ts) \in hours => <<m.rule, Hour(m.ts)>> \in DOMAIN rows

Counted ==
    /\ RowSound(usage, rolled) /\ RowComplete(usage, rolled)
    /\ \A h \in rolled : h < Hour(clock)
    /\ rollup.stage = "insert" =>
          /\ RowSound(rollup.rows, rollup.hours) /\ RowComplete(rollup.rows, rollup.hours)
          /\ \A h \in rollup.hours : h < Hour(clock)

\* An hour that was passed over is too old for every pass to come.
GapsStay ==
    /\ \A h \in rolled : \A g \in 0..h : g \in rolled \/ g < Hour(clock) - RollupHours
    /\ rollup.stage = "insert" =>
          /\ \A h \in rollup.hours : \A g \in 0..h :
                g \in rollup.hours \/ g < Hour(clock) - RollupHours
          /\ \A h \in rolled : \A g \in 0..h : g \in rolled \/ g \notin rollup.hours

\* A counter that was read counts the matches before the time it carries,
\* unless it was reset since.
CountsSince(hits, at, r) ==
    hits # Absent => \A m \in counted : m.rule = r /\ m.ts < at => hits > 0

CountersSound ==
    /\ \A r \in Rules : CountsSince(entities[r].hits, entities[r].at, r)
    /\ collector.stage = "write" =>
          \A r \in Rules : CountsSince(collector.hits[r], collector.at, r)
    /\ question.stage # "idle" =>
          \A r \in Rules : CountsSince(question.seen[r].hits, question.seen[r].at, r)

\* A covered question has a counted hour at either end of its window.
Covered ==
    question.stage = "judge" /\ question.covered =>
        \E b, c \in rolled :
            /\ StartOf(b) <= question.since + HourTicks
            /\ StartOf(c) >= question.until - 2 * HourTicks

Inv ==
    /\ TypeOK /\ Shape /\ Counted /\ GapsStay /\ CountersSound /\ Covered
    /\ UnusedBackedByLog /\ UnusedBackedByCounter

----------------------------------------------------------------------------
LEMMA InvInit == Init => Inv
<1> SUFFICES ASSUME Init PROVE Inv
    OBVIOUS
<1> USE EvidenceAssumption DEF Init
<1>0. Hour(MaxClock) \in Nat
    BY HourBounds
<1>1. TypeOK
    BY DEF TypeOK, NoPass, NoCollection, NoQuestion, Absent, Match
<1>2. Shape
    <2>1. IsFiniteSet({}) /\ Cardinality({}) = 0
        BY FS_EmptySet
    <2>2. entities \in [Rules -> Counter]
        BY DEF Counter, Absent
    <2> QED BY <2>1, <2>2 DEF Shape, NoPass, NoCollection, NoQuestion
<1>3. Counted
    BY DEF Counted, RowSound, RowComplete, NoPass
<1>4. GapsStay
    BY DEF GapsStay, NoPass
<1>5. CountersSound
    BY DEF CountersSound, CountsSince, NoCollection, NoQuestion
<1>6. Covered
    BY DEF Covered, NoQuestion
<1>7. UnusedBackedByLog /\ UnusedBackedByCounter
    BY DEF UnusedBackedByLog, UnusedBackedByCounter
<1> QED BY <1>1, <1>2, <1>3, <1>4, <1>5, <1>6, <1>7 DEF Inv

----------------------------------------------------------------------------
(* What a step may do to the matches and the clock.                        *)

\* Logs are only added.
LEMMA Monotone == Inv /\ [Next]_vars =>
    /\ clock <= clock' /\ clock' \in 0..MaxClock
    /\ matches \subseteq matches' /\ logged \subseteq logged'
    /\ rolled \subseteq rolled'
    /\ \A m \in matches' \ matches : m.ts = clock /\ m \in Match
    /\ counted' \ counted \subseteq matches' \ matches
    /\ punctual' \ punctual \subseteq matches' \ matches
    /\ clock' # clock => matches' = matches /\ counted' = counted /\ punctual' = punctual
<1> SUFFICES ASSUME Inv, [Next]_vars
             PROVE  /\ clock <= clock' /\ clock' \in 0..MaxClock
                    /\ matches \subseteq matches' /\ logged \subseteq logged'
                    /\ rolled \subseteq rolled'
                    /\ \A m \in matches' \ matches : m.ts = clock /\ m \in Match
                    /\ counted' \ counted \subseteq matches' \ matches
                    /\ punctual' \ punctual \subseteq matches' \ matches
                    /\ clock' # clock => matches' = matches /\ counted' = counted /\ punctual' = punctual
    OBVIOUS
<1>0. clock \in 0..MaxClock /\ MaxClock \in Nat
    BY EvidenceAssumption DEF Inv, TypeOK
<1>1. CASE RuleMatches
    <2>1. PICK r \in Rules :
              LET m == [ts |-> clock, rule |-> r]
              IN  /\ m \notin matches
                  /\ matches' = matches \cup {m} /\ counted' = counted \cup {m}
                  /\ \/ logged' = logged \cup {m} /\ punctual' = punctual \cup {m}
                     \/ UNCHANGED <<logged, punctual>>
        BY <1>1 DEF RuleMatches
    <2>2. [ts |-> clock, rule |-> r] \in Match
        BY <1>0 DEF Match
    <2> QED BY <1>0, <1>1, <2>1, <2>2 DEF RuleMatches
<1>2. CASE Tick
    BY <1>0, <1>2 DEF Tick, device, history
<1>3. CASE LogArrives
    BY <1>0, <1>3 DEF LogArrives, device, history
<1>4. CASE CountersReset
    BY <1>0, <1>4 DEF CountersReset, history
<1>5. CASE PassInserts
    BY <1>0, <1>5 DEF PassInserts, device
<1>6. CASE PassQueries \/ PassFails
    BY <1>0, <1>6 DEF PassQueries, PassFails, device, history
<1>7. CASE CollectorStarts \/ CollectorReads \/ CollectorWrites \/ CollectorFails
    BY <1>0, <1>7 DEF CollectorStarts, CollectorReads, CollectorWrites, CollectorFails, device, history
<1>8. CASE Ask \/ CheckCoverage \/ Judge
    BY <1>0, <1>8 DEF Ask, CheckCoverage, Judge, device, history
<1>9. CASE UNCHANGED vars
    BY <1>0, <1>9 DEF vars, device, history
<1> QED BY <1>1, <1>2, <1>3, <1>4, <1>5, <1>6, <1>7, <1>8, <1>9 DEF Next

\* Matches stay finite and bounded, and lie in the past.
LEMMA MatchesNext == Inv /\ [Next]_vars =>
    /\ IsFiniteSet(matches') /\ Cardinality(matches') <= MaxMatches
    /\ matches' \subseteq Match /\ counted' \subseteq matches' /\ logged' \subseteq matches'
    /\ punctual' \subseteq logged'
    /\ \A m \in matches' : m.ts <= clock'
<1> SUFFICES ASSUME Inv, [Next]_vars
             PROVE  /\ IsFiniteSet(matches') /\ Cardinality(matches') <= MaxMatches
                    /\ matches' \subseteq Match /\ counted' \subseteq matches' /\ logged' \subseteq matches'
                    /\ punctual' \subseteq logged'
                    /\ \A m \in matches' : m.ts <= clock'
    OBVIOUS
<1> USE DEF Inv, TypeOK, Shape
<1>0. MaxMatches \in Nat /\ MaxClock \in Nat
    BY EvidenceAssumption
<1>1. CASE RuleMatches
    <2>1. PICK r \in Rules :
              LET m == [ts |-> clock, rule |-> r]
              IN  /\ m \notin matches
                  /\ matches' = matches \cup {m} /\ counted' = counted \cup {m}
                  /\ \/ logged' = logged \cup {m} /\ punctual' = punctual \cup {m}
                     \/ UNCHANGED <<logged, punctual>>
        BY <1>1 DEF RuleMatches
    <2>2. Cardinality(matches) < MaxMatches /\ clock' = clock
        BY <1>1 DEF RuleMatches
    <2>3. PICK m : m = [ts |-> clock, rule |-> r]
        OBVIOUS
    <2>4. IsFiniteSet(matches \cup {m}) /\ Cardinality(matches \cup {m}) = Cardinality(matches) + 1
        BY <2>1, <2>3, FS_AddElement
    <2>5. Cardinality(matches) \in Nat
        BY FS_CardinalityType
    <2>6. m \in Match /\ m.ts = clock
        BY <2>3 DEF Match
    <2>7. IsFiniteSet(matches') /\ Cardinality(matches') <= MaxMatches
        BY <1>0, <2>1, <2>2, <2>3, <2>4, <2>5
    <2> QED BY <2>1, <2>2, <2>3, <2>6, <2>7
<1>2. CASE LogArrives
    BY <1>2 DEF LogArrives, device, history
<1>3. CASE ~RuleMatches /\ ~LogArrives
    <2>1. matches' = matches /\ logged' = logged /\ punctual' = punctual /\ counted' \in {counted, {}}
        BY <1>3 DEF Next, Tick, CountersReset, PassQueries, PassInserts, PassFails, CollectorStarts,
                    CollectorReads, CollectorWrites, CollectorFails, Ask, CheckCoverage, Judge,
                    vars, device, history
    <2>2. clock <= clock' /\ clock' \in 0..MaxClock
        BY Monotone DEF Inv, TypeOK
    <2>3. \A m \in matches : m.ts \in 0..MaxClock
        BY DEF Match
    <2> QED BY <1>0, <2>1, <2>2, <2>3
<1> QED BY <1>1, <1>2, <1>3

----------------------------------------------------------------------------
(* The rows of the rollup.                                                 *)

\* The hours a pass counts are complete and as many as it looks back.
LEMMA CompleteHoursAre ==
    ASSUME NEW t \in Nat
    PROVE  /\ CompleteHours(t) \subseteq 0..Hour(t)
           /\ \A h \in CompleteHours(t) : h < Hour(t) /\ h >= Hour(t) - RollupHours
           /\ \A g \in Nat : Hour(t) - RollupHours <= g /\ g < Hour(t) => g \in CompleteHours(t)
BY HourBounds, EvidenceAssumption DEF CompleteHours

\* A row per rule and hour with a log, that holds the number of logs.
LEMMA UsageRowsAre ==
    ASSUME Inv, NEW hours \in SUBSET (0..Hour(MaxClock))
    PROVE  /\ RowSound(UsageRows(hours), hours)
           /\ \A m \in logged : Hour(m.ts) \in hours =>
                 <<m.rule, Hour(m.ts)>> \in DOMAIN UsageRows(hours)
<1> DEFINE K == {<<m.rule, Hour(m.ts)>> : m \in {m \in logged : Hour(m.ts) \in hours}}
<1>1. DOMAIN UsageRows(hours) = K
    BY DEF UsageRows
<1>2. \A m \in logged : Hour(m.ts) \in hours => <<m.rule, Hour(m.ts)>> \in K
    OBVIOUS
<1>3. ASSUME NEW k \in K
      PROVE  /\ k \in Rules \X (0..Hour(MaxClock)) /\ k[2] \in hours
             /\ UsageRows(hours)[k] \in 1..Cardinality(SessionsIn(k))
    <2>1. PICK m \in logged : Hour(m.ts) \in hours /\ k = <<m.rule, Hour(m.ts)>>
        BY <1>3
    <2>2. m.rule \in Rules
        BY DEF Inv, TypeOK, Match
    <2>3. UsageRows(hours)[k] = Cardinality(SessionsIn(k))
        BY <1>1 DEF UsageRows, SessionsIn, SessionsOf
    <2>4. SessionsIn(k) \subseteq logged /\ m \in SessionsIn(k)
        BY <2>1 DEF SessionsIn, SessionsOf
    <2>5. logged \subseteq matches /\ IsFiniteSet(matches)
        BY DEF Inv, TypeOK, Shape
    <2>6. Cardinality(SessionsIn(k)) \in Nat /\ Cardinality(SessionsIn(k)) >= 1
        BY <2>4, <2>5, Counting
    <2>7. k \in Rules \X (0..Hour(MaxClock)) /\ k[2] \in hours
        BY <2>1, <2>2
    <2>8. Cardinality(SessionsIn(k)) \in 1..Cardinality(SessionsIn(k))
        BY <2>6
    <2> QED BY <2>3, <2>7, <2>8
<1> HIDE DEF K
<1> QED BY <1>1, <1>2, <1>3 DEF RowSound

\* A row that was sound stays so while logs are added.
LEMMA SessionsGrow ==
    ASSUME NEW S, NEW T, S \subseteq T, IsFiniteSet(T), NEW k,
           NEW n \in 1..Cardinality(SessionsOf(S, k))
    PROVE  n \in 1..Cardinality(SessionsOf(T, k))
<1>1. SessionsOf(S, k) \subseteq SessionsOf(T, k) /\ SessionsOf(T, k) \subseteq T
    BY DEF SessionsOf
<1>2. IsFiniteSet(SessionsOf(T, k)) /\ Cardinality(SessionsOf(T, k)) \in Nat
    BY <1>1, Counting
<1>3. Cardinality(SessionsOf(S, k)) \in Nat
      /\ Cardinality(SessionsOf(S, k)) <= Cardinality(SessionsOf(T, k))
    BY <1>1, <1>2, Counting
<1> QED BY <1>2, <1>3

LEMMA CountedNext == Inv /\ [Next]_vars => Counted'
<1> SUFFICES ASSUME Inv, [Next]_vars PROVE Counted'
    OBVIOUS
<1>0. /\ clock \in Nat /\ clock' \in Nat /\ Hour(clock) \in Nat /\ Hour(clock') \in Nat
      /\ Hour(clock) <= Hour(clock') /\ Hour(clock') <= Hour(MaxClock) /\ Hour(MaxClock) \in Nat
    <2>1. clock \in 0..MaxClock /\ clock <= clock' /\ clock' \in 0..MaxClock /\ MaxClock \in Nat
        BY Monotone, EvidenceAssumption DEF Inv, TypeOK
    <2>2. clock \in Nat /\ clock' \in Nat /\ clock' <= MaxClock
        BY <2>1
    <2> QED BY <2>1, <2>2, HourBounds, HourMonotone
<1>1. logged \subseteq logged' /\ IsFiniteSet(logged')
    BY Monotone, MatchesNext, FS_Subset
<1>2. \A k : \A n \in 1..Cardinality(SessionsIn(k)) : n \in 1..Cardinality(SessionsIn(k)')
    BY <1>1, SessionsGrow DEF SessionsIn
\* A match of this step is of an hour no pass has counted yet.
<1>3. \A m \in punctual' \ punctual : Hour(m.ts) = Hour(clock) /\ clock' = clock
    BY Monotone
<1>4. /\ RowSound(usage, rolled) /\ RowComplete(usage, rolled)
      /\ \A h \in rolled : h < Hour(clock)
      /\ rollup.stage = "insert" =>
            /\ RowSound(rollup.rows, rollup.hours) /\ RowComplete(rollup.rows, rollup.hours)
            /\ \A h \in rollup.hours : h < Hour(clock)
    BY DEF Inv, Counted
<1>5. ASSUME usage' = usage, rolled' = rolled
      PROVE  RowSound(usage, rolled)' /\ RowComplete(usage, rolled)'
             /\ \A h \in rolled' : h < Hour(clock')
    <2>1. RowSound(usage, rolled)'
        BY <1>2, <1>4, <1>5 DEF RowSound
    <2>2. \A h \in rolled : h < Hour(clock) /\ h \in Nat
        BY <1>4 DEF Inv, Shape
    <2>3. RowComplete(usage, rolled)'
        BY <1>0, <1>3, <1>4, <1>5, <2>2 DEF RowComplete
    <2> QED BY <1>0, <1>5, <2>1, <2>2, <2>3
<1>6. ASSUME rollup' = rollup, rollup.stage = "insert"
      PROVE  RowSound(rollup.rows, rollup.hours)' /\ RowComplete(rollup.rows, rollup.hours)'
             /\ \A h \in rollup'.hours : h < Hour(clock')
    <2>1. RowSound(rollup.rows, rollup.hours)'
        BY <1>2, <1>4, <1>6 DEF RowSound
    <2>2. \A h \in rollup.hours : h < Hour(clock) /\ h \in Nat
        BY <1>4, <1>6 DEF Inv, Shape
    <2>3. RowComplete(rollup.rows, rollup.hours)'
        BY <1>0, <1>3, <1>4, <1>6, <2>2 DEF RowComplete
    <2> QED BY <1>0, <1>6, <2>1, <2>2, <2>3
<1>7. CASE PassQueries
    <2> DEFINE hours == CompleteHours(clock)
    <2>1. rollup'.stage = "insert" /\ rollup'.hours = hours /\ rollup'.rows = UsageRows(hours)
          /\ usage' = usage /\ rolled' = rolled /\ punctual' = punctual /\ logged' = logged
          /\ clock' = clock
        BY <1>7 DEF PassQueries, history
    <2>2. hours \in SUBSET (0..Hour(MaxClock)) /\ \A h \in hours : h < Hour(clock)
        BY <1>0, CompleteHoursAre
    <2> HIDE DEF hours
    <2>3. RowSound(UsageRows(hours), hours)
        BY <2>2, UsageRowsAre
    <2>4. RowComplete(UsageRows(hours), hours)
        BY <2>2, UsageRowsAre DEF RowComplete, Inv, Shape
    <2>5. RowSound(rollup.rows, rollup.hours)'
        BY <2>1, <2>3 DEF RowSound, SessionsIn
    <2>6. RowComplete(rollup.rows, rollup.hours)'
        BY <2>1, <2>4 DEF RowComplete
    <2> QED BY <1>5, <2>1, <2>2, <2>5, <2>6 DEF Counted
<1>8. CASE PassInserts
    <2>1. /\ usage' = [k \in DOMAIN usage \cup DOMAIN rollup.rows |->
                          IF k \in DOMAIN rollup.rows THEN rollup.rows[k] ELSE usage[k]]
          /\ rolled' = rolled \cup rollup.hours /\ rollup.stage = "insert"
          /\ rollup'.stage = "idle" /\ punctual' = punctual /\ logged' = logged /\ clock' = clock
        BY <1>8 DEF PassInserts, NoPass
    <2>2. RowSound(usage, rolled)'
        BY <1>4, <2>1 DEF RowSound, SessionsIn
    <2>3. RowComplete(usage, rolled)'
        BY <1>4, <2>1 DEF RowComplete
    <2> QED BY <1>4, <2>1, <2>2, <2>3 DEF Counted
<1>9. CASE PassFails
    BY <1>5, <1>9 DEF PassFails, NoPass, history, Counted
<1>10. CASE ~PassQueries /\ ~PassInserts /\ ~PassFails
    <2>1. usage' = usage /\ rolled' = rolled /\ rollup' = rollup
        BY <1>10 DEF Next, Tick, RuleMatches, LogArrives, CountersReset, CollectorStarts,
                     CollectorReads, CollectorWrites, CollectorFails, Ask, CheckCoverage, Judge,
                     vars, jobs, history
    <2> QED BY <1>5, <1>6, <2>1 DEF Counted
<1> QED BY <1>7, <1>8, <1>9, <1>10

LEMMA GapsStayNext == Inv /\ [Next]_vars => GapsStay'
<1> SUFFICES ASSUME Inv, [Next]_vars PROVE GapsStay'
    OBVIOUS
<1>0. /\ clock \in Nat /\ Hour(clock) \in Nat /\ Hour(clock') \in Nat /\ Hour(clock) <= Hour(clock')
      /\ RollupHours \in Nat
    <2>1. clock \in Nat /\ clock' \in Nat /\ clock <= clock'
        BY Monotone, EvidenceAssumption DEF Inv, TypeOK
    <2> QED BY <2>1, HourBounds, HourMonotone, EvidenceAssumption
<1>1. /\ \A h \in rolled : \A g \in 0..h : g \in rolled \/ g < Hour(clock) - RollupHours
      /\ rollup.stage = "insert" =>
            /\ \A h \in rollup.hours : \A g \in 0..h :
                  g \in rollup.hours \/ g < Hour(clock) - RollupHours
            /\ \A h \in rolled : \A g \in 0..h : g \in rolled \/ g \notin rollup.hours
    BY DEF Inv, GapsStay
<1>2. \A g \in Nat : g < Hour(clock) - RollupHours => g < Hour(clock') - RollupHours
    BY <1>0
<1>3. rolled \subseteq Nat /\ rollup.hours \subseteq Nat
    BY DEF Inv, Shape
<1>4. CASE PassQueries
    <2>1. /\ rollup'.hours = CompleteHours(clock) /\ rolled' = rolled /\ clock' = clock
        BY <1>4 DEF PassQueries, history
    <2>2. \A h \in CompleteHours(clock) : h < Hour(clock) /\ h >= Hour(clock) - RollupHours /\ h \in Nat
        BY <1>0, CompleteHoursAre
    <2>3. \A g \in Nat : Hour(clock) - RollupHours <= g /\ g < Hour(clock) => g \in CompleteHours(clock)
        BY <1>0, CompleteHoursAre
    <2>4. \A h \in CompleteHours(clock) : \A g \in 0..h :
              g \in CompleteHours(clock) \/ g < Hour(clock) - RollupHours
        BY <1>0, <2>2, <2>3
    <2>5. \A h \in rolled : \A g \in 0..h : g \in rolled \/ g \notin CompleteHours(clock)
        BY <1>0, <1>1, <1>3, <2>2
    <2> QED BY <1>1, <2>1, <2>4, <2>5 DEF GapsStay
<1>5. CASE PassInserts
    <2>1. /\ rolled' = rolled \cup rollup.hours /\ rollup.stage = "insert"
          /\ rollup'.stage = "idle" /\ clock' = clock
        BY <1>5 DEF PassInserts, NoPass
    <2> QED BY <1>1, <2>1 DEF GapsStay
<1>6. CASE PassFails
    <2>1. rolled' = rolled /\ rollup'.stage = "idle" /\ clock' = clock
        BY <1>6 DEF PassFails, NoPass, history
    <2> QED BY <1>1, <2>1 DEF GapsStay
<1>7. CASE ~PassQueries /\ ~PassInserts /\ ~PassFails
    <2>1. rolled' = rolled /\ rollup' = rollup
        BY <1>7 DEF Next, Tick, RuleMatches, LogArrives, CountersReset, CollectorStarts,
                    CollectorReads, CollectorWrites, CollectorFails, Ask, CheckCoverage, Judge,
                    vars, jobs, history
    <2>2. \A h \in rolled : \A g \in 0..h : g \in rolled \/ g < Hour(clock') - RollupHours
        BY <1>1, <1>2
    <2>3. rollup.stage = "insert" =>
              \A h \in rollup.hours : \A g \in 0..h :
                  g \in rollup.hours \/ g < Hour(clock') - RollupHours
        BY <1>1, <1>2
    <2> QED BY <1>1, <2>1, <2>2, <2>3 DEF GapsStay
<1> QED BY <1>4, <1>5, <1>6, <1>7

----------------------------------------------------------------------------
(* Records and types.                                                      *)

LEMMA ShapeNext == Inv /\ [Next]_vars => Shape'
<1> SUFFICES ASSUME Inv, [Next]_vars PROVE Shape'
    OBVIOUS
<1> DEFINE Records ==
        /\ rolled \subseteq Nat /\ rollup.hours \subseteq Nat
        /\ entities \in [Rules -> Counter]
        /\ collector.at \in 0..clock
        /\ collector.stage = "write" => collector.hits \in [Rules -> (-1)..MaxMatches]
        /\ question = [stage |-> question.stage, since |-> question.since, until |-> question.until,
                       seen |-> question.seen, covered |-> question.covered]
        /\ question.since \in Int /\ question.until \in 0..clock
        /\ question.stage # "idle" => question.seen \in [Rules -> Counter]
        /\ question.stage # "idle" => \A r \in Rules : question.seen[r].at <= clock
        /\ \A r \in Rules : verdict[r] = "unused" => question.stage = "idle"
<1>0. Records
    BY DEF Inv, Shape
<1>1. clock \in Nat /\ clock' \in Nat /\ clock <= clock' /\ clock <= MaxClock /\ MaxClock \in Nat
    BY Monotone, EvidenceAssumption DEF Inv, TypeOK
<1>2. CASE PassQueries
    <2>1. CompleteHours(clock) \subseteq Nat
        BY <1>1, CompleteHoursAre, HourBounds
    <2> QED BY <1>0, <1>2, <2>1, MatchesNext DEF PassQueries, history, tool, Shape
<1>3. CASE PassInserts \/ PassFails
    BY <1>0, <1>3, MatchesNext DEF PassInserts, PassFails, NoPass, history, tool, Shape
<1>4. CASE CollectorStarts
    BY <1>0, <1>1, <1>4, MatchesNext DEF CollectorStarts, history, tool, Shape
<1>5. CASE CollectorReads
    <2>1. PICK hits \in {[r \in Rules |-> Cardinality({m \in counted : m.rule = r})],
                         [r \in Rules |-> Absent]} :
              collector' = [stage |-> "write", at |-> collector.at, hits |-> hits]
        BY <1>5 DEF CollectorReads
    <2>2. ASSUME NEW r \in Rules
          PROVE  Cardinality({m \in counted : m.rule = r}) \in (-1)..MaxMatches
        <3>1. {m \in counted : m.rule = r} \subseteq matches /\ IsFiniteSet(matches)
              /\ Cardinality(matches) <= MaxMatches
            BY DEF Inv, TypeOK, Shape
        <3>2. Cardinality({m \in counted : m.rule = r}) \in Nat
              /\ Cardinality({m \in counted : m.rule = r}) <= Cardinality(matches)
            BY <3>1, Counting
        <3>3. Cardinality(matches) \in Nat /\ MaxMatches \in Nat
            BY <3>1, FS_CardinalityType, EvidenceAssumption
        <3> QED BY <3>1, <3>2, <3>3
    <2>3. hits \in [Rules -> (-1)..MaxMatches]
        <3>1. Absent \in (-1)..MaxMatches
            BY EvidenceAssumption DEF Absent
        <3>2. CASE hits = [r \in Rules |-> Cardinality({m \in counted : m.rule = r})]
            BY <2>2, <3>2
        <3>3. CASE hits = [r \in Rules |-> Absent]
            BY <3>1, <3>3
        <3> QED BY <2>1, <3>2, <3>3
    <2> QED BY <1>0, <1>5, <2>1, <2>3, MatchesNext DEF CollectorReads, history, tool, Shape
<1>6. CASE CollectorWrites
    <2>1. entities' = [r \in Rules |-> [hits |-> collector.hits[r], at |-> collector.at]]
          /\ collector.hits \in [Rules -> (-1)..MaxMatches] /\ collector.at \in 0..MaxClock
        BY <1>0, <1>1, <1>6 DEF CollectorWrites
    <2>2. entities' \in [Rules -> Counter]
        BY <2>1 DEF Counter
    <2> QED BY <1>0, <1>1, <1>6, <2>2, MatchesNext DEF CollectorWrites, NoCollection, history, tool, Shape
<1>7. CASE CollectorFails
    BY <1>0, <1>1, <1>7, MatchesNext DEF CollectorFails, NoCollection, history, tool, Shape
<1>8. CASE Ask
    <2>1. question' = [stage |-> "coverage", since |-> clock - Span, until |-> clock,
                       seen |-> entities, covered |-> FALSE]
          /\ verdict' = [r \in Rules |-> "none"] /\ clock' = clock
        BY <1>8 DEF Ask
    <2>2. clock - Span \in Int
        BY <1>1, EvidenceAssumption
    <2>3. \A r \in Rules : entities[r].at <= clock
        BY DEF Inv, TypeOK
    <2> QED BY <1>0, <1>1, <1>8, <2>1, <2>2, <2>3, MatchesNext DEF Ask, jobs, history, Shape
<1>9. CASE CheckCoverage
    <2>1. PICK b : question' = [question EXCEPT !.stage = "judge", !.covered = b]
          /\ question.stage = "coverage" /\ verdict' = verdict /\ clock' = clock
        BY <1>9 DEF CheckCoverage
    <2>2. question' = [stage |-> "judge", since |-> question.since, until |-> question.until,
                       seen |-> question.seen, covered |-> b]
        BY <1>0, <2>1
    <2> QED BY <1>0, <1>9, <2>1, <2>2, MatchesNext DEF CheckCoverage, jobs, history, Shape
<1>10. CASE Judge
    <2>0. question' = [question EXCEPT !.stage = "idle", !.seen = <<>>]
        BY <1>10 DEF Judge
    <2>1. question' = [stage |-> "idle", since |-> question.since, until |-> question.until,
                       seen |-> <<>>, covered |-> question.covered] /\ clock' = clock
        BY <1>0, <1>10, <2>0 DEF Judge
    <2> QED BY <1>0, <1>10, <2>1, MatchesNext DEF Judge, jobs, history, Shape
<1>11. CASE Tick \/ RuleMatches \/ LogArrives \/ CountersReset \/ UNCHANGED vars
    <2>1. UNCHANGED <<rolled, rollup, entities, collector, question, verdict>>
        BY <1>11 DEF Tick, RuleMatches, LogArrives, CountersReset, vars, jobs, history, tool
    <2>2. 0..clock \subseteq 0..clock'
        BY <1>1
    <2>3. question.stage # "idle" => \A r \in Rules : question.seen[r].at <= clock'
        BY <1>0, <1>1 DEF Counter
    <2> QED BY <1>0, <2>1, <2>2, <2>3, MatchesNext DEF Shape
<1> QED BY <1>2, <1>3, <1>4, <1>5, <1>6, <1>7, <1>8, <1>9, <1>10, <1>11 DEF Next

LEMMA TypeNext == Inv /\ [Next]_vars => TypeOK'
<1> SUFFICES ASSUME Inv, [Next]_vars PROVE TypeOK'
    OBVIOUS
<1>1. clock' \in 0..MaxClock /\ clock <= clock' /\ clock \in Nat /\ clock' \in Nat
    BY Monotone, EvidenceAssumption DEF Inv, TypeOK
<1>2. matches' \subseteq Match /\ counted' \subseteq matches' /\ logged' \subseteq matches'
    BY MatchesNext
\* The rows are as the invariant's next state has them.
<1>3. /\ DOMAIN usage' \subseteq Rules \X (0..Hour(MaxClock))
      /\ \A k \in DOMAIN usage' :
             usage'[k] \in 1..Cardinality({m \in logged' : m.rule = k[1] /\ Hour(m.ts) = k[2]})
    BY CountedNext DEF Counted, RowSound, SessionsIn, SessionsOf
<1>4. \A r \in Rules : entities'[r].hits \in (-1)..MaxMatches /\ entities'[r].at \in 0..clock'
    <2>1. CASE CollectorWrites
        <3>1. /\ entities' = [r \in Rules |-> [hits |-> collector.hits[r], at |-> collector.at]]
              /\ clock' = clock
              /\ collector.hits \in [Rules -> (-1)..MaxMatches] /\ collector.at \in 0..clock
            BY <2>1 DEF CollectorWrites, Inv, Shape
        <3> QED BY <3>1
    <2>2. CASE ~CollectorWrites
        <3>1. entities' = entities
            BY <2>2 DEF Next, Tick, RuleMatches, LogArrives, CountersReset, PassQueries, PassInserts,
                        PassFails, CollectorStarts, CollectorReads, CollectorFails, Ask,
                        CheckCoverage, Judge, vars
        <3> QED BY <1>1, <3>1 DEF Inv, TypeOK
    <2> QED BY <2>1, <2>2
<1>5. /\ rollup'.stage \in {"idle", "insert"} /\ collector'.stage \in {"idle", "read", "write"}
      /\ question'.stage \in {"idle", "coverage", "judge"}
    <2>1. /\ rollup.stage \in {"idle", "insert"} /\ collector.stage \in {"idle", "read", "write"}
          /\ question.stage \in {"idle", "coverage", "judge"}
          /\ question = [stage |-> question.stage, since |-> question.since, until |-> question.until,
                         seen |-> question.seen, covered |-> question.covered]
        BY DEF Inv, TypeOK, Shape
    <2>2. CASE PassQueries \/ PassInserts \/ PassFails
        BY <2>1, <2>2 DEF PassQueries, PassInserts, PassFails, NoPass, tool
    <2>3. CASE CollectorStarts \/ CollectorReads \/ CollectorWrites \/ CollectorFails
        BY <2>1, <2>3 DEF CollectorStarts, CollectorReads, CollectorWrites, CollectorFails,
                          NoCollection, tool
    <2>4. CASE Ask
        BY <2>1, <2>4 DEF Ask, jobs
    <2>5. CASE CheckCoverage \/ Judge
        BY <2>1, <2>5 DEF CheckCoverage, Judge, jobs
    <2>6. CASE Tick \/ RuleMatches \/ LogArrives \/ CountersReset \/ UNCHANGED vars
        BY <2>1, <2>6 DEF Tick, RuleMatches, LogArrives, CountersReset, vars, jobs, tool
    <2> QED BY <2>2, <2>3, <2>4, <2>5, <2>6 DEF Next
<1>6. \A r \in Rules : verdict'[r] \in {"none", "unknown", "used", "unused"}
    <2>1. CASE Ask
        BY <2>1 DEF Ask
    <2>2. CASE Judge
        BY <2>2 DEF Judge, Verdict
    <2>3. CASE ~Ask /\ ~Judge
        <3>1. verdict' = verdict
            BY <2>3 DEF Next, Tick, RuleMatches, LogArrives, CountersReset, PassQueries, PassInserts,
                        PassFails, CollectorStarts, CollectorReads, CollectorWrites, CollectorFails,
                        CheckCoverage, vars, tool
        <3> QED BY <3>1 DEF Inv, TypeOK
    <2> QED BY <2>1, <2>2, <2>3
<1> QED BY <1>1, <1>2, <1>3, <1>4, <1>5, <1>6 DEF TypeOK

----------------------------------------------------------------------------
(* The counters.                                                           *)

\* What a counter knew it still knows: a match of this step is not older than
\* any time already taken.
LEMMA CountsStay ==
    ASSUME Inv, [Next]_vars, NEW hits, NEW at \in 0..clock, NEW r, CountsSince(hits, at, r)
    PROVE  hits # Absent => \A m \in counted' : m.rule = r /\ m.ts < at => hits > 0
<1> SUFFICES ASSUME hits # Absent, NEW m \in counted', m.rule = r, m.ts < at PROVE hits > 0
    OBVIOUS
<1>1. m \in counted
    <2>1. m \notin counted => m.ts = clock
        BY Monotone
    <2>2. clock \in Nat
        BY EvidenceAssumption DEF Inv, TypeOK
    <2> QED BY <2>1, <2>2
<1> QED BY <1>1 DEF CountsSince

LEMMA CountersSoundNext == Inv /\ [Next]_vars => CountersSound'
<1> SUFFICES ASSUME Inv, [Next]_vars PROVE CountersSound'
    OBVIOUS
<1>0. /\ \A r \in Rules : entities[r].at \in 0..clock
      /\ collector.at \in 0..clock
      /\ question = [stage |-> question.stage, since |-> question.since, until |-> question.until,
                     seen |-> question.seen, covered |-> question.covered]
    BY DEF Inv, TypeOK, Shape
<1>1. ASSUME entities' = entities
      PROVE  \A r \in Rules : CountsSince(entities[r].hits, entities[r].at, r)'
    BY <1>0, <1>1, CountsStay DEF Inv, CountersSound, CountsSince
<1>2. ASSUME collector' = collector, collector.stage = "write"
      PROVE  \A r \in Rules : CountsSince(collector.hits[r], collector.at, r)'
    BY <1>0, <1>2, CountsStay DEF Inv, CountersSound, CountsSince
<1>3. ASSUME question'.seen = question.seen, question.stage # "idle"
      PROVE  \A r \in Rules : CountsSince(question.seen[r].hits, question.seen[r].at, r)'
    <2>1. \A r \in Rules : question.seen[r].at \in 0..clock
        BY <1>3 DEF Inv, Shape, Counter
    <2> QED BY <1>3, <2>1, CountsStay DEF Inv, CountersSound, CountsSince
<1>4. /\ \A r \in Rules : CountsSince(entities[r].hits, entities[r].at, r)
      /\ collector.stage = "write" =>
            \A r \in Rules : CountsSince(collector.hits[r], collector.at, r)
    BY DEF Inv, CountersSound
<1>5. CASE CollectorReads
    <2>1. PICK hits \in {[r \in Rules |-> Cardinality({m \in counted : m.rule = r})],
                         [r \in Rules |-> Absent]} :
              collector' = [stage |-> "write", at |-> collector.at, hits |-> hits]
        BY <1>5 DEF CollectorReads
    <2>2. ASSUME NEW r \in Rules, hits[r] # Absent, NEW m \in counted, m.rule = r
          PROVE  hits[r] > 0
        <3>1. hits[r] = Cardinality({n \in counted : n.rule = r})
            BY <2>1, <2>2
        <3>2. m \in {n \in counted : n.rule = r} /\ {n \in counted : n.rule = r} \subseteq matches
            BY <2>2 DEF Inv, TypeOK
        <3>3. IsFiniteSet(matches)
            BY DEF Inv, Shape
        <3>4. /\ Cardinality({n \in counted : n.rule = r}) \in Nat
              /\ Cardinality({n \in counted : n.rule = r}) >= 1
            BY <3>2, <3>3, Counting
        <3> QED BY <3>1, <3>4
    <2>3. counted' = counted /\ entities' = entities /\ question' = question
        BY <1>5 DEF CollectorReads, device, tool
    <2>4. \A r \in Rules : CountsSince(collector.hits[r], collector.at, r)'
        BY <2>1, <2>2, <2>3 DEF CountsSince
    <2> QED BY <1>1, <1>3, <2>3, <2>4 DEF CountersSound
<1>6. CASE CollectorWrites
    <2>1. /\ entities' = [r \in Rules |-> [hits |-> collector.hits[r], at |-> collector.at]]
          /\ collector.stage = "write" /\ collector'.stage = "idle"
          /\ counted' = counted /\ question' = question
        BY <1>6 DEF CollectorWrites, NoCollection, device, tool
    <2>2. \A r \in Rules : CountsSince(entities[r].hits, entities[r].at, r)'
        BY <1>4, <2>1 DEF CountsSince
    <2> QED BY <1>3, <2>1, <2>2 DEF CountersSound
<1>7. CASE CollectorStarts \/ CollectorFails
    <2>1. entities' = entities /\ question' = question /\ collector'.stage # "write"
        BY <1>7 DEF CollectorStarts, CollectorFails, NoCollection, tool
    <2> QED BY <1>1, <1>3, <2>1 DEF CountersSound
<1>8. CASE Ask
    <2>1. entities' = entities /\ collector' = collector /\ question'.seen = entities
        BY <1>8 DEF Ask, jobs
    <2>2. \A r \in Rules : CountsSince(question.seen[r].hits, question.seen[r].at, r)'
        BY <1>1, <2>1 DEF CountsSince
    <2> QED BY <1>1, <1>2, <2>1, <2>2 DEF CountersSound
<1>9. CASE CheckCoverage
    <2>1. entities' = entities /\ collector' = collector /\ question'.seen = question.seen
          /\ question.stage = "coverage"
        BY <1>0, <1>9 DEF CheckCoverage, jobs
    <2> QED BY <1>1, <1>2, <1>3, <2>1 DEF CountersSound
<1>10. CASE Judge
    <2>1. entities' = entities /\ collector' = collector /\ question'.stage = "idle"
        BY <1>0, <1>10 DEF Judge, jobs
    <2> QED BY <1>1, <1>2, <2>1 DEF CountersSound
<1>11. CASE ~CollectorReads /\ ~CollectorWrites /\ ~CollectorStarts /\ ~CollectorFails
            /\ ~Ask /\ ~CheckCoverage /\ ~Judge
    <2>1. entities' = entities /\ collector' = collector /\ question' = question
        BY <1>11 DEF Next, Tick, RuleMatches, LogArrives, CountersReset, PassQueries, PassInserts,
                     PassFails, vars, jobs, tool
    <2> QED BY <1>1, <1>2, <1>3, <2>1 DEF CountersSound
<1> QED BY <1>5, <1>6, <1>7, <1>8, <1>9, <1>10, <1>11

----------------------------------------------------------------------------
(* The coverage of a window.                                               *)

LEMMA CoveredNext == Inv /\ [Next]_vars => Covered'
<1> SUFFICES ASSUME Inv, [Next]_vars, question'.stage = "judge", question'.covered
             PROVE  \E b, c \in rolled' :
                        /\ StartOf(b) <= question'.since + HourTicks
                        /\ StartOf(c) >= question'.until - 2 * HourTicks
    BY DEF Covered
<1>0. question = [stage |-> question.stage, since |-> question.since, until |-> question.until,
                  seen |-> question.seen, covered |-> question.covered]
    BY DEF Inv, Shape
<1>1. CASE CheckCoverage
    <2>1. /\ question' = [question EXCEPT !.stage = "judge", !.covered = LogCoverage]
          /\ rolled' = rolled
        BY <1>1 DEF CheckCoverage, history
    <2>2. question'.since = question.since /\ question'.until = question.until /\ LogCoverage
        BY <1>0, <2>1
    <2>3. Buckets \subseteq 0..Hour(MaxClock) /\ Buckets \subseteq rolled
        BY DEF Buckets, Inv, Counted, RowSound
    <2>4. Hour(MaxClock) \in Nat
        BY HourBounds, EvidenceAssumption
    <2>5. Buckets # {} /\ Buckets \subseteq Nat
        BY <2>2, <2>3, <2>4 DEF LogCoverage
    <2>6. Min(Buckets) \in rolled /\ Max(Buckets) \in rolled
        BY <2>3, <2>4, <2>5, MinOfNaturals, MaxOfNaturals
    <2> QED BY <2>1, <2>2, <2>6 DEF LogCoverage
<1>2. CASE ~CheckCoverage
    <2>1. question' = question
        <3>1. ~Ask
            BY DEF Ask
        <3>2. ~Judge
            <4>1. [question EXCEPT !.stage = "idle", !.seen = <<>>].stage # "judge"
                BY <1>0
            <4> QED BY <4>1 DEF Judge
        <3> QED BY <1>2, <3>1, <3>2 DEF Next, Tick, RuleMatches, LogArrives, CountersReset, PassQueries,
                PassInserts, PassFails, CollectorStarts, CollectorReads, CollectorWrites,
                CollectorFails, vars, tool
    <2>2. rolled \subseteq rolled'
        BY Monotone
    <2>3. question.stage = "judge" /\ question.covered
        BY <2>1
    <2>4. PICK b, c \in rolled : StartOf(b) <= question.since + HourTicks
                                 /\ StartOf(c) >= question.until - 2 * HourTicks
        BY <2>3 DEF Inv, Covered
    <2> QED BY <2>1, <2>2, <2>4
<1> QED BY <1>1, <1>2

----------------------------------------------------------------------------
(* The verdicts.                                                           *)

\* A gap between two hours that were counted is never closed.
LEMMA GapsLast == Inv /\ [Next]_vars => (Gapless' => Gapless)
<1> SUFFICES ASSUME Inv, [Next]_vars, Gapless', NEW h \in rolled, NEW i \in rolled, NEW g \in h..i
             PROVE  g \in rolled
    BY DEF Gapless
<1>1. rolled \subseteq Nat /\ rolled \subseteq rolled'
    BY Monotone DEF Inv, Shape
<1>2. g \in rolled' /\ g \in 0..i
    BY <1>1 DEF Gapless
<1>3. CASE PassInserts
    <2>1. rolled' = rolled \cup rollup.hours /\ rollup.stage = "insert"
        BY <1>3 DEF PassInserts
    <2> QED BY <1>2, <2>1 DEF Inv, GapsStay
<1>4. CASE ~PassInserts
    <2>1. rolled' = rolled
        BY <1>4 DEF Next, Tick, RuleMatches, LogArrives, CountersReset, PassQueries, PassFails,
                    CollectorStarts, CollectorReads, CollectorWrites, CollectorFails, Ask,
                    CheckCoverage, Judge, vars, history
    <2> QED BY <1>2, <2>1
<1> QED BY <1>3, <1>4

\* A punctual match in the hours a covered question asked for is seen.
LEMMA MatchSeen ==
    ASSUME Inv, Gapless, question.stage = "judge", question.covered,
           NEW m \in punctual, question.since + HourTicks <= m.ts,
           m.ts <= question.until - 2 * HourTicks
    PROVE  LogUsed(m.rule)
<1> USE EvidenceAssumption
<1>1. m.ts \in Nat /\ m.rule \in Rules /\ question.since \in Int /\ question.until \in Nat
    BY DEF Inv, TypeOK, Shape, Match
<1>2. PICK b, c \in rolled : StartOf(b) <= question.since + HourTicks
                             /\ StartOf(c) >= question.until - 2 * HourTicks
    BY DEF Inv, Covered
<1>3. b \in Nat /\ c \in Nat /\ StartOf(b) \in Nat /\ StartOf(c) \in Nat
    BY DEF Inv, Shape, StartOf
<1>4. StartOf(b) <= m.ts /\ m.ts <= StartOf(c)
    BY <1>1, <1>2, <1>3
<1> DEFINE g == Hour(m.ts)
<1>5. g \in Nat /\ StartOf(g) <= m.ts /\ m.ts < StartOf(g) + HourTicks /\ StartOf(g) \in Nat
    BY <1>1, HourBounds DEF StartOf
<1>6. b <= g /\ g <= c
    BY <1>1, <1>3, <1>4, HourFrom, HourUpTo
<1> HIDE DEF g
<1>7. g \in rolled
    BY <1>2, <1>3, <1>5, <1>6 DEF Gapless
<1>8. <<m.rule, g>> \in DOMAIN usage
    BY <1>7 DEF Inv, Counted, RowComplete, g
<1>9. usage[<<m.rule, g>>] > 0
    <2>1. usage[<<m.rule, g>>] \in 1..Cardinality(SessionsIn(<<m.rule, g>>))
        BY <1>8 DEF Inv, Counted, RowSound
    <2> QED BY <2>1
<1>10. InWindow(g)
    BY <1>1, <1>5 DEF InWindow
<1>11. <<m.rule, g>>[1] = m.rule /\ <<m.rule, g>>[2] = g
    OBVIOUS
<1> QED BY <1>8, <1>9, <1>10, <1>11 DEF LogUsed

LEMMA BackedByLogNext == Inv /\ [Next]_vars => UnusedBackedByLog'
<1> SUFFICES ASSUME Inv, [Next]_vars, Gapless', NEW m \in punctual',
                    question'.since + HourTicks <= m.ts,
                    m.ts <= question'.until - 2 * HourTicks,
                    verdict'[m.rule] = "unused"
             PROVE  FALSE
    BY DEF UnusedBackedByLog
<1> USE EvidenceAssumption
<1>0. Gapless
    BY GapsLast
<1>1. question = [stage |-> question.stage, since |-> question.since, until |-> question.until,
                  seen |-> question.seen, covered |-> question.covered]
      /\ question.since \in Int /\ question.until \in 0..clock /\ clock \in Nat
    BY DEF Inv, TypeOK, Shape
<1>2. CASE Judge
    <2>1. punctual' = punctual /\ verdict' = [r \in Rules |-> Verdict(r)] /\ question.stage = "judge"
          /\ question'.since = question.since /\ question'.until = question.until
        BY <1>1, <1>2 DEF Judge, history
    <2>2. m.rule \in Rules
        BY <2>1 DEF Inv, TypeOK, Shape, Match
    <2>3. Verdict(m.rule) = "unused"
        BY <2>1, <2>2
    <2>4. question.covered /\ ~LogUsed(m.rule)
        BY <2>3 DEF Verdict
    <2> QED BY <1>0, <2>1, <2>4, MatchSeen
<1>3. CASE Ask
    <2>1. m.rule \in Rules
        BY MatchesNext DEF Match
    <2> QED BY <1>3, <2>1 DEF Ask
<1>4. CASE CheckCoverage
    <2>1. verdict' = verdict /\ punctual' = punctual /\ question.stage = "coverage"
        BY <1>4 DEF CheckCoverage, history
    <2>2. m.rule \in Rules
        BY MatchesNext DEF Match
    <2> QED BY <2>1, <2>2 DEF Inv, Shape
<1>5. CASE ~Judge /\ ~Ask /\ ~CheckCoverage
    <2>1. verdict' = verdict /\ question' = question
        BY <1>5 DEF Next, Tick, RuleMatches, LogArrives, CountersReset, PassQueries, PassInserts,
                    PassFails, CollectorStarts, CollectorReads, CollectorWrites, CollectorFails,
                    vars, tool
    <2>2. m \in punctual
        <3>1. m \notin punctual => m.ts = clock
            BY Monotone
        <3> QED BY <1>1, <2>1, <3>1
    <2> QED BY <1>0, <2>1, <2>2 DEF Inv, UnusedBackedByLog
<1> QED BY <1>2, <1>3, <1>4, <1>5

LEMMA BackedByCounterNext == Inv /\ [Next]_vars => UnusedBackedByCounter'
<1> SUFFICES ASSUME Inv, [Next]_vars, NEW m \in counted', m.ts < question'.until - MaxAge,
                    verdict'[m.rule] = "unused"
             PROVE  FALSE
    BY DEF UnusedBackedByCounter
<1> USE EvidenceAssumption
<1>1. question = [stage |-> question.stage, since |-> question.since, until |-> question.until,
                  seen |-> question.seen, covered |-> question.covered]
      /\ question.until \in 0..clock /\ clock \in Nat
    BY DEF Inv, TypeOK, Shape
<1>2. m.rule \in Rules /\ m.ts \in Nat
    BY MatchesNext DEF Match
<1>3. CASE Judge
    <2>1. counted' = counted /\ verdict' = [r \in Rules |-> Verdict(r)] /\ question.stage = "judge"
          /\ question'.until = question.until
        BY <1>1, <1>3 DEF Judge, device
    <2>2. Verdict(m.rule) = "unused"
        BY <1>2, <2>1
    <2>3. /\ CounterKnown(m.rule) /\ ~LogUsed(m.rule)
          /\ LogUsed(m.rule) = (question.seen[m.rule].hits > 0)
        BY <2>2 DEF Verdict
    <2>4. question.seen[m.rule].at \in 0..MaxClock
        BY <1>2, <2>1 DEF Inv, Shape, Counter
    <2>5. m.ts < question.seen[m.rule].at /\ question.seen[m.rule].hits # Absent
        BY <1>1, <1>2, <2>1, <2>3, <2>4 DEF CounterKnown
    <2>6. CountsSince(question.seen[m.rule].hits, question.seen[m.rule].at, m.rule)
        BY <1>2, <2>1 DEF Inv, CountersSound
    <2>7. question.seen[m.rule].hits > 0
        BY <2>1, <2>5, <2>6 DEF CountsSince
    <2> QED BY <2>3, <2>7
<1>4. CASE Ask
    BY <1>2, <1>4 DEF Ask
<1>5. CASE CheckCoverage
    <2>1. verdict' = verdict /\ question.stage = "coverage"
        BY <1>5 DEF CheckCoverage
    <2> QED BY <1>2, <2>1 DEF Inv, Shape
<1>6. CASE ~Judge /\ ~Ask /\ ~CheckCoverage
    <2>1. verdict' = verdict /\ question' = question
        BY <1>6 DEF Next, Tick, RuleMatches, LogArrives, CountersReset, PassQueries, PassInserts,
                    PassFails, CollectorStarts, CollectorReads, CollectorWrites, CollectorFails,
                    vars, tool
    <2>2. m \in counted
        <3>1. m \notin counted => m.ts = clock
            BY Monotone
        <3> QED BY <1>1, <2>1, <3>1
    <2> QED BY <2>1, <2>2 DEF Inv, UnusedBackedByCounter
<1> QED BY <1>3, <1>4, <1>5, <1>6

LEMMA InvAlways == Spec => []Inv
<1>1. Inv /\ [Next]_vars => Inv'
    BY TypeNext, ShapeNext, CountedNext, GapsStayNext, CountersSoundNext, CoveredNext,
       BackedByLogNext, BackedByCounterNext DEF Inv
<1> QED BY InvInit, <1>1, PTL DEF Spec

----------------------------------------------------------------------------
(* The theorems.                                                           *)

\* Every variable holds a value of its kind, and no hour of the rollup holds
\* more sessions than there were events.
THEOREM TypeCorrect == Spec => []TypeOK
<1>1. Inv => TypeOK
    BY DEF Inv
<1> QED BY InvAlways, <1>1, PTL

\* Whatever the counters say and whichever passes fail, a rule called unused
\* had no punctual match inside the window, if no hour was passed over.
THEOREM LogBacksUnused == Spec => []UnusedBackedByLog
<1>1. Inv => UnusedBackedByLog
    BY DEF Inv
<1> QED BY InvAlways, <1>1, PTL

\* Whatever the logs say, a rule called unused has no match that its counter
\* still counts and that is older than a counter may be.
THEOREM CounterBacksUnused == Spec => []UnusedBackedByCounter
<1>1. Inv => UnusedBackedByCounter
    BY DEF Inv
<1> QED BY InvAlways, <1>1, PTL
=============================================================================
