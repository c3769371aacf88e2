--------------------------- MODULE ToolCall_proofs ---------------------------
(***************************************************************************)
(* Theorems about audited_tool and its limiter, for any finite pool of     *)
(* threads, any principals and any limits.                                 *)
(***************************************************************************)
EXTENDS ToolCall, FiniteSetTheorems, SequenceTheorems, TLAPS

\* There is a call, so the idle value is one.
LEMMA NoCallType == NoCall \in Call
<1>1. PICK p \in Principals, tool \in Tools : TRUE
    BY CallAssumption
<1>2. [id |-> 1, principal |-> p, tool |-> tool] \in Call
    BY CallAssumption DEF Call
<1> QED BY <1>2 DEF NoCall

----------------------------------------------------------------------------
(* Type correctness.                                                       *)

\* Init gives every variable a value of its kind.
LEMMA TypeInit == Init => TypeOK
<1> SUFFICES ASSUME Init PROVE TypeOK
    OBVIOUS
<1>0. MaxClock \in Nat /\ MaxCalls \in Nat
    BY LimiterAssumption, CallAssumption
<1>1. LimiterTypeOK
    <2>1. <<>> \in Seq(0..MaxClock)
        BY EmptySeq
    <2>2. calls \in [Principals -> Seq(0..MaxClock)] /\ admitted \in [Principals -> Seq(0..MaxClock)]
        BY <2>1 DEF Init, LimiterInit
    <2>3. clock = 0 /\ inFlight \in [Principals -> Nat]
        BY DEF Init, LimiterInit
    <2> QED BY <1>0, <2>2, <2>3 DEF LimiterTypeOK
<1>2. /\ pc \in [Threads -> Stages] /\ call \in [Threads -> Call]
      /\ outcome \in [Threads -> Errors]
    BY NoCallType DEF Init, Stages, Errors
<1>3. trail \in [1..MaxCalls -> Seq(Entry)]
    <2>1. <<>> \in Seq(Entry)
        BY EmptySeq
    <2> QED BY <2>1 DEF Init
<1>4. arrived = 0 /\ ran = {}
    BY DEF Init
<1>5. arrived \in 0..MaxCalls /\ ran \subseteq 1..MaxCalls
    BY <1>0, <1>4
<1> QED BY <1>1, <1>2, <1>3, <1>5 DEF TypeOK

\* The limiter's methods keep its variables' types.
LEMMA LimiterType ==
    ASSUME LimiterTypeOK, NEW p \in Principals, clock' = clock,
           Admit(p) \/ RefuseRate(p) \/ RefuseConcurrency(p) \/ Release(p)
    PROVE  LimiterTypeOK'
<1> USE LimiterAssumption DEF LimiterTypeOK
<1>1. \A k \in 0..Len(calls[p]) : Drop(calls[p], k) \in Seq(0..MaxClock)
    BY SubSeqProperties DEF Drop
<1>2. CASE Admit(p)
    <2>1. calls' \in [Principals -> Seq(0..MaxClock)]
        <3>1. CASE MaxPerWindow > 0
            <4>1. ~(MaxPerWindow <= 0)
                BY <3>1
            <4>2. PICK k \in 0..Len(calls[p]) :
                      calls' = [calls EXCEPT ![p] = Append(Drop(calls[p], k), clock)]
                BY <1>2, <4>1, Zenon DEF Admit
            <4>3. Append(Drop(calls[p], k), clock) \in Seq(0..MaxClock)
                BY <1>1, AppendProperties
            <4> QED BY <4>2, <4>3
        <3>2. CASE MaxPerWindow <= 0
            BY <1>2, <3>2 DEF Admit
        <3> QED BY <3>1, <3>2
    <2>2. admitted' \in [Principals -> Seq(0..MaxClock)]
        <3>1. Append(admitted[p], clock) \in Seq(0..MaxClock)
            BY AppendProperties
        <3> QED BY <1>2, <3>1 DEF Admit
    <2>3. inFlight' \in [Principals -> Nat]
        BY <1>2 DEF Admit
    <2> QED BY <2>1, <2>2, <2>3
<1>3. CASE RefuseRate(p)
    BY <1>1, <1>3 DEF RefuseRate
<1>4. CASE RefuseConcurrency(p)
    BY <1>4 DEF RefuseConcurrency, limiterVars
<1>5. CASE Release(p)
    BY <1>5 DEF Release
<1> QED BY <1>2, <1>3, <1>4, <1>5

\* A thread that moves moves between stages.
LEMMA MoveType ==
    ASSUME pc \in [Threads -> Stages], NEW t \in Threads, NEW from, NEW to \in Stages,
           Move(t, from, to)
    PROVE  pc' \in [Threads -> Stages]
BY DEF Move

\* Recording a call keeps the types of the trail and of the thread's variables.
LEMMA FinishType ==
    ASSUME TypeOK, NEW t \in Threads, NEW stage, NEW decision \in {"allow", "deny"},
           Finish(t, stage, decision)
    PROVE  TypeOK'
<1> DEFINE row == [principal |-> call[t].principal, tool |-> call[t].tool,
                   decision |-> decision, error |-> outcome[t]]
<1>1. call[t] \in Call /\ outcome[t] \in Errors
    BY DEF TypeOK
<1>2. row \in Entry
    BY <1>1 DEF Call, Entry
<1>3. call[t].id \in 1..MaxCalls
    BY <1>1 DEF Call
<1>4. trail' \in [1..MaxCalls -> Seq(Entry)]
    <2>1. trail' = [trail EXCEPT ![call[t].id] = Append(trail[call[t].id], row)]
        BY DEF Finish
    <2>2. trail \in [1..MaxCalls -> Seq(Entry)]
        BY DEF TypeOK
    <2> HIDE DEF row
    <2>3. Append(trail[call[t].id], row) \in Seq(Entry)
        BY <1>2, <1>3, <2>2, AppendProperties
    <2> QED BY <2>1, <2>2, <2>3
<1>5. pc' \in [Threads -> Stages]
    BY MoveType DEF TypeOK, Finish, Stages
<1>6. call' \in [Threads -> Call] /\ outcome' \in [Threads -> Errors]
    BY NoCallType DEF Finish, TypeOK, Errors
<1>7. LimiterTypeOK' /\ arrived' \in 0..MaxCalls /\ ran' \subseteq 1..MaxCalls
    BY DEF Finish, TypeOK, LimiterTypeOK, limiterVars
<1> QED BY <1>4, <1>5, <1>6, <1>7 DEF TypeOK

\* Every step keeps the types.
LEMMA TypeStep == TypeOK /\ [Next]_vars => TypeOK'
<1> SUFFICES ASSUME TypeOK, [Next]_vars PROVE TypeOK'
    OBVIOUS
<1>0. MaxClock \in Nat /\ MaxCalls \in Nat
    BY LimiterAssumption, CallAssumption
<1>1. ASSUME NEW t \in Threads, NEW p \in Principals, NEW tool \in Tools, Arrive(t, p, tool)
      PROVE  TypeOK'
    <2>1. arrived' \in 1..MaxCalls
        BY <1>0, <1>1 DEF Arrive, TypeOK
    <2>2. call' \in [Threads -> Call]
        <3>1. [id |-> arrived', principal |-> p, tool |-> tool] \in Call
            BY <2>1 DEF Call
        <3> QED BY <1>1, <3>1 DEF Arrive, TypeOK
    <2>3. pc' \in [Threads -> Stages] /\ outcome' \in [Threads -> Errors]
        BY <1>1, MoveType DEF Arrive, TypeOK, Stages, Errors
    <2>4. LimiterTypeOK' /\ UNCHANGED <<ran, trail>>
        BY <1>1 DEF Arrive, TypeOK, LimiterTypeOK, limiterVars
    <2>5. arrived' \in 0..MaxCalls
        BY <1>0, <2>1
    <2> QED BY <2>2, <2>3, <2>4, <2>5 DEF TypeOK
<1>2. ASSUME NEW t \in Threads, Enter(t)
      PROVE  TypeOK'
    <2>1. call[t] \in Call
        BY DEF TypeOK
    <2>2. call[t].principal \in Principals /\ call[t].id \in 1..MaxCalls
        BY <2>1 DEF Call
    <2>3. LimiterTypeOK'
        <3>1. CASE Enabled
            BY <1>2, <2>2, <3>1, LimiterType DEF Enter, TypeOK
        <3>2. CASE ~Enabled
            <4>1. /\ admitted' = [admitted EXCEPT ![call[t].principal] =
                                      Append(admitted[call[t].principal], clock)]
                  /\ UNCHANGED <<clock, calls, inFlight>>
                BY <1>2, <3>2 DEF Enter
            <4>2. Append(admitted[call[t].principal], clock) \in Seq(0..MaxClock)
                BY <2>2, AppendProperties DEF TypeOK, LimiterTypeOK
            <4> QED BY <2>2, <4>1, <4>2 DEF TypeOK, LimiterTypeOK
        <3> QED BY <3>1, <3>2
    <2>4. pc' \in [Threads -> Stages]
        BY <1>2, MoveType DEF Enter, TypeOK, Stages
    <2>5. ran' \subseteq 1..MaxCalls
        BY <1>2, <2>2 DEF Enter, TypeOK
    <2> QED BY <1>2, <2>3, <2>4, <2>5 DEF Enter, TypeOK
<1>3. ASSUME NEW t \in Threads, Throttle(t)
      PROVE  TypeOK'
    <2>1. call[t].principal \in Principals
        BY DEF TypeOK, Call
    <2>2. LimiterTypeOK'
        BY <1>3, <2>1, LimiterType DEF Throttle, TypeOK
    <2>3. pc' \in [Threads -> Stages] /\ outcome' \in [Threads -> Errors]
        BY <1>3, MoveType DEF Throttle, TypeOK, Stages, Errors
    <2> QED BY <1>3, <2>2, <2>3 DEF Throttle, TypeOK
<1>4. ASSUME NEW t \in Threads, RunTool(t)
      PROVE  TypeOK'
    <2>1. pc' \in [Threads -> Stages]
        BY <1>4, MoveType DEF RunTool, TypeOK, Stages
    <2>2. outcome' \in [Threads -> Errors]
        BY <1>4 DEF RunTool, TypeOK, Errors
    <2>3. LimiterTypeOK'
        BY <1>4 DEF RunTool, TypeOK, LimiterTypeOK, limiterVars
    <2> QED BY <1>4, <2>1, <2>2, <2>3 DEF RunTool, TypeOK
<1>5. ASSUME NEW t \in Threads, GiveBack(t)
      PROVE  TypeOK'
    <2>1. call[t].principal \in Principals
        BY DEF TypeOK, Call
    <2>2. LimiterTypeOK'
        <3>1. CASE Enabled
            BY <1>5, <2>1, <3>1, LimiterType DEF GiveBack, TypeOK
        <3>2. CASE ~Enabled
            BY <1>5, <3>2 DEF GiveBack, TypeOK, LimiterTypeOK, limiterVars
        <3> QED BY <3>1, <3>2
    <2>3. pc' \in [Threads -> Stages]
        BY <1>5, MoveType DEF GiveBack, TypeOK, Stages
    <2> QED BY <1>5, <2>2, <2>3 DEF GiveBack, TypeOK
<1>6. ASSUME NEW t \in Threads, RecordAllow(t) \/ RecordDeny(t)
      PROVE  TypeOK'
    BY <1>6, FinishType DEF RecordAllow, RecordDeny
<1>7. CASE Tick
    <2>1. clock' \in 0..MaxClock
        BY <1>0, <1>7 DEF Tick, TypeOK, LimiterTypeOK
    <2> QED BY <1>7, <2>1 DEF Tick, TypeOK, LimiterTypeOK, limiterVars, threadVars
<1>8. CASE UNCHANGED vars
    BY <1>8 DEF vars, limiterVars, threadVars, TypeOK, LimiterTypeOK
<1> QED BY <1>1, <1>2, <1>3, <1>4, <1>5, <1>6, <1>7, <1>8 DEF Next, Proceed

\* Every variable keeps a value of its kind, for any finite pool of threads, any
\* principals and any limits (wrapper.py:82-132, ratelimit.py:48-120).
THEOREM TypeCorrect == Spec => []TypeOK
BY TypeInit, TypeStep, PTL DEF Spec

----------------------------------------------------------------------------
(* The slots of the in-flight cap.                                         *)

\* The strengthening: the counter itself never passes the cap.
WithinCap == MaxConcurrent > 0 => \A p \in Principals : inFlight[p] <= MaxConcurrent

SlotInv == TypeOK /\ SlotsAccounted /\ WithinCap

\* Threads are finite, hence so are the holders of a principal's slots.
LEMMA HoldersFinite ==
    ASSUME NEW p
    PROVE  /\ Holders(p) \subseteq Threads
           /\ IsFiniteSet(Holders(p))
           /\ Cardinality(Holders(p)) \in Nat
<1>1. Holders(p) \subseteq Threads
    BY DEF Holders
<1>2. IsFiniteSet(Threads)
    BY CallAssumption
<1> QED BY <1>1, <1>2, FS_Subset, FS_CardinalityType

\* At the start no slot is taken.
LEMMA SlotInit == Init => SlotInv
<1> SUFFICES ASSUME Init PROVE SlotInv
    OBVIOUS
<1>1. \A p \in Principals : inFlight[p] = 0
    BY DEF Init, LimiterInit
<1>2. \A p \in Principals : Holders(p) = {}
    BY DEF Init, Holders
<1>3. SlotsAccounted
    BY <1>1, <1>2, FS_EmptySet DEF SlotsAccounted
<1>4. WithinCap
    <2>1. MaxConcurrent \in Int
        BY LimiterAssumption
    <2> SUFFICES ASSUME MaxConcurrent > 0, NEW p \in Principals
                 PROVE  inFlight[p] <= MaxConcurrent
        BY DEF WithinCap
    <2>2. inFlight[p] = 0
        BY <1>1
    <2> QED BY <2>1, <2>2
<1> QED BY <1>3, <1>4, TypeInit DEF SlotInv

\* A step that leaves the counters and the holders alone keeps the invariant.
LEMMA SlotsKept ==
    ASSUME SlotsAccounted, WithinCap, inFlight' = inFlight,
           \A p \in Principals : Holders(p)' = Holders(p)
    PROVE  SlotsAccounted' /\ WithinCap'
BY DEF SlotsAccounted, WithinCap, Enabled

\* Enter takes one slot, GiveBack gives it back, and no other step touches one.
LEMMA SlotStep == SlotInv /\ [Next]_vars => SlotInv'
<1> SUFFICES ASSUME SlotInv, [Next]_vars PROVE SlotsAccounted' /\ WithinCap'
    BY TypeStep DEF SlotInv
<1> USE DEF SlotInv
<1>1. ASSUME NEW t \in Threads, NEW p \in Principals, NEW tool \in Tools, Arrive(t, p, tool)
      PROVE  SlotsAccounted' /\ WithinCap'
    <2>1. \A q \in Principals : Holders(q)' = Holders(q)
        BY <1>1 DEF Arrive, Move, Holders, TypeOK, Stages
    <2> QED BY <1>1, <2>1, SlotsKept DEF Arrive, limiterVars
<1>2. ASSUME NEW t \in Threads, Enter(t)
      PROVE  SlotsAccounted' /\ WithinCap'
    <2>0. PICK p \in Principals : p = call[t].principal
        BY DEF TypeOK, Call
    <2>1. t \notin Holders(p)
        BY <1>2, <2>0 DEF Enter, Move, Holders
    <2>2. Holders(p)' = Holders(p) \cup {t}
        BY <1>2, <2>0 DEF Enter, Move, Holders, TypeOK
    <2>3. \A q \in Principals : q # p => Holders(q)' = Holders(q)
        BY <1>2, <2>0 DEF Enter, Move, Holders, TypeOK
    <2>4. Cardinality(Holders(p)') = Cardinality(Holders(p)) + 1
        BY <2>1, <2>2, HoldersFinite, FS_AddElement
    <2>5. CASE Enabled
        <3>1. inFlight' = [inFlight EXCEPT ![p] = inFlight[p] + 1] /\ ~AtCeiling(p)
            BY <1>2, <2>0, <2>5 DEF Enter, Admit
        <3>2. inFlight \in [Principals -> Nat]
            BY DEF TypeOK, LimiterTypeOK
        <3>3. \A q \in Principals : inFlight'[q] = IF q = p THEN inFlight[p] + 1 ELSE inFlight[q]
            BY <3>1, <3>2
        <3>4. SlotsAccounted'
            <4> SUFFICES ASSUME NEW q \in Principals
                         PROVE  inFlight'[q] = Cardinality(Holders(q)')
                BY DEF SlotsAccounted
            <4>1. inFlight[q] = Cardinality(Holders(q))
                BY <2>5 DEF SlotsAccounted
            <4>2. CASE q = p
                <5>1. inFlight'[p] = inFlight[p] + 1 /\ inFlight[p] = Cardinality(Holders(p))
                    BY <2>0, <3>3, <4>1, <4>2
                <5> QED BY <2>4, <4>2, <5>1
            <4>3. CASE q # p
                BY <2>3, <3>3, <4>1, <4>3
            <4> QED BY <4>2, <4>3
        <3>5. WithinCap'
            BY <2>0, <3>1, <3>2, <3>3, LimiterAssumption DEF WithinCap, AtCeiling
        <3> QED BY <3>4, <3>5
    <2>6. CASE ~Enabled
        BY <1>2, <2>6 DEF Enter, limiterVars, SlotsAccounted, WithinCap, Enabled
    <2> QED BY <2>5, <2>6
<1>3. ASSUME NEW t \in Threads, Throttle(t)
      PROVE  SlotsAccounted' /\ WithinCap'
    <2>1. \A q \in Principals : Holders(q)' = Holders(q)
        BY <1>3 DEF Throttle, Move, Holders, TypeOK, Stages
    <2>2. inFlight' = inFlight
        BY <1>3 DEF Throttle, RefuseConcurrency, RefuseRate, limiterVars
    <2> QED BY <2>1, <2>2, SlotsKept
<1>4. ASSUME NEW t \in Threads, RunTool(t)
      PROVE  SlotsAccounted' /\ WithinCap'
    <2>1. \A q \in Principals : Holders(q)' = Holders(q)
        BY <1>4 DEF RunTool, Move, Holders, TypeOK, Stages
    <2> QED BY <1>4, <2>1, SlotsKept DEF RunTool, limiterVars
<1>5. ASSUME NEW t \in Threads, GiveBack(t)
      PROVE  SlotsAccounted' /\ WithinCap'
    <2>0. PICK p \in Principals : p = call[t].principal
        BY DEF TypeOK, Call
    <2>1. t \in Holders(p)
        BY <1>5, <2>0 DEF GiveBack, Move, Holders
    <2>2. Holders(p)' = Holders(p) \ {t}
        BY <1>5, <2>0 DEF GiveBack, Move, Holders, TypeOK
    <2>3. \A q \in Principals : q # p => Holders(q)' = Holders(q)
        BY <1>5, <2>0 DEF GiveBack, Move, Holders, TypeOK
    <2>4. Cardinality(Holders(p)') = Cardinality(Holders(p)) - 1
        BY <2>1, <2>2, HoldersFinite, FS_RemoveElement
    <2>5. Cardinality(Holders(p)) \in Nat /\ Cardinality(Holders(p)) # 0
        BY <2>1, HoldersFinite, FS_EmptySet
    <2>6. CASE Enabled
        <3>1. inFlight' = [inFlight EXCEPT ![p] = IF inFlight[p] <= 1 THEN 0 ELSE inFlight[p] - 1]
            BY <1>5, <2>0, <2>6 DEF GiveBack, Release
        <3>2. inFlight \in [Principals -> Nat]
            BY DEF TypeOK, LimiterTypeOK
        <3>3. inFlight[p] = Cardinality(Holders(p))
            BY <2>0, <2>6 DEF SlotsAccounted
        <3>4. \A q \in Principals : inFlight'[q] = IF q = p THEN inFlight[p] - 1 ELSE inFlight[q]
            BY <2>5, <3>1, <3>2, <3>3
        <3>5. SlotsAccounted'
            <4> SUFFICES ASSUME NEW q \in Principals
                         PROVE  inFlight'[q] = Cardinality(Holders(q)')
                BY DEF SlotsAccounted
            <4>1. inFlight[q] = Cardinality(Holders(q))
                BY <2>6 DEF SlotsAccounted
            <4>2. CASE q = p
                <5>1. inFlight'[p] = inFlight[p] - 1 /\ inFlight[p] = Cardinality(Holders(p))
                    BY <2>0, <3>4, <4>1, <4>2
                <5> QED BY <2>4, <4>2, <5>1
            <4>3. CASE q # p
                BY <2>3, <3>4, <4>1, <4>3
            <4> QED BY <4>2, <4>3
        <3>6. WithinCap'
            BY <2>0, <3>2, <3>4, LimiterAssumption DEF WithinCap
        <3> QED BY <3>5, <3>6
    <2>7. CASE ~Enabled
        BY <1>5, <2>7 DEF GiveBack, limiterVars, SlotsAccounted, WithinCap, Enabled
    <2> QED BY <2>6, <2>7
<1>6. ASSUME NEW t \in Threads, NEW stage \in {"released", "denied"}, NEW decision,
             Finish(t, stage, decision)
      PROVE  SlotsAccounted' /\ WithinCap'
    <2>1. \A q \in Principals : Holders(q)' = Holders(q)
        BY <1>6 DEF Finish, Move, Holders, TypeOK, Stages
    <2> QED BY <1>6, <2>1, SlotsKept DEF Finish, limiterVars
<1>7. CASE Tick \/ UNCHANGED vars
    <2>1. \A q \in Principals : Holders(q)' = Holders(q)
        BY <1>7 DEF Tick, vars, threadVars, Holders
    <2> QED BY <1>7, <2>1, SlotsKept DEF Tick, vars, limiterVars
<1> QED BY <1>1, <1>2, <1>3, <1>4, <1>5, <1>6, <1>7 DEF Next, Proceed, RecordAllow, RecordDeny

\* The invariant of the in-flight cap.
LEMMA SlotInvariant == Spec => []SlotInv
BY SlotInit, SlotStep, PTL DEF Spec

\* The in-flight counter of a principal is exactly the number of its calls
\* between acquire() and release(): no failing, denied or throttled call leaks a
\* slot, or gives one back it never had (wrapper.py:92-119).
THEOREM SlotsAlwaysAccounted == Spec => []SlotsAccounted
BY SlotInvariant, PTL DEF SlotInv

\* A principal never runs more tools at once than MaxConcurrent
\* (ratelimit.py:95-98).
THEOREM ConcurrencyBounded == Spec => []ConcurrencyBound
<1>1. SlotInv => ConcurrencyBound
    <2> SUFFICES ASSUME SlotInv, MaxConcurrent > 0, NEW p \in Principals
                 PROVE  Cardinality(Holders(p)) <= MaxConcurrent
        BY DEF ConcurrencyBound
    <2>1. inFlight[p] = Cardinality(Holders(p))
        BY DEF SlotInv, SlotsAccounted, Enabled
    <2> QED BY <2>1 DEF SlotInv, WithinCap
<1> QED BY <1>1, SlotInvariant, PTL

----------------------------------------------------------------------------
(* The sliding window.                                                     *)

\* c holds the latest entries of a; those it forgot have left the window.
Remembers(c, a, now) ==
    /\ Len(c) <= Len(a)
    /\ Len(c) <= MaxPerWindow
    /\ \A i \in 1..Len(c) : c[i] = a[Len(a) - Len(c) + i]
    /\ \A i \in 1..(Len(a) - Len(c)) : a[i] <= now - Window

Spaced(a) == \A i \in 1..(Len(a) - MaxPerWindow) : a[i + MaxPerWindow] - a[i] >= Window

WindowInv ==
    /\ TypeOK
    /\ MaxPerWindow > 0 =>
          \A p \in Principals : Remembers(calls[p], admitted[p], clock) /\ Spaced(admitted[p])

\* Trimming forgets only what has left the window.
LEMMA DropRemembers ==
    ASSUME NEW c \in Seq(Int), NEW a \in Seq(Int), NEW now \in Int, Remembers(c, a, now),
           NEW k \in 0..Len(c), \A i \in 1..k : c[i] <= now - Window
    PROVE  /\ Drop(c, k) \in Seq(Int)
           /\ Len(Drop(c, k)) = Len(c) - k
           /\ Remembers(Drop(c, k), a, now)
<1> DEFINE d == Drop(c, k)
<1>0. Window \in Int /\ MaxPerWindow \in Int
    BY LimiterAssumption
<1>1. Len(c) \in Nat /\ Len(a) \in Nat
    BY LenProperties
<1>2. /\ d \in Seq(Int)
      /\ Len(d) = Len(c) - k
      /\ \A i \in 1..(Len(c) - k) : d[i] = c[k + i]
    BY <1>1, SubSeqProperties DEF Drop
<1>3. \A i \in 1..Len(d) : d[i] = a[Len(a) - Len(d) + i]
    BY <1>1, <1>2 DEF Remembers
<1>4. \A i \in 1..(Len(a) - Len(d)) : a[i] <= now - Window
    <2> SUFFICES ASSUME NEW i \in 1..(Len(a) - Len(d)) PROVE a[i] <= now - Window
        OBVIOUS
    <2>1. CASE i <= Len(a) - Len(c)
        BY <1>1, <2>1 DEF Remembers
    <2>2. CASE i > Len(a) - Len(c)
        <3>1. i - (Len(a) - Len(c)) \in 1..k
            BY <1>1, <1>2, <2>2
        <3>2. c[i - (Len(a) - Len(c))] = a[i]
            BY <1>1, <3>1 DEF Remembers
        <3> QED BY <3>1, <3>2
    <2> QED BY <1>1, <2>1, <2>2
<1>5. Len(d) <= Len(a) /\ Len(d) <= MaxPerWindow
    BY <1>0, <1>1, <1>2 DEF Remembers
<1> QED BY <1>2, <1>3, <1>4, <1>5 DEF Remembers

\* An admission with fewer than MaxPerWindow entries left keeps both facts.
LEMMA AppendRemembers ==
    ASSUME NEW c \in Seq(Int), NEW a \in Seq(Int), NEW now \in Int, Remembers(c, a, now),
           Spaced(a), Len(c) < MaxPerWindow
    PROVE  Remembers(Append(c, now), Append(a, now), now) /\ Spaced(Append(a, now))
<1> DEFINE cc == Append(c, now)
           aa == Append(a, now)
<1>0. Window \in Int /\ MaxPerWindow \in Int
    BY LimiterAssumption
<1>1. Len(c) \in Nat /\ Len(a) \in Nat
    BY LenProperties
<1>2. /\ Len(cc) = Len(c) + 1 /\ cc[Len(c) + 1] = now
      /\ \A i \in 1..Len(c) : cc[i] = c[i]
    BY AppendProperties
<1>3. /\ Len(aa) = Len(a) + 1 /\ aa[Len(a) + 1] = now
      /\ \A i \in 1..Len(a) : aa[i] = a[i]
    BY AppendProperties
<1> HIDE DEF cc, aa
<1>4. \A i \in 1..Len(cc) : cc[i] = aa[Len(aa) - Len(cc) + i]
    <2> SUFFICES ASSUME NEW i \in 1..Len(cc) PROVE cc[i] = aa[Len(aa) - Len(cc) + i]
        OBVIOUS
    <2>1. CASE i \in 1..Len(c)
        <3>1. Len(a) - Len(c) + i \in 1..Len(a)
            BY <1>1, <2>1 DEF Remembers
        <3>2. Len(aa) - Len(cc) + i = Len(a) - Len(c) + i
            BY <1>1, <1>2, <1>3
        <3>3. aa[Len(a) - Len(c) + i] = a[Len(a) - Len(c) + i]
            BY <1>3, <3>1
        <3>4. c[i] = a[Len(a) - Len(c) + i] /\ cc[i] = c[i]
            BY <1>2, <2>1 DEF Remembers
        <3> QED BY <3>2, <3>3, <3>4
    <2>2. CASE i = Len(c) + 1
        BY <1>1, <1>2, <1>3, <2>2
    <2> QED BY <1>1, <1>2, <2>1, <2>2
<1>5. \A i \in 1..(Len(aa) - Len(cc)) : aa[i] <= now - Window
    <2> SUFFICES ASSUME NEW i \in 1..(Len(aa) - Len(cc)) PROVE aa[i] <= now - Window
        OBVIOUS
    <2>1. i \in 1..(Len(a) - Len(c)) /\ i \in 1..Len(a)
        BY <1>1, <1>2, <1>3
    <2>2. aa[i] = a[i] /\ a[i] <= now - Window
        BY <1>3, <2>1 DEF Remembers
    <2> QED BY <2>2
<1>6. Remembers(cc, aa, now)
    BY <1>0, <1>1, <1>2, <1>3, <1>4, <1>5 DEF Remembers
<1>7. Spaced(aa)
    <2> SUFFICES ASSUME NEW i \in 1..(Len(aa) - MaxPerWindow)
                 PROVE  aa[i + MaxPerWindow] - aa[i] >= Window
        BY DEF Spaced
    <2>0. i \in 1..Len(a) /\ MaxPerWindow > 0
        BY <1>0, <1>1, <1>3
    <2>1. CASE i + MaxPerWindow <= Len(a)
        <3>1. i \in 1..(Len(a) - MaxPerWindow) /\ i + MaxPerWindow \in 1..Len(a)
            BY <1>0, <1>1, <2>0, <2>1
        <3>2. a[i + MaxPerWindow] - a[i] >= Window
            BY <3>1 DEF Spaced
        <3>3. aa[i + MaxPerWindow] = a[i + MaxPerWindow] /\ aa[i] = a[i]
            BY <1>3, <2>0, <3>1
        <3> QED BY <3>2, <3>3
    <2>2. CASE i + MaxPerWindow = Len(a) + 1
        <3>1. i \in 1..(Len(a) - Len(c))
            BY <1>0, <1>1, <2>0, <2>2
        <3>2. a[i] <= now - Window
            BY <3>1 DEF Remembers
        <3>3. aa[i] = a[i] /\ aa[i + MaxPerWindow] = now /\ a[i] \in Int
            BY <1>3, <2>0, <2>2
        <3> QED BY <1>0, <3>2, <3>3
    <2>3. i + MaxPerWindow <= Len(a) \/ i + MaxPerWindow = Len(a) + 1
        BY <1>0, <1>1, <1>3
    <2> QED BY <2>1, <2>2, <2>3, Zenon
<1> QED BY <1>6, <1>7 DEF cc, aa

\* Time only moves entries out of the window.
LEMMA LaterRemembers ==
    ASSUME NEW c \in Seq(Int), NEW a \in Seq(Int), NEW now \in Int, Remembers(c, a, now)
    PROVE  Remembers(c, a, now + 1)
<1>1. \A i \in 1..(Len(a) - Len(c)) : a[i] <= now + 1 - Window
    <2> SUFFICES ASSUME NEW i \in 1..(Len(a) - Len(c)) PROVE a[i] <= now + 1 - Window
        OBVIOUS
    <2>0. \A x, w \in Int : x <= now - w => x <= now + 1 - w
        OBVIOUS
    <2>1. i \in 1..Len(a)
        <3>1. Len(c) \in Nat /\ Len(a) \in Nat
            BY LenProperties
        <3> QED BY <3>1
    <2>2. a[i] \in Int
        BY <2>1
    <2>3. a[i] <= now - Window
        BY DEF Remembers
    <2>4. Window \in Int
        BY LimiterAssumption
    <2> QED BY <2>0, <2>2, <2>3, <2>4
<1>2. Len(c) <= Len(a) /\ Len(c) <= MaxPerWindow
    BY DEF Remembers
<1>3. \A i \in 1..Len(c) : c[i] = a[Len(a) - Len(c) + i]
    BY DEF Remembers
<1>4. MaxPerWindow \in Int /\ Window \in Int
    BY LimiterAssumption
<1> QED BY <1>1, <1>2, <1>3, <1>4 DEF Remembers

\* At the start the deque is empty and nothing was admitted.
LEMMA WindowInit == Init => WindowInv
<1> SUFFICES ASSUME Init PROVE WindowInv
    OBVIOUS
<1>1. Window \in Int /\ MaxPerWindow \in Int
    BY LimiterAssumption
<1>2. ASSUME MaxPerWindow > 0
      PROVE  Remembers(<<>>, <<>>, clock) /\ Spaced(<<>>)
    <2>1. Len(<<>>) = 0
        OBVIOUS
    <2> QED BY <1>1, <1>2, <2>1 DEF Remembers, Spaced
<1>3. \A p \in Principals : calls[p] = <<>> /\ admitted[p] = <<>>
    BY DEF Init, LimiterInit
<1> QED BY <1>2, <1>3, TypeInit, Zenon DEF WindowInv

\* acquire() keeps the deque a window of the history, and the history spaced.
LEMMA WindowStep == WindowInv /\ [Next]_vars => WindowInv'
<1> SUFFICES ASSUME WindowInv, [Next]_vars, MaxPerWindow > 0, NEW p \in Principals
             PROVE  Remembers(calls[p], admitted[p], clock)' /\ Spaced(admitted[p])'
    BY TypeStep DEF WindowInv
<1>0. /\ clock \in Int
      /\ calls[p] \in Seq(Int)
      /\ admitted[p] \in Seq(Int)
    <2>1. MaxClock \in Nat
        BY LimiterAssumption
    <2>2. clock \in 0..MaxClock /\ calls[p] \in Seq(0..MaxClock) /\ admitted[p] \in Seq(0..MaxClock)
        BY DEF WindowInv, TypeOK, LimiterTypeOK
    <2> QED BY <2>1, <2>2
<1>1. Remembers(calls[p], admitted[p], clock) /\ Spaced(admitted[p])
    BY Zenon DEF WindowInv
<1>2. ASSUME calls'[p] = calls[p], admitted'[p] = admitted[p], clock' = clock
      PROVE  Remembers(calls[p], admitted[p], clock)' /\ Spaced(admitted[p])'
    BY <1>1, <1>2, Zenon
<1>3. ASSUME NEW k \in 0..Len(calls[p]), clock' = clock, Trims(calls[p], k),
             calls'[p] = Drop(calls[p], k), admitted'[p] = admitted[p]
      PROVE  Remembers(calls[p], admitted[p], clock)' /\ Spaced(admitted[p])'
    <2>1. Remembers(Drop(calls[p], k), admitted[p], clock)
        BY <1>0, <1>1, <1>3, DropRemembers DEF Trims
    <2> QED BY <1>1, <1>3, <2>1, Zenon
<1>4. ASSUME NEW k \in 0..Len(calls[p]), clock' = clock, Trims(calls[p], k),
             Len(calls[p]) - k < MaxPerWindow,
             calls'[p] = Append(Drop(calls[p], k), clock),
             admitted'[p] = Append(admitted[p], clock)
      PROVE  Remembers(calls[p], admitted[p], clock)' /\ Spaced(admitted[p])'
    <2>1. /\ Drop(calls[p], k) \in Seq(Int)
          /\ Len(Drop(calls[p], k)) = Len(calls[p]) - k
          /\ Remembers(Drop(calls[p], k), admitted[p], clock)
        BY <1>0, <1>1, <1>4, DropRemembers DEF Trims
    <2>2. Len(Drop(calls[p], k)) < MaxPerWindow
        BY <1>4, <2>1
    <2>3. /\ Remembers(Append(Drop(calls[p], k), clock), Append(admitted[p], clock), clock)
          /\ Spaced(Append(admitted[p], clock))
        BY <1>0, <1>1, <2>1, <2>2, AppendRemembers
    <2> QED BY <1>4, <2>3, Zenon
<1>5. calls \in [Principals -> Seq(0..MaxClock)] /\ admitted \in [Principals -> Seq(0..MaxClock)]
    BY DEF WindowInv, TypeOK, LimiterTypeOK
<1>6. Enabled /\ ~(MaxPerWindow <= 0)
    BY LimiterAssumption DEF Enabled
<1>7. ASSUME NEW t \in Threads, Enter(t)
      PROVE  Remembers(calls[p], admitted[p], clock)' /\ Spaced(admitted[p])'
    <2>1. Admit(call[t].principal) /\ clock' = clock
        BY <1>6, <1>7 DEF Enter
    <2>2. CASE p = call[t].principal
        <3>1. PICK k \in 0..Len(calls[p]) :
                  /\ Trims(calls[p], k)
                  /\ Len(calls[p]) - k < MaxPerWindow
                  /\ calls' = [calls EXCEPT ![p] = Append(Drop(calls[p], k), clock)]
            BY <1>6, <2>1, <2>2, Zenon DEF Admit
        <3>2. calls'[p] = Append(Drop(calls[p], k), clock)
            BY <1>5, <3>1, Zenon
        <3>3. admitted'[p] = Append(admitted[p], clock)
            BY <1>5, <2>1, <2>2, Zenon DEF Admit
        <3> QED BY <1>4, <2>1, <3>1, <3>2, <3>3
    <2>3. CASE p # call[t].principal
        <3>1. calls'[p] = calls[p] /\ admitted'[p] = admitted[p]
            BY <1>5, <2>1, <2>3, Zenon DEF Admit
        <3> QED BY <1>2, <2>1, <3>1
    <2> QED BY <2>2, <2>3
<1>8. ASSUME NEW t \in Threads, Throttle(t)
      PROVE  Remembers(calls[p], admitted[p], clock)' /\ Spaced(admitted[p])'
    <2>1. /\ RefuseConcurrency(call[t].principal) \/ RefuseRate(call[t].principal)
          /\ clock' = clock
        BY <1>8 DEF Throttle
    <2>2. CASE RefuseConcurrency(call[t].principal)
        BY <1>2, <2>1, <2>2 DEF RefuseConcurrency, limiterVars
    <2>3. CASE RefuseRate(call[t].principal) /\ p = call[t].principal
        <3>1. PICK k \in 0..Len(calls[p]) :
                  /\ Trims(calls[p], k)
                  /\ calls' = [calls EXCEPT ![p] = Drop(calls[p], k)]
            BY <2>3, Zenon DEF RefuseRate
        <3>2. calls'[p] = Drop(calls[p], k) /\ admitted' = admitted
            BY <1>5, <2>3, <3>1, Zenon DEF RefuseRate
        <3> QED BY <1>3, <2>1, <3>1, <3>2
    <2>4. CASE RefuseRate(call[t].principal) /\ p # call[t].principal
        <3>1. calls'[p] = calls[p] /\ admitted'[p] = admitted[p]
            BY <1>5, <2>4, Zenon DEF RefuseRate
        <3> QED BY <1>2, <2>1, <3>1
    <2> QED BY <2>1, <2>2, <2>3, <2>4
<1>9. CASE Tick
    <2>1. clock' = clock + 1 /\ UNCHANGED <<calls, admitted>>
        BY <1>9 DEF Tick, limiterVars
    <2>2. Remembers(calls[p], admitted[p], clock + 1)
        BY <1>0, <1>1, LaterRemembers
    <2> QED BY <1>1, <2>1, <2>2, Zenon
<1>10. ASSUME NEW t \in Threads, NEW q \in Principals, NEW tool \in Tools,
              \/ Arrive(t, q, tool) \/ RunTool(t) \/ GiveBack(t)
              \/ RecordAllow(t) \/ RecordDeny(t)
       PROVE  Remembers(calls[p], admitted[p], clock)' /\ Spaced(admitted[p])'
    <2>1. calls' = calls /\ admitted' = admitted /\ clock' = clock
        BY <1>6, <1>10 DEF Arrive, RunTool, GiveBack, Release, RecordAllow, RecordDeny, Finish,
                           limiterVars
    <2> QED BY <1>2, <2>1
<1>11. CASE UNCHANGED vars
    BY <1>2, <1>11 DEF vars, limiterVars
<1>12. Tools # {}
    BY CallAssumption
<1> QED BY <1>7, <1>8, <1>9, <1>10, <1>11, <1>12, Zenon DEF Next, Proceed

\* However the window slides, it never holds more than MaxPerWindow admissions
\* of a principal, although the deque forgets entries (ratelimit.py:72-77,
\* 104-110).
THEOREM WindowBounded == Spec => []WindowBound
<1>1. WindowInv => WindowBound
    BY DEF WindowInv, WindowBound, Spaced
<1> QED BY <1>1, WindowInit, WindowStep, PTL DEF Spec

----------------------------------------------------------------------------
(* One audit row per call.                                                 *)

\* What is known of the call a thread serves.
Told(t) ==
    pc[t] # "idle" =>
        /\ call[t].id \in 1..arrived
        /\ call[t].id \in ran <=> pc[t] \in {"running", "returned", "released"}
        /\ pc[t] = "denied" <=> outcome[t] \in {"forbidden", "rate_limited"}
        /\ call[t].tool \notin Allowed[call[t].principal] => outcome[t] = "forbidden"

\* A thread without a call has no error left over from the last one.
NoLeftover(t) == pc[t] = "idle" => outcome[t] = ""

\* No two threads serve one call.
Apart ==
    \A t, u \in Threads :
        pc[t] # "idle" /\ pc[u] # "idle" /\ call[t].id = call[u].id => t = u

\* What OneRowPerCall says of one call, and the same without its LET and IF.
OneRow(id) ==
    /\ Len(trail[id]) = IF InProgress(id) THEN 0 ELSE 1
    /\ \A i \in DOMAIN trail[id] :
          LET row == trail[id][i]
          IN  /\ row.decision = "allow" <=> id \in ran
              /\ row.decision = "deny" <=> row.error \in {"forbidden", "rate_limited"}
              /\ row.tool \notin Allowed[row.principal] => row.error = "forbidden"

Recorded(id) ==
    /\ InProgress(id) => trail[id] = <<>>
    /\ ~InProgress(id) => Len(trail[id]) = 1
    /\ \A i \in DOMAIN trail[id] :
          /\ trail[id][i].decision = "allow" <=> id \in ran
          /\ trail[id][i].decision = "deny" <=> trail[id][i].error \in {"forbidden", "rate_limited"}
          /\ trail[id][i].tool \notin Allowed[trail[id][i].principal] => trail[id][i].error = "forbidden"

RowInv ==
    /\ TypeOK /\ Apart
    /\ \A t \in Threads : Told(t) /\ NoLeftover(t)
    /\ ran \subseteq 1..arrived
    /\ \A id \in 1..MaxCalls : id > arrived => trail[id] = <<>>
    /\ \A id \in 1..arrived : Recorded(id)

LEMMA RowInit == Init => RowInv
<1> SUFFICES ASSUME Init PROVE RowInv
    OBVIOUS
<1>1. TypeOK
    BY TypeInit
<1>2. arrived = 0 /\ ran = {} /\ \A t \in Threads : pc[t] = "idle"
    BY DEF Init
<1>3. \A id \in 1..MaxCalls : trail[id] = <<>>
    BY DEF Init
<1>4. Apart /\ \A t \in Threads : Told(t) /\ NoLeftover(t)
    BY <1>2 DEF Apart, Told, NoLeftover, Init
<1>5. 1..arrived = {}
    BY <1>2
<1> QED BY <1>1, <1>2, <1>3, <1>4, <1>5 DEF RowInv

\* A thread that goes on within its call records nothing.
LEMMA RowsAlong ==
    ASSUME RowInv, TypeOK', NEW t \in Threads, NEW s \in Stages \ {"idle"},
           pc[t] # "idle", pc' = [pc EXCEPT ![t] = s],
           UNCHANGED <<call, arrived, trail>>,
           \A u \in Threads \ {t} : outcome'[u] = outcome[u],
           ran \subseteq ran', ran' \subseteq ran \cup {call[t].id},
           Told(t)'
    PROVE  RowInv'
<1> USE DEF RowInv
<1>0. call[t].id \in 1..arrived
    BY DEF Told
<1>1. \A u \in Threads : pc'[u] # "idle" <=> pc[u] # "idle"
    BY DEF TypeOK
<1>2. \A u \in Threads : u # t => pc'[u] = pc[u]
    BY DEF TypeOK
<1>3. Apart'
    BY <1>1 DEF Apart
<1>4. ASSUME NEW u \in Threads PROVE Told(u)' /\ NoLeftover(u)'
    <2>0. NoLeftover(u)'
        BY <1>1, <1>2 DEF NoLeftover, TypeOK
    <2>1. CASE u = t
        BY <2>0, <2>1
    <2>2. CASE u # t
        <3>1. pc[u] # "idle" => (call[u].id \in ran' <=> call[u].id \in ran)
            BY <2>2 DEF Apart
        <3> QED BY <1>2, <2>0, <2>2, <3>1 DEF Told
    <2> QED BY <2>1, <2>2
<1>5. ran' \subseteq 1..arrived'
    BY <1>0
<1>6. ASSUME NEW id \in 1..arrived' PROVE Recorded(id)'
    <2>1. InProgress(id)' <=> InProgress(id)
        BY <1>1 DEF InProgress
    <2>2. CASE id = call[t].id
        <3>1. InProgress(id)
            BY <2>2 DEF InProgress
        <3>2. trail[id] = <<>>
            BY <3>1 DEF Recorded
        <3> QED BY <2>1, <3>1, <3>2 DEF Recorded
    <2>3. CASE id # call[t].id
        <3>1. id \in ran' <=> id \in ran
            BY <2>3
        <3> QED BY <2>1, <3>1 DEF Recorded
    <2> QED BY <2>2, <2>3
<1> QED BY <1>3, <1>4, <1>5, <1>6

\* A call that begins has a number of its own, and no row.
LEMMA RowsArrive ==
    ASSUME RowInv, TypeOK', NEW t \in Threads, NEW p \in Principals, NEW tool \in Tools,
           Arrive(t, p, tool)
    PROVE  RowInv'
<1> USE DEF RowInv
<1>0. arrived \in Nat /\ arrived' = arrived + 1 /\ arrived' \in 1..MaxCalls
    BY CallAssumption DEF Arrive, TypeOK
<1>1. call' = [call EXCEPT ![t] = [id |-> arrived', principal |-> p, tool |-> tool]]
    BY DEF Arrive
<1>2. call'[t].id = arrived' /\ call'[t].principal = p /\ call'[t].tool = tool
    BY <1>1 DEF TypeOK
<1>3. \A u \in Threads \ {t} : call'[u] = call[u] /\ pc'[u] = pc[u] /\ outcome'[u] = outcome[u]
    BY <1>1 DEF Arrive, Move, TypeOK
<1>4. pc[t] = "idle" /\ pc'[t] \in {"admitting", "denied"} /\ UNCHANGED <<ran, trail>>
    BY DEF Arrive, Move, TypeOK
<1>5. \A u \in Threads \ {t} : pc[u] # "idle" => call[u].id \in 1..arrived
    BY DEF Told
<1>6. Apart'
    BY <1>0, <1>2, <1>3, <1>5 DEF Apart
<1>7. ASSUME NEW u \in Threads PROVE Told(u)' /\ NoLeftover(u)'
    <2>0. NoLeftover(u)'
        BY <1>3, <1>4 DEF NoLeftover
    <2>1. CASE u = t
        <3>1. call'[t].id \notin ran'
            BY <1>0, <1>2, <1>4
        <3>2. CASE Permitted(p, tool) /\ Move(t, "idle", "admitting") /\ UNCHANGED outcome
            <4>1. tool \in Allowed[p] /\ pc'[t] = "admitting"
                BY <3>2 DEF Permitted, Move, TypeOK
            <4>2. outcome'[t] \notin {"forbidden", "rate_limited"}
                BY <1>4, <3>2 DEF NoLeftover
            <4> QED BY <1>0, <1>2, <2>0, <2>1, <3>1, <4>1, <4>2 DEF Told
        <3>3. CASE Move(t, "idle", "denied") /\ outcome' = [outcome EXCEPT ![t] = "forbidden"]
            <4>1. pc'[t] = "denied" /\ outcome'[t] = "forbidden"
                BY <3>3 DEF Move, TypeOK
            <4> QED BY <1>0, <1>2, <2>0, <2>1, <3>1, <4>1 DEF Told
        <3> QED BY <3>2, <3>3 DEF Arrive
    <2>2. CASE u # t
        BY <1>0, <1>3, <1>4, <2>0, <2>2 DEF Told
    <2> QED BY <2>0, <2>1, <2>2
<1>8. ran' \subseteq 1..arrived' /\ \A id \in 1..MaxCalls : id > arrived' => trail'[id] = <<>>
    BY <1>0, <1>4
<1>9. ASSUME NEW id \in 1..arrived' PROVE Recorded(id)'
    <2>1. CASE id = arrived'
        <3>1. InProgress(id)' /\ trail'[id] = <<>>
            BY <1>0, <1>2, <1>4, <2>1 DEF InProgress
        <3> QED BY <3>1 DEF Recorded
    <2>2. CASE id \in 1..arrived
        <3>1. InProgress(id)' <=> InProgress(id)
            BY <1>0, <1>2, <1>3, <1>4, <2>2 DEF InProgress
        <3> QED BY <1>4, <2>2, <3>1 DEF Recorded
    <2> QED BY <1>0, <2>1, <2>2
<1> QED BY <1>6, <1>7, <1>8, <1>9

\* The row that ends a call is its only one, and tells what happened to it.
LEMMA RowsFinish ==
    ASSUME RowInv, TypeOK', NEW t \in Threads,
           \/ Finish(t, "released", "allow")
           \/ Finish(t, "denied", "deny")
    PROVE  RowInv'
<1> USE DEF RowInv
<1> DEFINE n == call[t].id
<1>0. arrived \in Nat /\ MaxCalls \in Nat /\ arrived <= MaxCalls
    BY CallAssumption DEF TypeOK
<1>1. PICK stage \in {"released", "denied"}, decision \in {"allow", "deny"} :
          /\ Finish(t, stage, decision)
          /\ stage = "released" <=> decision = "allow"
    <2>1. CASE Finish(t, "released", "allow")
        BY <2>1, Zenon
    <2>2. CASE Finish(t, "denied", "deny")
        BY <2>2, Zenon
    <2> QED BY <2>1, <2>2
<1> DEFINE row == [principal |-> call[t].principal, tool |-> call[t].tool,
                   decision |-> decision, error |-> outcome[t]]
<1>2. pc[t] = stage /\ n \in 1..arrived /\ n \in 1..MaxCalls
    <2>1. pc[t] = stage
        BY <1>1 DEF Finish, Move
    <2>2. n \in 1..arrived
        BY <2>1 DEF Told
    <2> QED BY <1>0, <2>1, <2>2
<1>3. /\ trail' = [trail EXCEPT ![n] = Append(trail[n], row)]
      /\ call' = [call EXCEPT ![t] = NoCall] /\ outcome' = [outcome EXCEPT ![t] = ""]
      /\ pc' = [pc EXCEPT ![t] = "idle"] /\ UNCHANGED <<arrived, ran>>
    BY <1>1 DEF Finish, Move
<1>4. \A u \in Threads \ {t} : call'[u] = call[u] /\ pc'[u] = pc[u] /\ outcome'[u] = outcome[u]
    BY <1>3 DEF TypeOK
<1>5. pc'[t] = "idle" /\ outcome'[t] = ""
    BY <1>3 DEF TypeOK
<1>6. Apart'
    BY <1>4, <1>5 DEF Apart
<1>7. \A u \in Threads : Told(u)' /\ NoLeftover(u)'
    <2> SUFFICES ASSUME NEW u \in Threads PROVE Told(u)' /\ NoLeftover(u)'
        OBVIOUS
    <2>1. CASE u = t
        BY <1>5, <2>1 DEF Told, NoLeftover
    <2>2. CASE u # t
        <3>1. Told(u) /\ NoLeftover(u) /\ UNCHANGED <<arrived, ran>>
            BY <1>3
        <3>2. call'[u] = call[u] /\ pc'[u] = pc[u] /\ outcome'[u] = outcome[u]
            BY <1>4, <2>2
        <3> HIDE DEF RowInv
        <3> QED BY <3>1, <3>2 DEF Told, NoLeftover
    <2> QED BY <2>1, <2>2
<1>8. InProgress(n) /\ trail[n] = <<>>
    <2>1. InProgress(n)
        BY <1>2 DEF InProgress
    <2> QED BY <1>2, <2>1 DEF Recorded
<1>9. trail'[n] = <<row>>
    <2>1. trail \in [1..MaxCalls -> Seq(Entry)]
        BY DEF TypeOK
    <2>2. trail' = [trail EXCEPT ![n] = Append(<<>>, row)]
        BY <1>3, <1>8
    <2>3. trail'[n] = Append(<<>>, row)
        BY <1>2, <2>1, <2>2
    <2>4. \A x : Append(<<>>, x) = <<x>>
        OBVIOUS
    <2> HIDE DEF row
    <2> QED BY <2>3, <2>4
<1>10. \A id \in 1..MaxCalls \ {n} : trail'[id] = trail[id]
    BY <1>3 DEF TypeOK
<1>11. ASSUME NEW id \in 1..arrived' PROVE Recorded(id)'
    <2>1. CASE id = n
        <3>1. ~InProgress(id)'
            BY <1>2, <1>4, <1>5, <2>1 DEF InProgress, Apart
        <3>2. trail'[id] = <<row>>
            BY <1>9, <2>1
        <3>3. Len(trail'[id]) = 1 /\ DOMAIN trail'[id] = {1} /\ trail'[id][1] = row
            BY <3>2
        <3>4. row.decision = "allow" <=> id \in ran'
            BY <1>1, <1>2, <1>3, <2>1 DEF Told
        <3>5. row.decision = "deny" <=> row.error \in {"forbidden", "rate_limited"}
            BY <1>1, <1>2 DEF Told
        <3>6. row.tool \notin Allowed[row.principal] => row.error = "forbidden"
            BY <1>2 DEF Told
        <3> HIDE DEF row
        <3> QED BY <3>1, <3>3, <3>4, <3>5, <3>6 DEF Recorded
    <2>2. CASE id # n
        <3>1. InProgress(id)' <=> InProgress(id)
            BY <1>4, <1>5, <2>2 DEF InProgress
        <3>2. trail'[id] = trail[id] /\ Recorded(id)
            <4>1. arrived' = arrived
                BY <1>3
            <4>2. id \in 1..MaxCalls /\ id \in 1..arrived
                BY <1>0, <4>1
            <4> QED BY <1>10, <2>2, <4>2
        <3>3. ran' = ran
            BY <1>3
        <3> HIDE DEF RowInv
        <3> QED BY <3>1, <3>2, <3>3 DEF Recorded
    <2> QED BY <2>1, <2>2
<1>12. \A id \in 1..MaxCalls : id > arrived' => trail'[id] = <<>>
    <2>1. arrived' = arrived
        BY <1>3
    <2>2. \A id \in 1..MaxCalls : id > arrived => id # n
        BY <1>0, <1>2
    <2> QED BY <1>10, <2>1, <2>2
<1> QED BY <1>3, <1>6, <1>7, <1>11, <1>12

LEMMA RowStep == RowInv /\ [Next]_vars => RowInv'
<1> SUFFICES ASSUME RowInv, [Next]_vars PROVE RowInv'
    OBVIOUS
<1>0. TypeOK /\ TypeOK'
    BY TypeStep DEF RowInv
<1>1. ASSUME NEW t \in Threads, NEW p \in Principals, NEW tool \in Tools, Arrive(t, p, tool)
      PROVE  RowInv'
    BY <1>0, <1>1, RowsArrive
<1>2. ASSUME NEW t \in Threads, Enter(t) PROVE RowInv'
    <2>1. pc[t] = "admitting" /\ pc' = [pc EXCEPT ![t] = "running"] /\ pc'[t] = "running"
        BY <1>0, <1>2 DEF Enter, Move, TypeOK
    <2>2. UNCHANGED <<call, outcome, arrived, trail>> /\ ran' = ran \cup {call[t].id}
        BY <1>2 DEF Enter
    <2>3. Told(t)'
        BY <2>1, <2>2 DEF RowInv, Told
    <2> QED BY <1>0, <2>1, <2>2, <2>3, RowsAlong DEF Stages
<1>3. ASSUME NEW t \in Threads, Throttle(t) PROVE RowInv'
    <2>1. pc[t] = "admitting" /\ pc' = [pc EXCEPT ![t] = "denied"] /\ pc'[t] = "denied"
        BY <1>0, <1>3 DEF Throttle, Move, TypeOK
    <2>2. /\ UNCHANGED <<call, arrived, trail, ran>>
          /\ outcome' = [outcome EXCEPT ![t] = "rate_limited"]
        BY <1>3 DEF Throttle
    <2>3. outcome'[t] = "rate_limited" /\ \A u \in Threads \ {t} : outcome'[u] = outcome[u]
        BY <1>0, <2>2 DEF TypeOK
    <2>4. Told(t)'
        BY <2>1, <2>2, <2>3 DEF RowInv, Told
    <2> QED BY <1>0, <2>1, <2>2, <2>3, <2>4, RowsAlong DEF Stages
<1>4. ASSUME NEW t \in Threads, RunTool(t) PROVE RowInv'
    <2>1. pc[t] = "running" /\ pc' = [pc EXCEPT ![t] = "returned"] /\ pc'[t] = "returned"
        BY <1>0, <1>4 DEF RunTool, Move, TypeOK
    <2>2. UNCHANGED <<call, arrived, trail, ran>>
        BY <1>4 DEF RunTool
    <2>3. /\ outcome'[t] \in {"", "tool_error", "exception"}
          /\ \A u \in Threads \ {t} : outcome'[u] = outcome[u]
        BY <1>0, <1>4 DEF RunTool, TypeOK
    <2>4. Told(t)'
        BY <2>1, <2>2, <2>3 DEF RowInv, Told
    <2> QED BY <1>0, <2>1, <2>2, <2>3, <2>4, RowsAlong DEF Stages
<1>5. ASSUME NEW t \in Threads, GiveBack(t) PROVE RowInv'
    <2>1. pc[t] = "returned" /\ pc' = [pc EXCEPT ![t] = "released"] /\ pc'[t] = "released"
        BY <1>0, <1>5 DEF GiveBack, Move, TypeOK
    <2>2. UNCHANGED <<call, outcome, arrived, trail, ran>>
        BY <1>5 DEF GiveBack
    <2>3. Told(t)'
        BY <2>1, <2>2 DEF RowInv, Told
    <2> QED BY <1>0, <2>1, <2>2, <2>3, RowsAlong DEF Stages
<1>6. ASSUME NEW t \in Threads, RecordAllow(t) \/ RecordDeny(t) PROVE RowInv'
    BY <1>0, <1>6, RowsFinish DEF RecordAllow, RecordDeny
<1>7. CASE Tick \/ UNCHANGED vars
    <2>1. UNCHANGED <<pc, call, outcome, arrived, ran, trail>>
        BY <1>7 DEF Tick, vars, threadVars
    <2>2. Apart' /\ \A t \in Threads : Told(t)' /\ NoLeftover(t)'
        BY <2>1 DEF RowInv, Apart, Told, NoLeftover
    <2>3. \A id \in 1..arrived : Recorded(id)'
        <3> SUFFICES ASSUME NEW id \in 1..arrived PROVE Recorded(id)'
            OBVIOUS
        <3>1. Recorded(id)
            BY DEF RowInv
        <3>2. InProgress(id)' <=> InProgress(id)
            BY <2>1 DEF InProgress
        <3> QED BY <2>1, <3>1, <3>2 DEF Recorded
    <2> QED BY <1>0, <2>1, <2>2, <2>3 DEF RowInv
<1> QED BY <1>1, <1>2, <1>3, <1>4, <1>5, <1>6, <1>7, Zenon DEF Next, Proceed

\* Every call that is over has left one audit row, a call under way none; the
\* row allows exactly the calls whose tool was started, and its error tells a
\* refusal from a failure of the tool (wrapper.py:104-130), for any number of
\* threads and calls.
THEOREM OneRowAlways == Spec => []OneRowPerCall
<1>1. RowInv => OneRowPerCall
    <2> SUFFICES ASSUME RowInv, NEW id \in 1..arrived
                 PROVE  Recorded(id) => OneRow(id)
        BY DEF RowInv, OneRow, OneRowPerCall
    <2>1. ASSUME InProgress(id), trail[id] = <<>> PROVE Len(trail[id]) = 0
        BY <2>1
    <2> QED BY <2>1 DEF Recorded, OneRow
<1> QED BY <1>1, RowInit, RowStep, PTL DEF Spec

----------------------------------------------------------------------------
(* The limiter in its wrapper implements the admission rule.               *)

\* The rule's variables that are not the model's own.
RuleHolds == [p \in Principals |-> Holders(p)]
Throttled == {t \in Threads : pc[t] = "denied" /\ outcome[t] = "rate_limited"}

RuleInv == SlotInv /\ WindowInv

\* With room in the deque after a trim, the MaxPerWindow-th latest admission has
\* left the window; without, it has not.
LEMMA TrimDecides ==
    ASSUME NEW c \in Seq(Int), NEW a \in Seq(Int), NEW k \in 0..Len(c), clock \in Int,
           MaxPerWindow > 0, Remembers(c, a, clock), Trims(c, k)
    PROVE  Len(c) - k < MaxPerWindow <=>
               (Len(a) >= MaxPerWindow => a[Len(a) - MaxPerWindow + 1] <= clock - Window)
<1>0. Window \in Int /\ MaxPerWindow \in Int
    BY LimiterAssumption
<1>1. Len(c) \in Nat /\ Len(a) \in Nat /\ Len(c) <= Len(a) /\ Len(c) <= MaxPerWindow
    BY LenProperties DEF Remembers
<1>2. /\ Drop(c, k) \in Seq(Int)
      /\ Len(Drop(c, k)) = Len(c) - k
      /\ Remembers(Drop(c, k), a, clock)
    BY DropRemembers DEF Trims
<1>3. ASSUME Len(c) - k < MaxPerWindow, Len(a) >= MaxPerWindow
      PROVE  a[Len(a) - MaxPerWindow + 1] <= clock - Window
    <2>1. Len(a) - MaxPerWindow + 1 \in 1..(Len(a) - Len(Drop(c, k)))
        BY <1>0, <1>1, <1>2, <1>3
    <2> QED BY <1>2, <2>1 DEF Remembers
<1>4. ASSUME ~(Len(c) - k < MaxPerWindow)
      PROVE  Len(a) >= MaxPerWindow /\ ~(a[Len(a) - MaxPerWindow + 1] <= clock - Window)
    <2>1. k = 0 /\ Len(c) = MaxPerWindow /\ Len(a) >= MaxPerWindow
        BY <1>0, <1>1, <1>4
    <2>2. c[1] > clock - Window
        BY <1>0, <1>1, <2>1 DEF Trims
    <2>3. 1 \in 1..Len(c)
        BY <1>0, <2>1
    <2>4. c[1] = a[Len(a) - Len(c) + 1]
        BY <2>3 DEF Remembers
    <2>5. c[1] \in Int /\ clock - Window \in Int
        BY <1>0, <2>3
    <2>6. \A x, y \in Int : x > y => ~(x <= y)
        OBVIOUS
    <2>7. Len(a) - MaxPerWindow + 1 = Len(a) - Len(c) + 1
        BY <2>1
    <2> QED BY <2>1, <2>2, <2>4, <2>5, <2>6, <2>7
<1> QED BY <1>3, <1>4

\* The counter answers the rule's question about the holders.
LEMMA CeilingDecides ==
    ASSUME RuleInv, NEW p \in Principals
    PROVE  Rule!WithinCeiling(p) <=> ~AtCeiling(p)
<1>1. Cardinality(Holders(p)) \in Nat /\ MaxConcurrent \in Int
    BY HoldersFinite, LimiterAssumption
<1>2. MaxConcurrent > 0 => inFlight[p] = Cardinality(Holders(p))
    BY DEF RuleInv, SlotInv, SlotsAccounted, Enabled
<1>3. Rule!Cardinality(Holders(p)) = Cardinality(Holders(p))
    BY DEF Rule!Cardinality, Cardinality
<1> QED BY <1>1, <1>2, <1>3 DEF Rule!WithinCeiling, AtCeiling

\* With a rate limit, what the window's invariant says of one principal.
LEMMA RuleTypes ==
    ASSUME RuleInv, MaxPerWindow > 0, NEW p \in Principals
    PROVE  /\ clock \in Int /\ calls[p] \in Seq(Int) /\ admitted[p] \in Seq(Int)
           /\ Remembers(calls[p], admitted[p], clock)
<1>1. MaxClock \in Nat
    BY LimiterAssumption
<1>2. clock \in 0..MaxClock /\ calls[p] \in Seq(0..MaxClock) /\ admitted[p] \in Seq(0..MaxClock)
    BY DEF RuleInv, WindowInv, TypeOK, LimiterTypeOK
<1>3. Remembers(calls[p], admitted[p], clock)
    BY Zenon DEF RuleInv, WindowInv
<1> QED BY <1>1, <1>2, <1>3

\* Who holds a slot, and who was throttled, follow from pc, call and outcome.
LEMMA ShadowsKept ==
    ASSUME UNCHANGED <<pc, call, outcome>>
    PROVE  RuleHolds' = RuleHolds /\ Throttled' = Throttled
BY DEF RuleHolds, Throttled, Holders

\* The initial states are the rule's.
LEMMA RuleInit == Init => Rule!Init
<1> SUFFICES ASSUME Init PROVE Rule!Init
    OBVIOUS
<1>1. \A p \in Principals : Holders(p) = {}
    BY DEF Init, Holders
<1>2. Throttled = {}
    BY DEF Init, Throttled
<1> QED BY <1>1, <1>2 DEF Init, LimiterInit, Rule!Init, Throttled
\* Every step of the model is a step of the rule, or leaves its variables alone.
LEMMA RuleStep == RuleInv /\ [Next]_vars => [Rule!Next]_(Rule!vars)
<1> SUFFICES ASSUME RuleInv, [Next]_vars PROVE [Rule!Next]_(Rule!vars)
    OBVIOUS
<1>0. TypeOK
    BY DEF RuleInv, SlotInv
<1>1. ASSUME UNCHANGED <<clock, admitted>>, RuleHolds' = RuleHolds, Throttled' = Throttled
      PROVE  [Rule!Next]_(Rule!vars)
    BY <1>1 DEF Rule!vars, RuleHolds, Throttled
<1>2. ASSUME NEW t \in Threads, NEW p \in Principals, NEW tool \in Tools, Arrive(t, p, tool)
      PROVE  [Rule!Next]_(Rule!vars)
    <2>1. pc[t] = "idle"
        BY <1>2 DEF Arrive, Move
    <2>2. pc' \in [Threads -> Stages] /\ pc'[t] \in {"admitting", "denied"}
        BY <1>0, <1>2 DEF Arrive, Move, TypeOK, Stages
    <2>3. \A u \in Threads \ {t} : pc'[u] = pc[u] /\ call'[u] = call[u] /\ outcome'[u] = outcome[u]
        BY <1>0, <1>2 DEF Arrive, Move, TypeOK
    <2>4. pc'[t] = "denied" => outcome'[t] = "forbidden"
        BY <1>0, <1>2 DEF Arrive, Move, TypeOK
    <2>5. RuleHolds' = RuleHolds
        BY <2>1, <2>2, <2>3 DEF RuleHolds, Holders
    <2>6. Throttled' = Throttled
        BY <2>1, <2>2, <2>3, <2>4 DEF Throttled
    <2> QED BY <1>1, <1>2, <2>5, <2>6 DEF Arrive, limiterVars
<1>3. ASSUME NEW t \in Threads, Enter(t)
      PROVE  [Rule!Next]_(Rule!vars)
    <2>0. PICK p \in Principals : p = call[t].principal
        BY <1>0 DEF TypeOK, Call
    <2>1. pc[t] = "admitting" /\ pc' = [pc EXCEPT ![t] = "running"] /\ UNCHANGED <<call, outcome, clock>>
        BY <1>3 DEF Enter, Move
    <2>2. t \notin Holders(p)
        BY <2>1 DEF Holders
    <2>3. RuleHolds' = [RuleHolds EXCEPT ![p] = Holders(p) \cup {t}]
        <3>1. Holders(p)' = Holders(p) \cup {t}
            BY <1>0, <2>0, <2>1 DEF Holders, TypeOK
        <3>2. \A q \in Principals : q # p => Holders(q)' = Holders(q)
            BY <1>0, <2>0, <2>1 DEF Holders, TypeOK
        <3> QED BY <3>1, <3>2 DEF RuleHolds
    <2>4. Throttled' = Throttled
        BY <1>0, <2>1 DEF Throttled, TypeOK
    <2>5. admitted' = [admitted EXCEPT ![p] = Append(admitted[p], clock)]
        BY <1>3, <2>0 DEF Enter, Admit
    <2>6. Rule!WithinCeiling(p)
        <3>1. ~AtCeiling(p)
            BY <1>3, <2>0, LimiterAssumption DEF Enter, Admit, Enabled, AtCeiling
        <3> QED BY <3>1, CeilingDecides
    <2>7. Rule!WithinRate(p)
        <3>1. CASE MaxPerWindow > 0
            <4>1. /\ clock \in Int /\ calls[p] \in Seq(Int) /\ admitted[p] \in Seq(Int)
                  /\ Remembers(calls[p], admitted[p], clock)
                BY <3>1, RuleTypes
            <4>2. Admit(p) /\ ~(MaxPerWindow <= 0)
                BY <1>3, <2>0, <3>1, LimiterAssumption DEF Enter, Enabled
            <4>3. PICK k \in 0..Len(calls[p]) : Trims(calls[p], k) /\ Len(calls[p]) - k < MaxPerWindow
                BY <4>2, Zenon DEF Admit
            <4> QED BY <3>1, <4>1, <4>3, TrimDecides DEF Rule!WithinRate
        <3>2. CASE ~(MaxPerWindow > 0)
            BY <3>2 DEF Rule!WithinRate
        <3> QED BY <3>1, <3>2
    <2>8. Rule!Admit(t, p)
        BY <2>1, <2>2, <2>3, <2>4, <2>5, <2>6, <2>7
        DEF Rule!Admit, Rule!MayEnter, RuleHolds, Throttled
    <2> QED BY <2>8 DEF Rule!Next
<1>4. ASSUME NEW t \in Threads, Throttle(t)
      PROVE  [Rule!Next]_(Rule!vars)
    <2>0. PICK p \in Principals : p = call[t].principal
        BY <1>0 DEF TypeOK, Call
    <2>1. /\ pc[t] = "admitting" /\ pc' = [pc EXCEPT ![t] = "denied"]
          /\ outcome' = [outcome EXCEPT ![t] = "rate_limited"] /\ UNCHANGED <<call, clock>>
        BY <1>4 DEF Throttle, Move
    <2>2. RuleHolds' = RuleHolds
        BY <1>0, <2>1 DEF RuleHolds, Holders, TypeOK
    <2>3. Throttled' = Throttled \cup {t}
        BY <1>0, <2>1 DEF Throttled, TypeOK
    <2>4. admitted' = admitted
        BY <1>4 DEF Throttle, RefuseConcurrency, RefuseRate, limiterVars
    <2>5. ~(Rule!WithinCeiling(p) /\ Rule!WithinRate(p))
        <3>1. CASE RefuseConcurrency(p)
            BY <3>1, CeilingDecides DEF RefuseConcurrency
        <3>2. CASE RefuseRate(p)
            <4>1. MaxPerWindow > 0
                BY <3>2 DEF RefuseRate
            <4>2. /\ clock \in Int /\ calls[p] \in Seq(Int) /\ admitted[p] \in Seq(Int)
                  /\ Remembers(calls[p], admitted[p], clock)
                BY <4>1, RuleTypes
            <4>3. PICK k \in 0..Len(calls[p]) : Trims(calls[p], k) /\ Len(calls[p]) - k >= MaxPerWindow
                BY <3>2, Zenon DEF RefuseRate
            <4>4. ~(Len(calls[p]) - k < MaxPerWindow)
                <5>1. Len(calls[p]) \in Nat /\ MaxPerWindow \in Int
                    BY <4>2, LenProperties, LimiterAssumption
                <5> QED BY <4>3, <5>1
            <4> QED BY <4>1, <4>2, <4>3, <4>4, TrimDecides DEF Rule!WithinRate
        <3> QED BY <1>4, <2>0, <3>1, <3>2 DEF Throttle
    <2>6. Rule!Refuse(t, p)
        BY <2>1, <2>2, <2>3, <2>4, <2>5 DEF Rule!Refuse, Rule!MayEnter, RuleHolds, Throttled
    <2> QED BY <2>6 DEF Rule!Next
<1>5. ASSUME NEW t \in Threads, RunTool(t)
      PROVE  [Rule!Next]_(Rule!vars)
    <2>1. /\ pc[t] = "running" /\ pc' = [pc EXCEPT ![t] = "returned"]
          /\ \A u \in Threads \ {t} : outcome'[u] = outcome[u]
          /\ UNCHANGED <<call, clock, limiterVars>>
        BY <1>0, <1>5 DEF RunTool, Move, TypeOK
    <2>2. RuleHolds' = RuleHolds
        BY <1>0, <2>1 DEF RuleHolds, Holders, TypeOK
    <2>3. Throttled' = Throttled
        BY <1>0, <2>1 DEF Throttled, TypeOK
    <2> QED BY <1>1, <2>1, <2>2, <2>3 DEF limiterVars
<1>6. ASSUME NEW t \in Threads, GiveBack(t)
      PROVE  [Rule!Next]_(Rule!vars)
    <2>0. PICK p \in Principals : p = call[t].principal
        BY <1>0 DEF TypeOK, Call
    <2>1. pc[t] = "returned" /\ pc' = [pc EXCEPT ![t] = "released"] /\ UNCHANGED <<call, outcome, clock>>
        BY <1>6 DEF GiveBack, Move
    <2>2. t \in Holders(p)
        BY <2>0, <2>1 DEF Holders
    <2>3. RuleHolds' = [RuleHolds EXCEPT ![p] = Holders(p) \ {t}]
        <3>1. Holders(p)' = Holders(p) \ {t}
            BY <1>0, <2>0, <2>1 DEF Holders, TypeOK
        <3>2. \A q \in Principals : q # p => Holders(q)' = Holders(q)
            BY <1>0, <2>0, <2>1 DEF Holders, TypeOK
        <3> QED BY <3>1, <3>2 DEF RuleHolds
    <2>4. Throttled' = Throttled
        BY <1>0, <2>1 DEF Throttled, TypeOK
    <2>5. admitted' = admitted
        BY <1>6 DEF GiveBack, Release, limiterVars
    <2>6. Rule!Leave(t, p)
        BY <2>1, <2>2, <2>3, <2>4, <2>5 DEF Rule!Leave, RuleHolds, Throttled
    <2> QED BY <2>6 DEF Rule!Next
<1>7. ASSUME NEW t \in Threads, NEW stage \in {"released", "denied"}, NEW decision,
             Finish(t, stage, decision)
      PROVE  [Rule!Next]_(Rule!vars)
    <2>1. /\ pc[t] = stage /\ pc' = [pc EXCEPT ![t] = "idle"]
          /\ \A u \in Threads \ {t} : outcome'[u] = outcome[u] /\ call'[u] = call[u]
          /\ UNCHANGED <<clock, limiterVars>>
        BY <1>0, <1>7 DEF Finish, Move, TypeOK
    <2>2. RuleHolds' = RuleHolds
        BY <1>0, <2>1 DEF RuleHolds, Holders, TypeOK
    <2>3. Throttled' = Throttled \ {t}
        BY <1>0, <2>1 DEF Throttled, TypeOK
    <2>4. CASE t \in Throttled
        <3>1. Rule!Answer(t)
            BY <2>1, <2>2, <2>3, <2>4 DEF Rule!Answer, RuleHolds, Throttled, limiterVars
        <3> QED BY <3>1 DEF Rule!Next
    <2>5. CASE t \notin Throttled
        BY <1>1, <2>1, <2>2, <2>3, <2>5 DEF limiterVars
    <2> QED BY <2>4, <2>5
<1>8. CASE Tick
    <2>1. clock' = clock + 1 /\ UNCHANGED <<admitted, pc, call, outcome>>
        BY <1>8 DEF Tick, limiterVars, threadVars
    <2>2. RuleHolds' = RuleHolds /\ Throttled' = Throttled
        BY <2>1, ShadowsKept
    <2> QED BY <2>1, <2>2 DEF Rule!Next, Rule!Tick, RuleHolds, Throttled
<1>9. CASE UNCHANGED vars
    <2>1. UNCHANGED <<clock, admitted, pc, call, outcome>>
        BY <1>9 DEF vars, limiterVars, threadVars
    <2>2. RuleHolds' = RuleHolds /\ Throttled' = Throttled
        BY <2>1, ShadowsKept
    <2> QED BY <1>1, <2>1, <2>2
<1> QED BY <1>2, <1>3, <1>4, <1>5, <1>6, <1>7, <1>8, <1>9
    DEF Next, Proceed, RecordAllow, RecordDeny

\* The wrapper with its deque, counters and lock implements the abstract
\* admission rule: a call is admitted exactly when fewer than MaxConcurrent of
\* its principal's run and fewer than MaxPerWindow were admitted in the last
\* Window, throttled exactly when not, and with no limit configured never
\* (ratelimit.py:81-120, wrapper.py:92-119).
THEOREM RuleImplemented == Spec => ImplementsRule
<1>1. Spec => []RuleInv
    BY SlotInvariant, WindowInit, WindowStep, PTL DEF Spec, RuleInv
<1> QED BY <1>1, RuleInit, RuleStep, PTL DEF Spec, ImplementsRule, Rule!Spec
=============================================================================
