------------------------------ MODULE ToolCall ------------------------------
(***************************************************************************)
(* audited_tool of wrapper.py around PrincipalLimiter: worker threads that *)
(* each take a tool call through authorization, admission, the tool, the   *)
(* release of its slot and the audit record.                               *)
(*                                                                         *)
(* The steps of one call are separate actions wherever another thread may  *)
(* run in between.                                                         *)
(***************************************************************************)
EXTENDS PrincipalLimiter, FiniteSets

CONSTANTS
    Threads,            \* the worker threads
    Tools,
    Allowed,            \* per principal: allowed_tools
    NotAfter,           \* per principal: first tick at which the token is expired
    MaxCalls            \* bound: calls that arrive

ASSUME CallAssumption ==
    /\ IsFiniteSet(Threads)
    /\ Principals # {} /\ Tools # {} /\ MaxCalls \in Nat \ {0}
    /\ Allowed \in [Principals -> SUBSET Tools]
    /\ NotAfter \in [Principals -> Nat]

VARIABLES
    pc,                 \* per thread: where its call is
    call,               \* per thread: the call it serves
    outcome,            \* per thread: the error of the call so far, "" for none
    arrived,            \* calls so far; numbers them
    ran,                \* history: the calls whose tool was started
    trail               \* per call: the rows handed to Auditor.record for it

threadVars == <<pc, call, outcome>>
vars == <<clock, limiterVars, threadVars, arrived, ran, trail>>

Stages == {"idle", "admitting", "running", "returned", "released", "denied"}

\* "forbidden" and "rate_limited" are the wrapper's errors; "tool_error" is the
\* error a tool reports in its result, "exception" one that it raises.
Errors == {"", "forbidden", "rate_limited", "tool_error", "exception"}

Call == [id : 1..MaxCalls, principal : Principals, tool : Tools]

Entry == [principal : Principals, tool : Tools, decision : {"allow", "deny"}, error : Errors]

Permitted(p, tool) == clock < NotAfter[p] /\ tool \in Allowed[p]

\* The thread is idle: never read.
NoCall == CHOOSE c \in Call : TRUE

Move(t, from, to) == pc[t] = from /\ pc' = [pc EXCEPT ![t] = to]

----------------------------------------------------------------------------
Init ==
    /\ LimiterInit
    /\ pc = [t \in Threads |-> "idle"]
    /\ call = [t \in Threads |-> NoCall]
    /\ outcome = [t \in Threads |-> ""]
    /\ arrived = 0
    /\ ran = {}
    /\ trail = [id \in 1..MaxCalls |-> <<>>]

\* wrapped(): resolve the caller, check expiry and allowed_tools.
Arrive(t, p, tool) ==
    /\ arrived < MaxCalls
    /\ arrived' = arrived + 1
    /\ call' = [call EXCEPT ![t] = [id |-> arrived + 1, principal |-> p, tool |-> tool]]
    /\ \/ /\ Permitted(p, tool)
          /\ Move(t, "idle", "admitting")
          /\ UNCHANGED outcome
       \/ /\ ~Permitted(p, tool)
          /\ Move(t, "idle", "denied")
          /\ outcome' = [outcome EXCEPT ![t] = "forbidden"]
    /\ UNCHANGED <<clock, limiterVars, ran, trail>>

\* The call passes the limiter; with no limit configured acquire() is skipped,
\* and the history alone takes note of the call.
Enter(t) ==
    /\ Move(t, "admitting", "running")
    /\ IF Enabled
          THEN Admit(call[t].principal)
          ELSE /\ admitted' = [admitted EXCEPT ![call[t].principal] = Append(@, clock)]
               /\ UNCHANGED <<calls, inFlight>>
    /\ ran' = ran \cup {call[t].id}
    /\ UNCHANGED <<clock, call, outcome, arrived, trail>>

\* The limiter raises: the call becomes a deny with its own error code.
Throttle(t) ==
    /\ Enabled
    /\ Move(t, "admitting", "denied")
    /\ RefuseConcurrency(call[t].principal) \/ RefuseRate(call[t].principal)
    /\ outcome' = [outcome EXCEPT ![t] = "rate_limited"]
    /\ UNCHANGED <<clock, call, arrived, ran, trail>>

\* The tool returns a result, which may report an error, or raises.
RunTool(t) ==
    /\ Move(t, "running", "returned")
    /\ \E e \in {"", "tool_error", "exception"} : outcome' = [outcome EXCEPT ![t] = e]
    /\ UNCHANGED <<clock, limiterVars, call, arrived, ran, trail>>

\* A bug: the slot of a tool that raises is not given back.
GiveBackOnSuccess(t) ==
    /\ Move(t, "returned", "released")
    /\ IF Enabled /\ outcome[t] # "exception"
          THEN Release(call[t].principal) ELSE UNCHANGED limiterVars
    /\ UNCHANGED <<clock, call, outcome, arrived, ran, trail>>

\* A bug: a worker whose tool raised is not there to go on.
GiveBackUnlessRaised(t) ==
    /\ outcome[t] # "exception"
    /\ Move(t, "returned", "released")
    /\ IF Enabled THEN Release(call[t].principal) ELSE UNCHANGED limiterVars
    /\ UNCHANGED <<clock, call, outcome, arrived, ran, trail>>

\* finally: give the slot back, whatever the tool did.
GiveBack(t) ==
    /\ Move(t, "returned", "released")
    /\ IF Enabled THEN Release(call[t].principal) ELSE UNCHANGED limiterVars
    /\ UNCHANGED <<clock, call, outcome, arrived, ran, trail>>

\* auditor.record, in the finally or in _deny; then the caller gets its answer
\* and the thread is free.
Finish(t, stage, decision) ==
    /\ Move(t, stage, "idle")
    /\ LET row == [principal |-> call[t].principal, tool |-> call[t].tool,
                   decision |-> decision, error |-> outcome[t]]
       IN  trail' = [trail EXCEPT ![call[t].id] = Append(@, row)]
    /\ call' = [call EXCEPT ![t] = NoCall]
    /\ outcome' = [outcome EXCEPT ![t] = ""]
    /\ UNCHANGED <<clock, limiterVars, arrived, ran>>

\* A bug: a tool that raises skips its audit row.
RecordUnlessRaised(t) ==
    IF outcome[t] # "exception"
    THEN Finish(t, "released", "allow")
    ELSE /\ Move(t, "released", "idle")
         /\ call' = [call EXCEPT ![t] = NoCall]
         /\ outcome' = [outcome EXCEPT ![t] = ""]
         /\ UNCHANGED <<clock, limiterVars, arrived, ran, trail>>

RecordAllow(t) == Finish(t, "released", "allow")
RecordDeny(t) == Finish(t, "denied", "deny")

Tick ==
    /\ clock < MaxClock
    /\ clock' = clock + 1
    /\ UNCHANGED <<limiterVars, threadVars, arrived, ran, trail>>

Proceed(t) ==
    Enter(t) \/ Throttle(t) \/ RunTool(t) \/ GiveBack(t) \/ RecordAllow(t) \/ RecordDeny(t)

Next ==
    \/ \E t \in Threads, p \in Principals, tool \in Tools : Arrive(t, p, tool)
    \/ \E t \in Threads : Proceed(t)
    \/ Tick

Spec == Init /\ [][Next]_vars

\* A thread in a call goes on with it: acquire() does not wait, and a query
\* runs under max_execution_time.
FairSpec == Spec /\ \A t \in Threads : WF_vars(Proceed(t))

----------------------------------------------------------------------------
(* What the wrapper promises.                                              *)

\* Every variable holds a value of its kind.
TypeOK ==
    /\ LimiterTypeOK
    /\ pc \in [Threads -> Stages]
    /\ call \in [Threads -> Call]
    /\ outcome \in [Threads -> Errors]
    /\ arrived \in 0..MaxCalls
    /\ ran \subseteq 1..MaxCalls
    /\ trail \in [1..MaxCalls -> Seq(Entry)]

\* The threads between acquire() and release() for a principal.
Holders(p) == {t \in Threads : pc[t] \in {"running", "returned"} /\ call[t].principal = p}

\* The counter is exact: no failing, denied or throttled call leaks a slot or
\* gives back one it never had (wrapper.py:115-119).
SlotsAccounted == Enabled => \A p \in Principals : inFlight[p] = Cardinality(Holders(p))

\* A principal never runs more than MaxConcurrent tools at once.
ConcurrencyBound ==
    MaxConcurrent > 0 => \A p \in Principals : Cardinality(Holders(p)) <= MaxConcurrent

\* However the window slides, it holds at most MaxPerWindow admissions: the
\* MaxPerWindow-th admission after another is at least a window later, although
\* the deque forgets entries as it goes and keeps none of a refused call.
WindowBound ==
    MaxPerWindow > 0 =>
        \A p \in Principals : \A i \in 1..(Len(admitted[p]) - MaxPerWindow) :
            admitted[p][i + MaxPerWindow] - admitted[p][i] >= Window

\* One audit row per call: none while the call is under way, exactly one when
\* it is over; "allow" for the calls whose tool was started and for no others;
\* and the error tells a refusal from a failure of the tool.
InProgress(id) == \E t \in Threads : pc[t] # "idle" /\ call[t].id = id

OneRowPerCall ==
    \A id \in 1..arrived :
        /\ Len(trail[id]) = IF InProgress(id) THEN 0 ELSE 1
        /\ \A i \in DOMAIN trail[id] :
              LET row == trail[id][i]
              IN  /\ row.decision = "allow" <=> id \in ran
                  /\ row.decision = "deny" <=> row.error \in {"forbidden", "rate_limited"}
                  /\ row.tool \notin Allowed[row.principal] => row.error = "forbidden"

\* Every call ends, and its thread is free for the next one.
CallsEnd == \A t \in Threads : pc[t] # "idle" ~> pc[t] = "idle"

----------------------------------------------------------------------------
(* The limiter in its wrapper implements the abstract admission rule: a    *)
(* call is throttled exactly when the rule refuses it.                     *)

Rule == INSTANCE Admission WITH
            holds <- [p \in Principals |-> Holders(p)],
            refused <- {t \in Threads : pc[t] = "denied" /\ outcome[t] = "rate_limited"}

ImplementsRule == Rule!Spec
=============================================================================
