-------------------------- MODULE PrincipalLimiter --------------------------
(***************************************************************************)
(* PrincipalLimiter of ratelimit.py: a sliding-window request limit and an *)
(* in-flight cap for each principal.  Every method runs under one lock, so *)
(* each is one action; acquire() is one action per outcome.                *)
(*                                                                         *)
(* The module has no Next of its own: who calls acquire() and release(),   *)
(* and in which order, is for ToolCall to say.                             *)
(***************************************************************************)
EXTENDS Integers, Sequences

CONSTANTS
    Principals,
    MaxPerWindow,       \* _max: calls in a window; 0 or less disables the limit
    Window,             \* _window, in clock ticks
    MaxConcurrent,      \* _max_concurrent: calls in flight; 0 or less disables
    MaxClock            \* bound: last value of the clock

ASSUME LimiterAssumption ==
    /\ MaxPerWindow \in Int /\ MaxConcurrent \in Int
    /\ Window \in Nat \ {0} /\ MaxClock \in Nat

VARIABLES
    clock,              \* the monotonic clock
    calls,              \* _calls: per principal, the admissions still remembered
    inFlight,           \* _in_flight, 0 for a principal without an entry
    admitted            \* history: per principal, the times of all admissions

limiterVars == <<calls, inFlight, admitted>>

----------------------------------------------------------------------------
Enabled == MaxPerWindow > 0 \/ MaxConcurrent > 0

Drop(s, k) == SubSeq(s, k + 1, Len(s))

\* A bug: an admission exactly a window old still counts.
TrimsStrictly(s, k) ==
    /\ \A i \in 1..k : s[i] < clock - Window
    /\ k < Len(s) => s[k + 1] >= clock - Window

\* _trim pops k entries: those at the front that are not after the cutoff, up
\* to the first one that is.
Trims(s, k) ==
    /\ \A i \in 1..k : s[i] <= clock - Window
    /\ k < Len(s) => s[k + 1] > clock - Window

\* A bug: one call too many runs at once.
OverCeiling(p) == MaxConcurrent > 0 /\ inFlight[p] > MaxConcurrent

AtCeiling(p) == MaxConcurrent > 0 /\ inFlight[p] >= MaxConcurrent

\* acquire() raises ConcurrencyExceeded, before it looks at the window.
RefuseConcurrency(p) ==
    /\ AtCeiling(p)
    /\ UNCHANGED limiterVars

\* acquire() raises RateLimitExceeded; the trim it made stays.
RefuseRate(p) ==
    /\ ~AtCeiling(p) /\ MaxPerWindow > 0
    /\ \E k \in 0..Len(calls[p]) :
          /\ Trims(calls[p], k)
          /\ Len(calls[p]) - k >= MaxPerWindow
          /\ calls' = [calls EXCEPT ![p] = Drop(@, k)]
    /\ UNCHANGED <<inFlight, admitted>>

\* A bug: a full window admits one call more.
AdmitOneMore(p) ==
    /\ ~AtCeiling(p)
    /\ \/ /\ MaxPerWindow > 0
          /\ \E k \in 0..Len(calls[p]) :
                /\ Trims(calls[p], k)
                /\ Len(calls[p]) - k <= MaxPerWindow
                /\ calls' = [calls EXCEPT ![p] = Append(Drop(@, k), clock)]
       \/ MaxPerWindow <= 0 /\ UNCHANGED calls
    /\ inFlight' = [inFlight EXCEPT ![p] = @ + 1]
    /\ admitted' = [admitted EXCEPT ![p] = Append(@, clock)]

\* acquire() returns.  Without a rate limit the window is not kept, but the
\* call is still counted in flight.
Admit(p) ==
    /\ ~AtCeiling(p)
    /\ \/ /\ MaxPerWindow > 0
          /\ \E k \in 0..Len(calls[p]) :
                /\ Trims(calls[p], k)
                /\ Len(calls[p]) - k < MaxPerWindow
                /\ calls' = [calls EXCEPT ![p] = Append(Drop(@, k), clock)]
       \/ MaxPerWindow <= 0 /\ UNCHANGED calls
    /\ inFlight' = [inFlight EXCEPT ![p] = @ + 1]
    /\ admitted' = [admitted EXCEPT ![p] = Append(@, clock)]

\* release(): never below zero.
Release(p) ==
    /\ inFlight' = [inFlight EXCEPT ![p] = IF @ <= 1 THEN 0 ELSE @ - 1]
    /\ UNCHANGED <<calls, admitted>>

LimiterInit ==
    /\ clock = 0
    /\ calls = [p \in Principals |-> <<>>]
    /\ inFlight = [p \in Principals |-> 0]
    /\ admitted = [p \in Principals |-> <<>>]

LimiterTypeOK ==
    /\ clock \in 0..MaxClock
    /\ calls \in [Principals -> Seq(0..MaxClock)]
    /\ inFlight \in [Principals -> Nat]
    /\ admitted \in [Principals -> Seq(0..MaxClock)]
=============================================================================
