---------------------------- MODULE CircuitBreaker ----------------------------
(***************************************************************************)
(* The circuit breaker of one LIVE federation peer (federation/breaker.py) *)
(* and the tasks that call the peer through it (_peer_hits and             *)
(* _call_peer_with_breaker of federation/service.py).                      *)
(*                                                                         *)
(* The tasks share one event loop: is_open and the start of the call are   *)
(* one step, the await of the peer's answer lies between that step and the *)
(* recording of the outcome.  Time is counted in ticks.                    *)
(***************************************************************************)
EXTENDS Integers

CONSTANTS
    Callers,    \* tasks that call the peer
    Threshold,  \* federation_breaker_threshold
    Cooldown    \* federation_breaker_cooldown_seconds, in ticks

ASSUME SettingsAssumption == Threshold \in Nat /\ Cooldown \in Nat

VARIABLES
    failures,  \* st.failures, counted up to Threshold only
    cooling,   \* ticks until st.open_until; 0 once it has passed
    call       \* what each task does

breakerVars == <<failures, cooling, call>>
-----------------------------------------------------------------------------
TypeOK ==
    /\ failures \in 0 .. Threshold
    /\ cooling \in 0 .. Cooldown
    /\ call \in [Callers -> {"idle", "out"}]

BreakerInit ==
    /\ failures = 0
    /\ cooling = 0
    /\ call = [c \in Callers |-> "idle"]

IsOpen == cooling > 0

CallEnds(c) == call' = [call EXCEPT ![c] = "idle"]

\* Mutant: the call goes out without a look at the breaker.
CallBeginsUnchecked(c) ==
    /\ call[c] = "idle"
    /\ call' = [call EXCEPT ![c] = "out"]
    /\ UNCHANGED <<failures, cooling>>

\* The breaker lets the call through and it awaits the peer: every call, once the
\* cooldown is over.  While it is open, CircuitOpenError is raised and nothing
\* changes.
CallBegins(c) ==
    /\ call[c] = "idle"
    /\ ~IsOpen
    /\ call' = [call EXCEPT ![c] = "out"]
    /\ UNCHANGED <<failures, cooling>>

\* Mutant: record_success clears the count and leaves open_until.
CallSucceedsHalfReset(c) ==
    /\ call[c] # "idle"
    /\ CallEnds(c)
    /\ failures' = 0
    /\ UNCHANGED cooling

\* The peer answers: record_success.
CallSucceeds(c) ==
    /\ call[c] # "idle"
    /\ CallEnds(c)
    /\ failures' = 0
    /\ cooling' = 0

\* The call raises (a timeout, a refused connection, an error status):
\* record_failure.
CallFails(c) ==
    /\ call[c] # "idle"
    /\ CallEnds(c)
    /\ failures' = IF failures < Threshold THEN failures + 1 ELSE failures
    /\ cooling' = IF failures' >= Threshold THEN Cooldown ELSE cooling

\* The task is cancelled: CancelledError is no Exception, nothing is recorded.
CallIsCancelled(c) ==
    /\ call[c] # "idle"
    /\ CallEnds(c)
    /\ UNCHANGED <<failures, cooling>>

Tick ==
    /\ cooling > 0
    /\ cooling' = cooling - 1
    /\ UNCHANGED <<failures, call>>

\* reset(): for tests and operators.
Reset ==
    /\ failures' = 0
    /\ cooling' = 0
    /\ UNCHANGED call

\* The process restarts: the state is in memory, the calls end with it.
Restart ==
    /\ failures' = 0
    /\ cooling' = 0
    /\ call' = [c \in Callers |-> "idle"]

BreakerNext ==
    \/ \E c \in Callers : CallBegins(c) \/ CallSucceeds(c) \/ CallFails(c) \/ CallIsCancelled(c)
    \/ Tick
    \/ Reset
    \/ Restart

BreakerSpec == BreakerInit /\ [][BreakerNext]_breakerVars

\* Time passes; no call is assumed ever to end.
FairBreakerSpec == BreakerSpec /\ WF_breakerVars(Tick)
-----------------------------------------------------------------------------
\* The circuit is open only on the strength of Threshold failures with no
\* success between them, also when calls that began earlier end in any order.
OpenMeansThreshold == IsOpen => failures >= Threshold

\* The peer is tried again in the end: late failures of calls that began before
\* the circuit opened prolong the cooldown, but only as often as there were such
\* calls, since no call begins while it is open.
OpenEnds == IsOpen ~> ~IsOpen
=============================================================================
