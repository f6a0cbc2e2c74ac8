----------------------------- MODULE RemoteCalls -----------------------------
(***************************************************************************)
(* What remote calls promise, whatever carries them: a call is executed at *)
(* most once and only after it was made, one whose sending was reported to *)
(* have failed is never executed, and a call that returns returns the      *)
(* result of its own execution, or none if it cannot be understood.        *)
(***************************************************************************)
EXTENDS Naturals

CONSTANTS CallId,
          NoResult   \* what a call returns whose result cannot be understood

VARIABLES issued,     \* calls made
          executions, \* how many times each call's handler was entered
          failed,     \* calls that could not be sent
          result      \* the call whose result each returned call was given

callVars == <<issued, executions, failed, result>>

CallsInit ==
    /\ issued = {}
    /\ executions = [t \in CallId |-> 0]
    /\ failed = {}
    /\ result = [t \in {} |-> t]

Issue(t) ==
    /\ t \notin issued
    /\ issued' = issued \cup {t}
    /\ UNCHANGED <<executions, failed, result>>

Execute(t) ==
    /\ t \in issued \ failed
    /\ executions[t] = 0
    /\ executions' = [executions EXCEPT ![t] = 1]
    /\ UNCHANGED <<issued, failed, result>>

Fail(t) ==
    /\ t \in issued \ failed
    /\ executions[t] = 0
    /\ failed' = failed \cup {t}
    /\ UNCHANGED <<issued, executions, result>>

Return(t) ==
    /\ t \notin DOMAIN result
    /\ executions[t] = 1
    /\ \E r \in {t, NoResult} :
         result' = [u \in DOMAIN result \cup {t} |-> IF u = t THEN r ELSE result[u]]
    /\ UNCHANGED <<issued, executions, failed>>

CallsNext == \E t \in CallId : Issue(t) \/ Execute(t) \/ Fail(t) \/ Return(t)

CallsSpec == CallsInit /\ [][CallsNext]_callVars

=============================================================================
