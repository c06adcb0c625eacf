---------------------------- MODULE MCFrontDoor ----------------------------
(***************************************************************************)
(* What stands between a client and the data, for TLC: accounts and their  *)
(* permissions, the rate limiter in front of every request, projects with  *)
(* their ingestion keys, the live stream behind those, and the sources of  *)
(* events: a watcher of the agent and a call of an SDK.  They share no     *)
(* state, so one of them moves in a behaviour, and `turn` says which.      *)
(***************************************************************************)
EXTENDS Accounts, RateLimit, LiveStream, ProjectLife, LogTail, SdkCalls, TLC

VARIABLE turn

CONSTANTS p1, p2, thing1, thing2, w1, w2, api1, api2

Two == {p1, p2}
TwoSenders == {w1, w2}

(* The workers of uvicorn.                                                 *)
TwoProcesses == {api1, api2}

(* Sessions of the API and projects of the live stream: no component has   *)
(* both of these, so both are the same two values.                         *)
TwoThings == {thing1, thing2}

(* A super admin, alone or with somebody else. *)
First == {(p1 :> "super_admin" @@ p2 :> r) : r \in {"super_admin", "admin", "none"}}

Interchangeable ==
    UNION {Permutations(TwoThings), Permutations(TwoSenders),
           Permutations(TwoProcesses)}

vars == <<accountVars, limiterVars, streamVars, projectVars, tailVars,
          callVars, turn>>

sources == <<tailVars, callVars>>

Init ==
    /\ AccountInit /\ LimiterInit /\ StreamInit /\ ProjectInit
    /\ TailInit /\ CallInit
    /\ turn \in {"accounts", "limiter", "stream", "projects", "tail", "call"}
    /\ turn # "tail" => format = "syslog"
    /\ turn # "call" => /\ library = "python"
                       /\ batched
                       /\ body = <<>>

Next ==
    \/ /\ turn = "accounts" /\ AccountNext
       /\ UNCHANGED <<limiterVars, streamVars, projectVars, sources, turn>>
    \/ /\ turn = "limiter" /\ LimiterNext
       /\ UNCHANGED <<accountVars, streamVars, projectVars, sources, turn>>
    \/ /\ turn = "stream" /\ StreamNext
       /\ UNCHANGED <<accountVars, limiterVars, projectVars, sources, turn>>
    \/ /\ turn = "projects" /\ ProjectNext
       /\ UNCHANGED <<accountVars, limiterVars, streamVars, sources, turn>>
    \/ /\ turn = "tail" /\ TailNext
       /\ UNCHANGED <<accountVars, limiterVars, streamVars, projectVars,
                      callVars, turn>>
    \/ /\ turn = "call" /\ CallNext
       /\ UNCHANGED <<accountVars, limiterVars, streamVars, projectVars,
                      tailVars, turn>>

Spec == Init /\ [][Next]_vars

(* Each of the six is well typed (Accounts, RateLimit, LiveStream,         *)
(* ProjectLife, LogTail, SdkCalls).                                        *)
TypeOK ==
    /\ AccountTypeOK /\ LimiterTypeOK /\ StreamTypeOK /\ ProjectTypeOK
    /\ TailTypeOK /\ CallTypeOK

(* The sources of events lose and repeat no more than they account for: a  *)
(* watcher yields the text of a file once, in order and without a gap, and *)
(* a caller is told of its events what becomes of them (lbro_agent.py,     *)
(* tail_file; lbro_sdk.py and lbro-sdk.js, _request; events.py).           *)
SourcesAreFaithful == TailIsFaithful /\ CallersAreToldTheTruth
=============================================================================
