----------------------- MODULE ServerLifecycleProofs ------------------------
(***************************************************************************)
(* Proofs about ServerLifecycle, for any number of requests and sessions   *)
(* in flight and any combination of the faults the module allows.          *)
(***************************************************************************)
EXTENDS ServerLifecycle, TLAPS

\* Every step keeps the state well formed, and a listener that has ended has
\* nothing in flight.
LEMMA TypeStep == TypeOK /\ [Next]_vars => TypeOK'
<1> SUFFICES ASSUME TypeOK, [Next]_vars PROVE TypeOK'
  OBVIOUS
<1> USE LifecycleAssumption DEF TypeOK, channelVars, httpVars, jrpVars
<1>1. CASE CtrlC \/ DropSender
  BY <1>1 DEF CtrlC, DropSender
<1>2. CASE MainStep
  BY <1>2 DEF MainStep, BindHttp, Spawn, Join, Exit
<1>3. CASE HttpStep
  BY <1>3 DEF HttpStep, HttpShutdown, HttpDrained
<1>4. ASSUME NEW r \in HttpRequests, HttpAccept(r) \/ HttpBody(r) \/ HttpAnswer(r) PROVE TypeOK'
  BY <1>4 DEF HttpAccept, HttpBody, HttpAnswer
<1>5. CASE JrpChanged
  BY <1>5 DEF JrpChanged
<1>6. ASSUME NEW s \in JrpSessions, JrpAccept(s) \/ JrpSessionEnds(s) PROVE TypeOK'
  BY <1>6 DEF JrpAccept, JrpSessionEnds
<1>7. CASE TaskFails
  BY <1>7 DEF TaskFails
<1>8. CASE Exited \/ UNCHANGED vars
  BY <1>8 DEF Exited, vars
<1>. QED
  BY <1>1, <1>2, <1>3, <1>4, <1>5, <1>6, <1>7, <1>8 DEF Next

\* The initial state is well formed.
LEMMA TypeInit == Init => TypeOK
<1>1. 0 \in 0 .. MaxServed
  BY LifecycleAssumption
<1>. QED
  BY <1>1, Zenon DEF Init, TypeOK

\* ServerLifecycle's state always has its type; a listener that has returned
\* has no request in flight.
THEOREM TypeCorrect == Spec => []TypeOK
BY TypeInit, TypeStep, PTL DEF Spec

-----------------------------------------------------------------------------
(***************************************************************************)
(* The argument.  The JRP task returns only on a raised flag, the flag is  *)
(* never lowered, and tasks start only at Spawn; so a Join that finds      *)
(* neither task failed finds a raised flag, and after it nothing moves.    *)
(***************************************************************************)

\* The JRP task returns in order only when the flag is up.
JrpEndsByFlag == jrp = "ended" => flag

\* Nothing listens before Spawn, and a result is there only after the exit.
Phases ==
  /\ main \in {"start", "bound"} => http = "off" /\ jrp = "off"
  /\ main # "exited" => result = "none"

\* IInv is FailureReported with what makes it inductive.
IInv == TypeOK /\ JrpEndsByFlag /\ Phases /\ FailureReported

\* IInv is inductive.
LEMMA InvStep == IInv /\ [Next]_vars => IInv'
<1> SUFFICES ASSUME IInv, [Next]_vars PROVE IInv'
  OBVIOUS
<1>0. TypeOK /\ TypeOK'
  BY TypeStep DEF IInv
<1> USE <1>0 DEF IInv, JrpEndsByFlag, Phases, FailureReported, channelVars, httpVars, jrpVars
<1>1. CASE CtrlC \/ DropSender
  BY <1>1 DEF CtrlC, DropSender
<1>2. CASE BindHttp \/ Spawn
  BY <1>2 DEF BindHttp, Spawn, Exit
<1>3. CASE Join
  <2>1. result' = "ok" => http = "ended" /\ jrp = "ended"
    BY <1>3 DEF Join, Exit
  <2>. QED
    BY <1>3, <2>1 DEF Join, Exit
<1>4. CASE HttpStep
  BY <1>4 DEF HttpStep, HttpShutdown, HttpDrained, TypeOK
<1>5. ASSUME NEW r \in HttpRequests, HttpAccept(r) \/ HttpBody(r) \/ HttpAnswer(r) PROVE IInv'
  BY <1>5 DEF HttpAccept, HttpBody, HttpAnswer
<1>6. CASE JrpChanged
  BY <1>6 DEF JrpChanged
<1>7. ASSUME NEW s \in JrpSessions, JrpAccept(s) \/ JrpSessionEnds(s) PROVE IInv'
  BY <1>7 DEF JrpAccept, JrpSessionEnds
<1>8. CASE TaskFails
  BY <1>8 DEF TaskFails
<1>9. CASE Exited \/ UNCHANGED vars
  BY <1>9 DEF Exited, vars
<1>. QED
  BY <1>1, <1>2, <1>3, <1>4, <1>5, <1>6, <1>7, <1>8, <1>9 DEF Next, MainStep

\* `jetrun serve` reports success only when both listeners shut down in order
\* on a raised flag, whatever failed and in whichever order the tasks ended.
THEOREM FailuresReported == Spec => []FailureReported
<1>1. Init => IInv
  BY TypeInit DEF Init, IInv, JrpEndsByFlag, Phases, FailureReported
<1>2. IInv => FailureReported
  BY DEF IInv
<1>. QED
  BY <1>1, <1>2, InvStep, PTL DEF Spec

\* The step with which the process leaves its serving phase drops no request:
\* it is a Join, the HTTP task has returned, and it returns only when drained.
THEOREM RequestsDrained == Spec => NoRequestDropped
<1>1. TypeOK /\ [Next]_vars =>
        [main = "serving" /\ main' = "exited" /\ http # "failed" => requests = {}]_vars
  <2> SUFFICES ASSUME TypeOK, Next, main = "serving", main' = "exited", http # "failed"
               PROVE  requests = {}
    OBVIOUS
  <2>1. Join
    BY DEF Next, MainStep, HttpStep, CtrlC, DropSender, BindHttp, Spawn, HttpShutdown,
           HttpDrained, HttpAccept, HttpBody, HttpAnswer, JrpChanged, JrpAccept, JrpSessionEnds,
           TaskFails, Exited
  <2>. QED
    BY <2>1 DEF Join, TypeOK
<1>. QED
  BY <1>1, TypeCorrect, PTL DEF Spec, NoRequestDropped
=============================================================================
