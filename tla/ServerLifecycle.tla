-------------------------- MODULE ServerLifecycle ---------------------------
(***************************************************************************)
(* `jetrun serve` from start to exit: the task that waits for ctrl-c, the  *)
(* watch channel it signals on, the HTTP and the JRP listener, and the     *)
(* main task, which binds both, spawns both and joins both.                *)
(*                                                                         *)
(* A receiver of a tokio watch channel sees `changed` return Ok as long as *)
(* it has not seen the last value, then an error once the sender is gone.  *)
(* A failed accept only continues the accept loop, which no step shows.    *)
(***************************************************************************)
EXTENDS Naturals, FiniteSets

CONSTANTS
  HttpRequests,   \* requests that may be in flight, by identity
  JrpSessions,    \* likewise JRP sessions
  MaxServed,      \* bound: requests and sessions begun
  SignalFaults,   \* registering for ctrl-c may fail
  TaskFaults,     \* a listener's task may end by itself (a panic, an error)
  BindFaults      \* a port may be taken

ASSUME LifecycleAssumption ==
  /\ MaxServed \in Nat
  /\ SignalFaults \in BOOLEAN /\ TaskFaults \in BOOLEAN /\ BindFaults \in BOOLEAN

VARIABLES
  main,           \* control point of the main task
  result,         \* what the process reports when it exits
  signal,         \* the ctrl-c task: waiting, sending, done or failed
  flag, closed,   \* the channel: its value, whether the sender is gone
  httpSeen, jrpSeen,  \* has the receiver seen the flag raised
  http, jrp,      \* the listeners' tasks
  requests, sessions,
  uploading,      \* the requests whose body is still to come
  served

channelVars == <<signal, flag, closed>>
httpVars == <<http, httpSeen, requests, uploading>>
jrpVars == <<jrp, jrpSeen, sessions>>
vars == <<main, result, channelVars, httpVars, jrpVars, served>>

TypeOK ==
  /\ main \in {"start", "bound", "serving", "exited"}
  /\ result \in {"none", "ok", "error"}
  /\ signal \in {"waiting", "sending", "done", "failed"}
  /\ flag \in BOOLEAN /\ closed \in BOOLEAN
  /\ httpSeen \in BOOLEAN /\ jrpSeen \in BOOLEAN
  /\ http \in {"off", "accepting", "draining", "ended", "failed"}
  /\ jrp \in {"off", "accepting", "ended", "failed"}
  /\ requests \subseteq HttpRequests /\ uploading \subseteq requests
  /\ sessions \subseteq JrpSessions
  /\ served \in 0 .. MaxServed
  /\ http = "ended" => requests = {}

Init ==
  /\ main = "start" /\ result = "none"
  /\ signal = "waiting" /\ flag = FALSE /\ closed = FALSE
  /\ httpSeen = FALSE /\ jrpSeen = FALSE
  /\ http = "off" /\ jrp = "off"
  /\ requests = {} /\ uploading = {} /\ sessions = {} /\ served = 0

-----------------------------------------------------------------------------
(* The ctrl-c task *)

\* ctrl_c().await: the signal, or an error that drops the sender.
CtrlC ==
  /\ main # "exited" /\ signal = "waiting"
  /\ \/ signal' = "sending" /\ flag' = TRUE /\ UNCHANGED closed
     \/ SignalFaults /\ signal' = "failed" /\ closed' = TRUE /\ UNCHANGED flag
  /\ UNCHANGED <<main, result, httpVars, jrpVars, served>>

\* The task ends after its send, and the sender with it.
DropSender ==
  /\ main # "exited" /\ signal = "sending"
  /\ signal' = "done" /\ closed' = TRUE
  /\ UNCHANGED <<main, result, flag, httpVars, jrpVars, served>>

-----------------------------------------------------------------------------
(* The main task *)

\* The process ends, and with it every task that still runs.
Exit(outcome) ==
  /\ main' = "exited"
  /\ result' = outcome
  /\ requests' = {} /\ uploading' = {} /\ sessions' = {}

BindHttp ==
  /\ main = "start"
  /\ \/ main' = "bound" /\ UNCHANGED <<result, requests, uploading, sessions>>
     \/ BindFaults /\ Exit("error")
  /\ UNCHANGED <<channelVars, http, httpSeen, jrp, jrpSeen, served>>

\* Mutant of Spawn: the receivers are subscribed here and count the value they
\* find as seen.
SpawnSubscribed ==
  /\ main = "bound"
  /\ \/ /\ main' = "serving" /\ http' = "accepting" /\ jrp' = "accepting"
        /\ httpSeen' = flag /\ jrpSeen' = flag
        /\ UNCHANGED <<result, requests, uploading, sessions>>
     \/ /\ BindFaults /\ Exit("error")
        /\ UNCHANGED <<http, jrp, httpSeen, jrpSeen>>
  /\ UNCHANGED <<channelVars, served>>

\* Bind the JRP port and spawn both listeners.
Spawn ==
  /\ main = "bound"
  /\ \/ /\ main' = "serving" /\ http' = "accepting" /\ jrp' = "accepting"
        /\ UNCHANGED <<result, requests, uploading, sessions>>
     \/ BindFaults /\ Exit("error") /\ UNCHANGED <<http, jrp>>
  /\ UNCHANGED <<channelVars, httpSeen, jrpSeen, served>>

\* Mutant of Join: only the HTTP task's result is looked at.
JoinHttpOnly ==
  /\ main = "serving"
  /\ http \in {"ended", "failed"} /\ jrp \in {"ended", "failed"}
  /\ Exit(IF http = "failed" THEN "error" ELSE "ok")
  /\ UNCHANGED <<channelVars, http, httpSeen, jrp, jrpSeen, served>>

\* tokio::join! of both tasks, then the first error of the two.
Join ==
  /\ main = "serving"
  /\ http \in {"ended", "failed"} /\ jrp \in {"ended", "failed"}
  /\ Exit(IF "failed" \in {http, jrp} THEN "error" ELSE "ok")
  /\ UNCHANGED <<channelVars, http, httpSeen, jrp, jrpSeen, served>>

-----------------------------------------------------------------------------
(* The HTTP listener *)

\* The head of a request has come.  The webhook and trigger handlers await the
\* whole body first; the others have none.
HttpAccept(r) ==
  /\ main # "exited" /\ http = "accepting"
  /\ r \notin requests /\ served < MaxServed
  /\ requests' = requests \cup {r}
  /\ uploading' \in {uploading, uploading \cup {r}}
  /\ served' = served + 1
  /\ UNCHANGED <<main, result, channelVars, http, httpSeen, jrpVars>>

\* The rest of the body comes (or more than is allowed), or its sender is gone
\* and the handler with it.  No timeout does this: a sender may stall for ever.
HttpBody(r) ==
  /\ main # "exited" /\ r \in uploading
  /\ uploading' = uploading \ {r}
  /\ requests' \in {requests, requests \ {r}}
  /\ UNCHANGED <<main, result, channelVars, http, httpSeen, jrpVars, served>>

\* A handler that has its body answers.
HttpAnswer(r) ==
  /\ main # "exited" /\ r \in requests \ uploading
  /\ requests' = requests \ {r}
  /\ UNCHANGED <<main, result, channelVars, http, httpSeen, uploading, jrpVars, served>>

\* Mutant of HttpShutdown: the listener ends without waiting.
HttpShutdownAbrupt ==
  /\ main # "exited" /\ http = "accepting"
  /\ \/ flag /\ ~httpSeen /\ httpSeen' = TRUE
     \/ closed /\ (flag => httpSeen) /\ UNCHANGED httpSeen
  /\ http' = "ended"
  /\ UNCHANGED <<main, result, channelVars, requests, uploading, jrpVars, served>>

\* The graceful_shutdown future: ends on a raised flag or on a closed channel.
HttpShutdown ==
  /\ main # "exited" /\ http = "accepting"
  /\ \/ flag /\ ~httpSeen /\ httpSeen' = TRUE
     \/ closed /\ (flag => httpSeen) /\ UNCHANGED httpSeen
  /\ http' = "draining"
  /\ UNCHANGED <<main, result, channelVars, requests, uploading, jrpVars, served>>

\* axum::serve returns when the last request in flight has been answered.
HttpDrained ==
  /\ main # "exited" /\ http = "draining" /\ requests = {}
  /\ http' = "ended"
  /\ UNCHANGED <<main, result, channelVars, httpSeen, requests, uploading, jrpVars, served>>

-----------------------------------------------------------------------------
(* The JRP listener *)

\* Accept a connection and spawn its session.
JrpAccept(s) ==
  /\ main # "exited" /\ jrp = "accepting"
  /\ s \notin sessions /\ served < MaxServed
  /\ sessions' = sessions \cup {s}
  /\ served' = served + 1
  /\ UNCHANGED <<main, result, channelVars, httpVars, jrp, jrpSeen>>

JrpSessionEnds(s) ==
  /\ main # "exited" /\ s \in sessions
  /\ sessions' = sessions \ {s}
  /\ UNCHANGED <<main, result, channelVars, httpVars, jrp, jrpSeen, served>>

\* The other branch of select!: returns on a raised flag.  On a closed channel
\* with the flag down `changed` fails at once, the flag reads false, and the
\* loop goes round.
JrpChanged ==
  /\ main # "exited" /\ jrp = "accepting"
  /\ \/ flag /\ ~jrpSeen /\ jrpSeen' = TRUE /\ jrp' = "ended"
     \/ closed /\ ~flag /\ UNCHANGED <<jrpSeen, jrp>>
  /\ UNCHANGED <<main, result, channelVars, httpVars, sessions, served>>

-----------------------------------------------------------------------------

\* A listener's task ends on its own, by a panic or an error.
TaskFails ==
  /\ TaskFaults /\ main = "serving"
  /\ \/ http \in {"accepting", "draining"} /\ http' = "failed" /\ UNCHANGED jrp
     \/ jrp = "accepting" /\ jrp' = "failed" /\ UNCHANGED http
  /\ UNCHANGED <<main, result, channelVars, httpSeen, requests, uploading, jrpSeen, sessions,
                 served>>

Exited == main = "exited" /\ UNCHANGED vars

MainStep == BindHttp \/ Spawn \/ Join
HttpStep == HttpShutdown \/ HttpDrained

Next ==
  \/ CtrlC \/ DropSender
  \/ MainStep
  \/ HttpStep
  \/ \E r \in HttpRequests : HttpAccept(r) \/ HttpBody(r) \/ HttpAnswer(r)
  \/ JrpChanged
  \/ \E s \in JrpSessions : JrpAccept(s) \/ JrpSessionEnds(s)
  \/ TaskFails
  \/ Exited

Spec == Init /\ [][Next]_vars

\* Tasks are polled; select! picks among ready branches at random, so a branch
\* that stays ready is taken; a handler that has its body answers.  Nobody has
\* to press ctrl-c or to send the rest of a body, and JRP sessions may stay
\* open for ever.
FairSpec ==
  /\ Spec
  /\ WF_vars(MainStep) /\ WF_vars(HttpStep) /\ WF_vars(JrpChanged)
  /\ WF_vars(DropSender)
  /\ \A r \in HttpRequests : WF_vars(HttpAnswer(r))

-----------------------------------------------------------------------------
(* Properties *)

\* No request a handler has begun is dropped by a shutdown: unless the HTTP
\* task failed, the process exits with none in flight (axum's graceful
\* shutdown, lib.rs:36-49).
NoRequestDropped ==
  [][main = "serving" /\ main' = "exited" /\ http # "failed" => requests = {}]_vars

\* The process reports success only if both listeners shut down in order
\* (lib.rs:56-58).
FailureReported ==
  result = "ok" => http = "ended" /\ jrp = "ended" /\ flag

\* Ctrl-c, whenever it comes (before the ports are bound, too), ends the
\* process, whatever sessions are open and whatever has failed meanwhile; only
\* a request whose body never comes can hold it open (lib.rs:37-48,
\* http.rs:121-128).
CtrlCStops ==
  \/ flag ~> (main = "exited")
  \/ \E r \in HttpRequests : <>[](r \in uploading)

\* The same without the exception: main.rs:156 announces the shutdown.
CtrlCStopsAnyway == flag ~> (main = "exited")

\* "Either listener failing takes the process down" (lib.rs:53-55).
ListenerFailureStops == (http = "failed" \/ jrp = "failed") ~> (main = "exited")

\* "the sender going away is itself a shutdown signal" (lib.rs:40-41).
SenderGoneStops == closed ~> (main = "exited")
=============================================================================
