----------------------------- MODULE JrpSession -----------------------------
(***************************************************************************)
(* One JRP connection: the client half of jet-proto's handshake and the    *)
(* calls a client makes, the server half and jet-server's session loop,    *)
(* over two TCP streams that keep order and hold a bounded number of       *)
(* frames.  Sessions share nothing that changes, so one is all there is.   *)
(*                                                                         *)
(* Each build has its own MIN_VERSION and VERSION; a rolling upgrade is a  *)
(* connection between builds that differ in them.  A stream id is modelled *)
(* with its width, a payload by what decode and validate make of it.       *)
(***************************************************************************)
EXTENDS Naturals, Sequences, Functions

CONSTANTS
  CMin, CMax,     \* MIN_VERSION and VERSION of the client's build
  SMin, SMax,     \* and of the server's
  CCaps, SCaps,   \* caps::ALL of the two builds, as sets
  Hellos,         \* <<min, max>> ranges the client may announce
  Conforming,     \* the client opens with a well-formed Hello
  Requests,       \* message types the client sends after the handshake
  Bodies,         \* payloads it sends
  TokenLookup,    \* authenticate_token knows the good token (a TODO today)
  Window,         \* bound: requests its callers leave unanswered; the code sets none
  Buffered,       \* frames a TCP stream holds before write_all blocks
  StreamBits,     \* width of a stream id
  MaxSent,        \* bound: frames the client sends after its first
  Cuts            \* connections may break

Session == {"Hello", "HelloAck", "Goodbye", "Error", "Ping", "Pong"}
Lookups == {"GetRun", "CancelRun", "TailLogs", "CasQuery"}
MsgTypes == Session \cup Lookups
            \cup {"Auth", "AuthOk", "SubmitRun", "RunAccepted", "RunInfo", "LogChunk",
                  "CasMissing", "CasPut", "CasGet", "BulkHeader"}

\* good: decodes and validates; unknown: a token no lookup finds; invalid:
\* decodes but fails validate; garbled: fails decode; broken: fails the header
\* check (magic, unknown type, length).
AllBodies == {"good", "unknown", "invalid", "garbled", "broken"}
Codes == {"INTERNAL", "BAD_REQUEST", "UNAUTHENTICATED", "VERSION_MISMATCH", "AUTH_REQUIRED"}
None == "none"

Streams == 2 ^ StreamBits
StreamIds == 0 .. Streams - 1

ASSUME VersionAssumption ==
  /\ CMin \in Nat /\ CMax \in Nat /\ SMin \in Nat /\ SMax \in Nat
  /\ CMin <= CMax /\ SMin <= SMax
  /\ Hellos \subseteq Nat \X Nat
ASSUME TrafficAssumption ==
  /\ Requests \subseteq MsgTypes /\ Bodies \subseteq AllBodies
  /\ Conforming \in BOOLEAN /\ TokenLookup \in BOOLEAN /\ Cuts \in BOOLEAN
  /\ Window \in Nat \ {0} /\ Buffered \in Nat \ {0}
  /\ StreamBits \in Nat \ {0} /\ MaxSent \in Nat
\* Arithmetic: a power of two is even.
ASSUME StreamsAssumption == Streams \in Nat /\ Streams >= 2 /\ Streams % 2 = 0

VARIABLES
  cpc,            \* client: control point
  cver, ccaps,    \* its version and peer_caps
  nextId,         \* its next_stream_id
  pending,        \* the frame it is writing
  outstanding,    \* what it sent and has no reply to, oldest first
  why,            \* how its handshake failed
  spc,            \* server: handshake, session or ended
  sver, scaps, authenticated,
  toServer, toClient,
  sent

clientVars == <<cpc, cver, ccaps, nextId, pending, outstanding, why>>
serverVars == <<spc, sver, scaps, authenticated>>
vars == <<clientVars, serverVars, toServer, toClient, sent>>

NoFrame == [type |-> None]

IsRequest(f) ==
  /\ f.type \in MsgTypes /\ f.sid \in StreamIds /\ f.ver \in Nat /\ f.body \in AllBodies
IsReply(f) ==
  /\ f.type \in MsgTypes /\ f.sid \in StreamIds /\ f.ver \in Nat
  /\ f.code \in Codes \cup {None}

TypeOK ==
  /\ cpc \in {"connected", "opening", "sending", "awaiting", "ready", "ended"}
  /\ cver \in CMin .. CMax /\ ccaps \subseteq CCaps \cup SCaps
  /\ nextId \in StreamIds
  /\ pending = NoFrame \/ IsRequest(pending)
  /\ \A i \in DOMAIN outstanding : IsRequest(outstanding[i])
  /\ why \in {None, "frame", "eof", "unexpected"} \cup Codes
  /\ spc \in {"handshake", "session", "ended"}
  /\ sver \in SMin .. SMax /\ scaps \subseteq CCaps /\ authenticated \in BOOLEAN
  /\ \A i \in DOMAIN toServer : IsRequest(toServer[i])
  /\ \A i \in DOMAIN toClient : IsReply(toClient[i])
  /\ Len(toServer) <= Buffered /\ Len(toClient) <= Buffered
  /\ Len(outstanding) <= Window
  /\ sent \in 0 .. MaxSent

\* JrpConn::client and JrpConn::server: each side starts at its own VERSION.
Init ==
  /\ cpc = "connected" /\ cver = CMax /\ ccaps = {} /\ nextId = 1
  /\ pending = NoFrame /\ outstanding = << >> /\ why = None
  /\ spc = "handshake" /\ sver = SMax /\ scaps = {} /\ authenticated = FALSE
  /\ toServer = << >> /\ toClient = << >>
  /\ sent = 0

-----------------------------------------------------------------------------
(* The client *)

AtLeast(n, low) == IF n < low THEN low ELSE n

\* Mutant of NextStream: the id never moves on.
NextStreamStuck(id) == AtLeast(id % Streams, 1)

\* next_stream of the client side: wrapping_add(2).max(1).
NextStream(id) == AtLeast((id + 2) % Streams, 1)

\* A call starts: take a stream id, stamp the frame with this side's version.
Compose(type, body, range, caps, to) ==
  /\ pending' = [type |-> type, sid |-> nextId, ver |-> cver, body |-> body,
                 range |-> range, caps |-> caps]
  /\ nextId' = NextStream(nextId)
  /\ cpc' = to

\* client_handshake up to its send; a peer that does not conform may start
\* with any frame.
Open ==
  /\ cpc = "connected"
  /\ \/ \E range \in Hellos :
          \E caps \in (IF Conforming THEN {CCaps} ELSE SUBSET CCaps) :
            \E body \in (IF Conforming THEN {"good"} ELSE Bodies) :
              Compose("Hello", body, range, caps, "opening")
     \/ /\ ~Conforming
        /\ \E type \in Requests : \E body \in Bodies :
             type # "Hello" /\ Compose(type, body, <<CMin, CMax>>, {}, "opening")
  /\ UNCHANGED <<cver, ccaps, outstanding, why, serverVars, toServer, toClient, sent>>

\* A request of an established connection: ping, Auth, SubmitRun, any other.
\* Nothing follows a Goodbye.  How many a caller sends before it reads is the
\* caller's choice: ping and submit read each reply first (Window = 1).
Request(type, body) ==
  /\ cpc = "ready"
  /\ sent < MaxSent
  /\ Len(outstanding) < Window
  /\ Compose(type, body, <<CMin, CMax>>, {}, "sending")
  /\ sent' = IF type = "Goodbye" THEN MaxSent ELSE sent + 1
  /\ UNCHANGED <<cver, ccaps, outstanding, why, serverVars, toServer, toClient>>

\* write_all: waits for room in the stream.  The connection is borrowed
\* mutably, so the client does not read meanwhile.
Write ==
  /\ cpc \in {"opening", "sending"}
  /\ \/ /\ spc # "ended"
        /\ Len(toServer) < Buffered
        /\ toServer' = Append(toServer, pending)
     \/ spc = "ended" /\ UNCHANGED toServer
  /\ outstanding' = IF pending.type = "Goodbye" THEN outstanding ELSE Append(outstanding, pending)
  /\ cpc' = IF cpc = "opening" THEN "awaiting" ELSE "ready"
  /\ pending' = NoFrame
  /\ UNCHANGED <<cver, ccaps, nextId, why, serverVars, toClient, sent>>

\* Dropping the connection: the client reads no more, the server still finds
\* what was sent.
Hangup(reason) ==
  /\ cpc' = "ended"
  /\ why' = reason
  /\ pending' = NoFrame /\ outstanding' = << >> /\ toClient' = << >>

CSpeaks(ver) == CMin <= ver /\ ver <= CMax

\* client_handshake after its send.
HandshakeReply ==
  /\ cpc = "awaiting"
  /\ toClient # << >>
  /\ LET f == Head(toClient)
         understood == CSpeaks(f.ver) /\ (f.type = "HelloAck" => CSpeaks(f.agreed)) IN
       \/ ~understood /\ Hangup("frame") /\ UNCHANGED <<cver, ccaps>>
       \/ /\ understood /\ f.type # "HelloAck"
          /\ Hangup(IF f.type = "Error" THEN f.code ELSE "unexpected")
          /\ UNCHANGED <<cver, ccaps>>
       \/ /\ understood /\ f.type = "HelloAck"
          /\ cver' = f.agreed
          /\ ccaps' = f.caps
          /\ cpc' = "ready"
          /\ outstanding' = << >> /\ toClient' = Tail(toClient)
          /\ UNCHANGED <<why, pending>>
  /\ UNCHANGED <<nextId, serverVars, toServer, sent>>

\* recv of an established connection: the next frame is taken for the answer
\* to the oldest request; nothing compares stream ids.
Receive ==
  /\ cpc = "ready"
  /\ toClient # << >> /\ outstanding # << >>
  /\ toClient' = Tail(toClient)
  /\ outstanding' = Tail(outstanding)
  /\ UNCHANGED <<cpc, cver, ccaps, nextId, pending, why, serverVars, toServer, sent>>

\* recv at the end of the stream.
ClientEof ==
  /\ cpc \in {"awaiting", "ready"}
  /\ spc = "ended" /\ toClient = << >>
  /\ outstanding # << >>
  /\ Hangup(IF cpc = "awaiting" THEN "eof" ELSE why)
  /\ UNCHANGED <<cver, ccaps, nextId, serverVars, toServer, sent>>

\* The command is done, or gives up on a reply it did not want.
ClientDone ==
  /\ cpc = "ready"
  /\ Hangup(why)
  /\ UNCHANGED <<cver, ccaps, nextId, serverVars, toServer, sent>>

-----------------------------------------------------------------------------
(* The server *)

\* The session's task returns and drops the socket.
SessionEnds ==
  /\ spc' = "ended"
  /\ toServer' = << >>

Reply(f, type, code, agreed, caps) ==
  [type |-> type, sid |-> f.sid, ver |-> sver', code |-> code, agreed |-> agreed, caps |-> caps]

\* send: waits for room, unless nobody reads any more.
Send(reply) ==
  \/ cpc = "ended" /\ UNCHANGED toClient
  \/ cpc # "ended" /\ Len(toClient) < Buffered /\ toClient' = Append(toClient, reply)

SendError(f, code) == Send(Reply(f, "Error", code, 0, {}))

\* FrameHeader::decode rejects every other version, during the handshake too.
SSpeaks(ver) == SMin <= ver /\ ver <= SMax

Readable(f) == f.body # "broken" /\ SSpeaks(f.ver)

\* The highest version both sides speak.
Negotiated(range) == IF SMax < range[2] THEN SMax ELSE range[2]

Refuse(f, code) == sver' = sver /\ SendError(f, code) /\ SessionEnds /\ UNCHANGED scaps

\* Mutant of Accept: the server announces all it can do.
AcceptAll(f) ==
  /\ sver' = Negotiated(f.range)
  /\ scaps' = f.caps
  /\ Send(Reply(f, "HelloAck", None, Negotiated(f.range), SCaps))
  /\ spc' = "session"
  /\ toServer' = Tail(toServer)

Accept(f) ==
  /\ sver' = Negotiated(f.range)
  /\ scaps' = f.caps
  /\ Send(Reply(f, "HelloAck", None, Negotiated(f.range), SCaps \cap f.caps))
  /\ spc' = "session"
  /\ toServer' = Tail(toServer)

\* server_handshake on a frame that could be read.
ServerHandshake ==
  /\ spc = "handshake"
  /\ toServer # << >> /\ Readable(Head(toServer))
  /\ LET f == Head(toServer)
         valid == f.body # "invalid" /\ f.range[1] <= f.range[2]
         overlap == Negotiated(f.range) >= SMin /\ Negotiated(f.range) >= f.range[1] IN
       \/ f.type # "Hello" /\ Refuse(f, "BAD_REQUEST")
       \/ /\ f.type = "Hello" /\ f.body = "garbled"
          /\ SessionEnds /\ UNCHANGED <<sver, scaps, toClient>>
       \/ f.type = "Hello" /\ f.body # "garbled" /\ ~valid /\ Refuse(f, "BAD_REQUEST")
       \/ /\ f.type = "Hello" /\ f.body # "garbled" /\ valid /\ ~overlap
          /\ Refuse(f, "VERSION_MISMATCH")
       \/ f.type = "Hello" /\ f.body # "garbled" /\ valid /\ overlap /\ Accept(f)
  /\ UNCHANGED <<authenticated, clientVars, sent>>

\* Mutant of AllowedPreauth: run lookups are let through.
AllowedPreauthLookups == Session \cup {"Auth", "AuthOk"} \cup Lookups

AllowedPreauth == Session \cup {"Auth", "AuthOk"}

\* authenticate_token: an error for every token while the lookup is a TODO.
Authenticates(f) == TokenLookup /\ f.body = "good"

Answer(f, reply) ==
  /\ Send(reply)
  /\ toServer' = Tail(toServer)
  /\ UNCHANGED spc

Fail(f, code) == Answer(f, Reply(f, "Error", code, 0, {})) /\ UNCHANGED authenticated

\* Mutant of Gate: the refusal falls through to the handler.
GateFallsThrough(f) ==
  /\ Len(toClient) < Buffered
  /\ toClient' = toClient \o <<Reply(f, "Error", "AUTH_REQUIRED", 0, {}),
                               Reply(f, "Error", "INTERNAL", 0, {})>>
  /\ toServer' = Tail(toServer)
  /\ UNCHANGED <<spc, authenticated>>

\* The refusal before authentication, and `continue`.
Gate(f) == Fail(f, "AUTH_REQUIRED")

\* Messages whose payload the session decodes before it acts.
Decoded == {"Ping", "Auth", "SubmitRun"}

\* Messages that carry what validate checks.
Validated == {"Auth", "SubmitRun"}

\* Mutant of Handle: a bad request gets no answer.
HandleSilent(f) ==
  \/ /\ f.type = "Goodbye" \/ (f.type \in Decoded /\ f.body = "garbled")
     /\ SessionEnds /\ UNCHANGED <<toClient, authenticated>>
  \/ /\ f.type \notin {"Goodbye", "Ping"}
     /\ toServer' = Tail(toServer) /\ UNCHANGED <<toClient, spc, authenticated>>
  \/ /\ f.type = "Ping" /\ f.body # "garbled"
     /\ Answer(f, Reply(f, "Pong", None, 0, {})) /\ UNCHANGED authenticated

\* The match on the message type of a frame past the gate.
Handle(f) ==
  \/ /\ f.type = "Goodbye" \/ (f.type \in Decoded /\ f.body = "garbled")
     /\ SessionEnds /\ UNCHANGED <<toClient, authenticated>>
  \/ f.type \in Validated /\ f.body = "invalid" /\ Fail(f, "BAD_REQUEST")
  \/ /\ f.type = "Ping" /\ f.body # "garbled"
     /\ Answer(f, Reply(f, "Pong", None, 0, {})) /\ UNCHANGED authenticated
  \/ /\ f.type = "Auth" /\ f.body \in {"good", "unknown"}
     /\ \/ /\ Authenticates(f)
           /\ authenticated' = TRUE
           /\ Answer(f, Reply(f, "AuthOk", None, 0, {}))
        \/ ~Authenticates(f) /\ Fail(f, "UNAUTHENTICATED")
  \/ f.type = "SubmitRun" /\ f.body \in {"good", "unknown"} /\ Fail(f, "INTERNAL")
  \/ f.type \in Lookups /\ Fail(f, "INTERNAL")
  \/ f.type \notin Decoded \cup Lookups \cup {"Goodbye"} /\ Fail(f, "BAD_REQUEST")

\* One turn of the session loop.
Serve ==
  /\ spc = "session"
  /\ toServer # << >> /\ Readable(Head(toServer))
  /\ UNCHANGED <<sver, scaps, clientVars, sent>>
  /\ LET f == Head(toServer) IN
       \/ ~authenticated /\ f.type \notin AllowedPreauth /\ Gate(f)
       \/ (authenticated \/ f.type \in AllowedPreauth) /\ Handle(f)

\* recv fails: a frame that cannot be read, or the end of the stream; or a
\* write fails because the client has gone.
ServerRecvFails ==
  /\ spc # "ended"
  /\ \/ toServer # << >> /\ ~Readable(Head(toServer))
     \/ toServer = << >> /\ cpc = "ended"
     \/ toServer # << >> /\ cpc = "ended"
  /\ SessionEnds
  /\ UNCHANGED <<sver, scaps, authenticated, clientVars, toClient, sent>>

-----------------------------------------------------------------------------

\* The connection breaks: both ends see an I/O error, whatever is on the way
\* is lost.
Cut ==
  /\ Cuts
  /\ cpc # "ended" \/ spc # "ended"
  /\ Hangup(IF cpc \in {"connected", "opening", "awaiting"} THEN "eof" ELSE why)
  /\ SessionEnds
  /\ UNCHANGED <<cver, ccaps, nextId, sver, scaps, authenticated, sent>>

Over == cpc = "ended" /\ spc = "ended" /\ UNCHANGED vars

ClientStep == Open \/ Write \/ HandshakeReply \/ Receive \/ ClientEof
ServerStep == ServerHandshake \/ Serve \/ ServerRecvFails

Next ==
  \/ ClientStep
  \/ \E type \in Requests : \E body \in Bodies : Request(type, body)
  \/ ClientDone
  \/ ServerStep
  \/ Cut
  \/ Over

Spec == Init /\ [][Next]_vars

\* A command awaits its replies, a session's task is polled.
FairSpec == Spec /\ WF_vars(ClientStep) /\ WF_vars(ServerStep)

-----------------------------------------------------------------------------
(* Properties *)

Sids(frames) == [i \in DOMAIN frames |-> frames[i].sid]

\* The frames that are to be answered: all but a Goodbye, after which a client
\* writes nothing.
Awaited(frames) ==
  IF frames # << >> /\ frames[Len(frames)].type = "Goodbye"
    THEN SubSeq(frames, 1, Len(frames) - 1) ELSE frames

\* Once both sides are past the handshake they stamp the same version, the
\* highest both speak, and the client counts only on capabilities both have
\* (conn.rs:216-218, 266).
Agreement ==
  cpc \in {"sending", "ready"} /\ spc = "session" =>
    /\ cver = sver
    /\ sver = (IF CMax < SMax THEN CMax ELSE SMax)
    /\ ccaps = scaps \cap SCaps

\* No reply is lost, doubled or out of order: replies on the way, then requests
\* on the way, are the outstanding requests, stream id by stream id.  The
\* client relies on it, since it never compares the id of what it receives
\* (main.rs Submit, conn.rs ping).
RepliesInStep ==
  cpc \in {"sending", "ready"} /\ spc = "session" =>
    Sids(outstanding) = Sids(toClient) \o Sids(Awaited(toServer))

\* The ids of outstanding requests differ and are odd, although the counter
\* wraps (conn.rs:114-123).
StreamsDistinct ==
  /\ IsInjective(Sids(outstanding))
  /\ \A i \in DOMAIN outstanding : outstanding[i].sid % 2 = 1

\* What needs authentication is refused as such until a token was accepted
\* (jrp.rs:97-109, frame.rs allowed_preauth): an unauthenticated session has
\* answered nothing else to it.
GatedUntilAuthenticated ==
  spc = "session" /\ ~authenticated /\ cpc \in {"sending", "ready"} =>
    \A i \in DOMAIN toClient :
      LET q == outstanding[i] IN
        q.type \notin Session \cup {"Auth", "AuthOk"} => toClient[i].code = "AUTH_REQUIRED"

\* A call has begun and has no reply.
InCall == cpc \in {"opening", "sending"} \/ outstanding # << >>

\* Both sides are in write_all on a full stream; neither reads meanwhile.
Jammed ==
  /\ cpc = "sending" /\ Len(toServer) = Buffered
  /\ spc = "session" /\ Len(toClient) = Buffered

\* A call gets its reply, or the connection ends, in every case but one: the
\* two sides block each other in write_all for ever (conn.rs:155), and that
\* takes a client that writes on with as many requests unanswered as the two
\* streams hold together (JrpSessionProofs!NeverJammed).
CallsReturn ==
  \/ InCall ~> ~InCall
  \/ <>[](Jammed /\ Len(outstanding) = 2 * Buffered)

\* The same without the exception, for "long-lived multiplexed connections"
\* (tuning.rs:93).
EveryCallReturns == InCall ~> ~InCall

\* Builds whose version ranges overlap get through the handshake, so a fleet
\* can be upgraded one node at a time (frame.rs:24-28).
UpgradableOneByOne ==
  CMin <= SMax /\ SMin <= CMax => why = None

\* A peer whose range does not overlap gets an explicit VERSION_MISMATCH
\* (conn.rs:216-218).
MismatchExplicit ==
  CMin > SMax \/ SMin > CMax => why \in {None, "VERSION_MISMATCH"}
=============================================================================
