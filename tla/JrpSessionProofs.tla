-------------------------- MODULE JrpSessionProofs --------------------------
(***************************************************************************)
(* Proofs about JrpSession, for any versions, capabilities, window, buffer  *)
(* and width of a stream id.                                                *)
(***************************************************************************)
EXTENDS JrpSession, TLAPS

(***************************************************************************)
(* The inductive invariant                                                  *)
(***************************************************************************)

ReqSet == [type : MsgTypes, sid : StreamIds, ver : Nat, body : AllBodies, range : Nat \X Nat,
           caps : SUBSET CCaps]
RepSet == [type : MsgTypes, sid : StreamIds, ver : Nat, code : Codes \cup {None},
           agreed : Nat, caps : SUBSET (CCaps \cup SCaps)]

Shape ==
  /\ cpc \in {"connected", "opening", "sending", "awaiting", "ready", "ended"}
  /\ cver \in CMin .. CMax /\ ccaps \subseteq CCaps \cup SCaps
  /\ nextId \in StreamIds
  /\ pending = NoFrame \/ pending \in ReqSet
  /\ cpc \in {"opening", "sending"} => pending \in ReqSet
  /\ outstanding \in Seq(ReqSet)
  /\ why \in {None, "frame", "eof", "unexpected"} \cup Codes
  /\ spc \in {"handshake", "session", "ended"}
  /\ sver \in SMin .. SMax /\ scaps \subseteq CCaps /\ authenticated \in BOOLEAN
  /\ toServer \in Seq(ReqSet) /\ toClient \in Seq(RepSet)
  /\ Len(toServer) <= Buffered /\ Len(toClient) <= Buffered
  /\ Len(outstanding) <= Window
  /\ cpc = "sending" => Len(outstanding) < Window
  /\ sent \in 0 .. MaxSent

\* A Hello carries one of the ranges that clients announce.
HelloOK(f) == f.type = "Hello" => f.range \in Hellos

\* Both sides have settled on the version of a range that was announced.
Settled(version, caps) ==
  version = sver /\ caps = scaps \cap SCaps /\ \E r \in Hellos : sver = Negotiated(r)

\* Where the two sides can be at the same time, and what is on the way then.
Phases ==
  /\ cpc \in {"connected", "opening"} =>
       spc = "handshake" /\ toServer = << >> /\ toClient = << >> /\ outstanding = << >>
  /\ cpc = "opening" => HelloOK(pending)
  /\ cpc = "awaiting" =>
       /\ Len(outstanding) <= 1
       /\ spc = "handshake" =>
            toClient = << >> /\ Len(toServer) = 1 /\ HelloOK(toServer[1])
       /\ spc = "session" =>
            /\ toServer = << >> /\ Len(toClient) = 1
            /\ toClient[1].type = "HelloAck" /\ Settled(toClient[1].agreed, toClient[1].caps)
       /\ spc = "ended" =>
            toClient = << >> \/ (Len(toClient) = 1 /\ toClient[1].type # "HelloAck")
  /\ cpc \in {"sending", "ready"} => spc # "handshake"
  /\ cpc \in {"sending", "ready"} /\ spc = "session" => Settled(cver, ccaps)

\* How many of the frames in toServer are to be answered.
Due == IF toServer # << >> /\ toServer[Len(toServer)].type = "Goodbye"
         THEN Len(toServer) - 1 ELSE Len(toServer)

\* The outstanding requests are those answered and on the way back, then those
\* on the way; a Goodbye is the last frame of all.
Queues ==
  /\ cpc = "sending" /\ pending.type = "Goodbye" => sent = MaxSent
  /\ cpc \in {"sending", "ready"} /\ spc = "session" =>
       /\ \A i \in 1 .. Len(toServer) : toServer[i].type = "Goodbye" =>
            i = Len(toServer) /\ sent = MaxSent /\ cpc = "ready"
       /\ Len(outstanding) = Len(toClient) + Due
       /\ \A i \in 1 .. Len(toClient) :
            /\ outstanding[i].sid = toClient[i].sid
            /\ ~authenticated /\ outstanding[i].type \notin AllowedPreauth =>
                 toClient[i].code = "AUTH_REQUIRED"
       /\ \A i \in 1 .. Due : outstanding[Len(toClient) + i] = toServer[i]

\* Stream id b was taken k calls after a.
Ahead(a, b, k) == b = a + 2 * k \/ b = a + 2 * k - Streams

\* Ids are odd.
Odd ==
  /\ nextId % 2 = 1
  /\ cpc \in {"opening", "sending"} => pending.sid % 2 = 1
  /\ \A i \in 1 .. Len(outstanding) : outstanding[i].sid % 2 = 1

\* Ids are as far apart as their requests.
Spaced ==
  /\ \A i, j \in 1 .. Len(outstanding) :
       i < j => Ahead(outstanding[i].sid, outstanding[j].sid, j - i)
  /\ cpc = "ready" /\ sent < MaxSent =>
       \A i \in 1 .. Len(outstanding) :
         Ahead(outstanding[i].sid, nextId, Len(outstanding) + 1 - i)
  /\ cpc = "sending" /\ pending.type # "Goodbye" =>
       \A i \in 1 .. Len(outstanding) :
         Ahead(outstanding[i].sid, pending.sid, Len(outstanding) + 1 - i)
  /\ cpc = "sending" /\ sent < MaxSent =>
       /\ Ahead(pending.sid, nextId, 1)
       /\ \A i \in 1 .. Len(outstanding) :
            Ahead(outstanding[i].sid, nextId, Len(outstanding) + 2 - i)

IInv == Shape /\ Phases /\ Queues /\ Odd

(***************************************************************************)
(* Lemmas                                                                   *)
(***************************************************************************)
LEMMA AppendFacts ==
  ASSUME NEW S, NEW s \in Seq(S), NEW e \in S
  PROVE  /\ Append(s, e) \in Seq(S) /\ Len(s) \in Nat /\ Len(Append(s, e)) = Len(s) + 1
         /\ \A i \in 1 .. Len(s) : Append(s, e)[i] = s[i]
         /\ Append(s, e)[Len(s) + 1] = e
OBVIOUS

LEMMA TailFacts ==
  ASSUME NEW S, NEW s \in Seq(S), s # << >>
  PROVE  /\ Tail(s) \in Seq(S) /\ Len(s) \in Nat /\ Len(s) >= 1 /\ Len(Tail(s)) = Len(s) - 1
         /\ Head(s) = s[1] /\ s[1] \in S
         /\ \A i \in 1 .. Len(s) - 1 : Tail(s)[i] = s[i + 1]
OBVIOUS

LEMMA EmptyFacts ==
  ASSUME NEW S, NEW s \in Seq(S)
  PROVE  Len(<< >>) = 0 /\ (Len(s) = 0 <=> s = << >>)
OBVIOUS

LEMMA SingleFacts ==
  ASSUME NEW e
  PROVE  Len(Append(<< >>, e)) = 1 /\ Append(<< >>, e)[1] = e
<1>1. << >> \in Seq({e}) /\ Len(<< >>) = 0 /\ e \in {e}
  OBVIOUS
<1>. QED
  BY <1>1, AppendFacts

\* The stream id after an odd one.
LEMMA NextStreamIs ==
  ASSUME NEW id \in StreamIds, id % 2 = 1
  PROVE  /\ NextStream(id) \in StreamIds /\ NextStream(id) % 2 = 1
         /\ NextStream(id) = IF id + 2 < Streams THEN id + 2 ELSE id + 2 - Streams
<1> DEFINE M == Streams
<1>0. M \in Nat /\ M >= 2 /\ M % 2 = 0 /\ id \in Nat /\ id < M
  BY StreamsAssumption DEF StreamIds
<1> HIDE DEF M
<1>1. (id + 2) % M = IF id + 2 < M THEN id + 2 ELSE id + 2 - M
  BY <1>0
<1>2. (IF id + 2 < M THEN id + 2 ELSE id + 2 - M) % 2 = 1
  BY <1>0
<1>. QED
  BY <1>0, <1>1, <1>2 DEF NextStream, AtLeast, M, StreamIds

\* What the server answers is a reply.
LEMMA ReplyType ==
  ASSUME Shape, NEW f \in ReqSet, NEW type \in MsgTypes, NEW code \in Codes \cup {None},
         NEW agreed \in Nat, NEW caps \in SUBSET (CCaps \cup SCaps), sver' \in Nat
  PROVE  /\ Reply(f, type, code, agreed, caps) \in RepSet
         /\ Reply(f, type, code, agreed, caps).sid = f.sid
         /\ Reply(f, type, code, agreed, caps).type = type
         /\ Reply(f, type, code, agreed, caps).code = code
         /\ Reply(f, type, code, agreed, caps).agreed = agreed
         /\ Reply(f, type, code, agreed, caps).caps = caps
<1>1. f.sid \in StreamIds
  BY DEF ReqSet
<1>. QED
  BY <1>1 DEF Reply, RepSet

\* An error is a reply.
LEMMA ErrorType ==
  ASSUME Shape, NEW f \in ReqSet, NEW code \in Codes, sver' = sver
  PROVE  /\ Reply(f, "Error", code, 0, {}) \in RepSet
         /\ Reply(f, "Error", code, 0, {}).sid = f.sid
         /\ Reply(f, "Error", code, 0, {}).type = "Error"
         /\ Reply(f, "Error", code, 0, {}).code = code
<1>1. sver' \in Nat
  BY VersionAssumption DEF Shape
<1>2. "Error" \in MsgTypes /\ code \in Codes \cup {None} /\ 0 \in Nat
      /\ {} \in SUBSET (CCaps \cup SCaps)
  BY DEF MsgTypes, Session
<1>. QED
  BY <1>1, <1>2, ReplyType

\* What a turn of the session loop comes to: the session ends, or the first
\* request is answered, and one that needs authentication is refused before it.
LEMMA ServeIs ==
  ASSUME Shape, Serve
  PROVE  /\ spc = "session" /\ toServer # << >>
         /\ UNCHANGED <<sver, scaps, cpc, cver, ccaps, nextId, pending, outstanding, why, sent>>
         /\ \/ spc' = "ended" /\ toServer' = << >> /\ UNCHANGED <<toClient, authenticated>>
            \/ /\ spc' = "session" /\ toServer' = Tail(toServer)
               /\ authenticated' \in BOOLEAN /\ (authenticated => authenticated')
               /\ Head(toServer).type # "Goodbye"
               /\ \E rep \in RepSet :
                    /\ Send(rep) /\ rep.sid = Head(toServer).sid
                    /\ ~authenticated' /\ Head(toServer).type \notin AllowedPreauth =>
                         rep.code = "AUTH_REQUIRED"
<1> DEFINE f == Head(toServer)
<1>1. /\ spc = "session" /\ toServer # << >> /\ UNCHANGED sver
      /\ UNCHANGED <<sver, scaps, cpc, cver, ccaps, nextId, pending, outstanding, why, sent>>
  BY DEF Serve, clientVars
<1>2. f \in ReqSet
  BY <1>1, TailFacts DEF Shape
<1>3. \/ ~authenticated /\ f.type \notin AllowedPreauth /\ Gate(f)
      \/ (authenticated \/ f.type \in AllowedPreauth) /\ Handle(f)
  BY DEF Serve
<1>4. authenticated \in BOOLEAN
  BY DEF Shape
<1> HIDE DEF f
<1> DEFINE Ends == spc' = "ended" /\ toServer' = << >> /\ UNCHANGED <<toClient, authenticated>>
           Answers(rep) ==
             /\ spc' = "session" /\ toServer' = Tail(toServer)
             /\ authenticated' \in BOOLEAN /\ (authenticated => authenticated')
             /\ f.type # "Goodbye" /\ Send(rep) /\ rep.sid = f.sid
             /\ ~authenticated' /\ f.type \notin AllowedPreauth => rep.code = "AUTH_REQUIRED"
<1>5. ASSUME NEW code \in Codes, Fail(f, code), f.type # "Goodbye",
             code = "AUTH_REQUIRED" \/ authenticated \/ f.type \in AllowedPreauth
      PROVE  \E rep \in RepSet : Answers(rep)
  <2> DEFINE rep == Reply(f, "Error", code, 0, {})
  <2>1. rep \in RepSet /\ rep.sid = f.sid /\ rep.code = code
    BY <1>1, <1>2, ErrorType
  <2>2. Send(rep) /\ toServer' = Tail(toServer) /\ spc' = spc /\ authenticated' = authenticated
    BY <1>5 DEF Fail, Answer
  <2> HIDE DEF rep
  <2>3. Answers(rep)
    BY <1>1, <1>4, <1>5, <2>1, <2>2
  <2>. QED
    BY <2>1, <2>3
<1>6. CASE ~authenticated /\ f.type \notin AllowedPreauth /\ Gate(f)
  <2>1. f.type # "Goodbye" /\ "AUTH_REQUIRED" \in Codes
    BY <1>6 DEF AllowedPreauth, Session, Codes
  <2>2. Fail(f, "AUTH_REQUIRED")
    BY <1>6 DEF Gate
  <2>. QED
    BY <1>1, <1>5, <2>1, <2>2 DEF f
<1>7. CASE (authenticated \/ f.type \in AllowedPreauth) /\ Handle(f)
  <2>0. {"BAD_REQUEST", "UNAUTHENTICATED", "INTERNAL"} \subseteq Codes
    BY DEF Codes
  <2>1. CASE SessionEnds /\ UNCHANGED <<toClient, authenticated>>
    BY <1>1, <2>1 DEF SessionEnds, f
  <2>2. CASE /\ f.type # "Goodbye"
             /\ \E code \in {"BAD_REQUEST", "UNAUTHENTICATED", "INTERNAL"} : Fail(f, code)
    BY <1>1, <1>5, <1>7, <2>0, <2>2 DEF f
  <2>3. ASSUME NEW type \in {"Pong", "AuthOk"}, Answer(f, Reply(f, type, None, 0, {})),
               authenticated' \in BOOLEAN, authenticated => authenticated', f.type # "Goodbye",
               authenticated' \/ f.type \in AllowedPreauth
        PROVE  \E rep \in RepSet : Answers(rep)
    <3> DEFINE rep == Reply(f, type, None, 0, {})
    <3>1. sver' \in Nat
      BY <1>1, VersionAssumption DEF Shape
    <3>2. type \in MsgTypes /\ None \in Codes \cup {None} /\ 0 \in Nat
          /\ {} \in SUBSET (CCaps \cup SCaps)
      BY DEF MsgTypes, Session
    <3>3. rep \in RepSet /\ rep.sid = f.sid
      BY <1>2, <3>1, <3>2, ReplyType
    <3>4. Send(rep) /\ toServer' = Tail(toServer) /\ spc' = spc
      BY <2>3 DEF Answer
    <3> HIDE DEF rep
    <3>5. Answers(rep)
      BY <1>1, <1>4, <2>3, <3>3, <3>4
    <3>. QED
      BY <3>3, <3>5
  <2>4. CASE /\ f.type = "Ping" /\ Answer(f, Reply(f, "Pong", None, 0, {}))
             /\ UNCHANGED authenticated
    <3>1. f.type \in AllowedPreauth /\ f.type # "Goodbye"
      BY <2>4 DEF AllowedPreauth, Session
    <3>. QED
      BY <1>1, <1>4, <2>3, <2>4, <3>1 DEF f
  <2>5. CASE /\ f.type = "Auth" /\ Answer(f, Reply(f, "AuthOk", None, 0, {}))
             /\ authenticated' = TRUE
    BY <1>1, <2>3, <2>5 DEF f
  <2>6. \/ SessionEnds /\ UNCHANGED <<toClient, authenticated>>
        \/ /\ f.type # "Goodbye"
           /\ \E code \in {"BAD_REQUEST", "UNAUTHENTICATED", "INTERNAL"} : Fail(f, code)
        \/ /\ f.type = "Ping" /\ Answer(f, Reply(f, "Pong", None, 0, {}))
           /\ UNCHANGED authenticated
        \/ /\ f.type = "Auth" /\ Answer(f, Reply(f, "AuthOk", None, 0, {}))
           /\ authenticated' = TRUE
    BY <1>7, Zenon DEF Handle, Validated, Decoded, Lookups
  <2>. QED
    BY <2>1, <2>2, <2>4, <2>5, <2>6
<1>. QED
  BY <1>3, <1>6, <1>7

\* What the server's handshake comes to.
LEMMA HandshakeIs ==
  ASSUME Shape, ServerHandshake
  PROVE  /\ spc = "handshake" /\ toServer # << >>
         /\ UNCHANGED <<authenticated, cpc, cver, ccaps, nextId, pending, outstanding, why, sent>>
         /\ \/ /\ spc' = "ended" /\ toServer' = << >> /\ UNCHANGED <<sver, scaps>>
               /\ UNCHANGED toClient \/ \E rep \in RepSet : rep.type = "Error" /\ Send(rep)
            \/ /\ spc' = "session" /\ toServer' = Tail(toServer)
               /\ Head(toServer).type = "Hello"
               /\ sver' = Negotiated(Head(toServer).range) /\ sver' \in SMin .. SMax
               /\ scaps' = Head(toServer).caps /\ scaps' \subseteq CCaps
               /\ \E rep \in RepSet : /\ Send(rep) /\ rep.type = "HelloAck"
                                     /\ rep.agreed = sver' /\ rep.caps = scaps' \cap SCaps
<1> DEFINE f == Head(toServer)
<1>1. /\ spc = "handshake" /\ toServer # << >>
      /\ UNCHANGED <<authenticated, cpc, cver, ccaps, nextId, pending, outstanding, why, sent>>
  BY DEF ServerHandshake, clientVars
<1>2. f \in ReqSet /\ f.range \in Nat \X Nat /\ f.caps \subseteq CCaps
  <2>1. f \in ReqSet
    BY <1>1, TailFacts DEF Shape
  <2> HIDE DEF f
  <2>. QED
    BY <2>1 DEF ReqSet
<1>3. \/ \E code \in {"BAD_REQUEST", "VERSION_MISMATCH"} : Refuse(f, code)
      \/ SessionEnds /\ UNCHANGED <<sver, scaps, toClient>>
      \/ f.type = "Hello" /\ Negotiated(f.range) >= SMin /\ Accept(f)
  BY DEF ServerHandshake
<1> HIDE DEF f
<1>4. ASSUME NEW code \in {"BAD_REQUEST", "VERSION_MISMATCH"}, Refuse(f, code)
      PROVE  /\ spc' = "ended" /\ toServer' = << >> /\ UNCHANGED <<sver, scaps>>
             /\ \E rep \in RepSet : rep.type = "Error" /\ Send(rep)
  <2>1. code \in Codes
    BY DEF Codes
  <2>. QED
    BY <1>2, <1>4, <2>1, ErrorType DEF Refuse, SessionEnds, SendError
<1>5. ASSUME f.type = "Hello", Negotiated(f.range) >= SMin, Accept(f)
      PROVE  /\ spc' = "session" /\ toServer' = Tail(toServer) /\ f.type = "Hello"
             /\ sver' = Negotiated(f.range) /\ sver' \in SMin .. SMax
             /\ scaps' = f.caps /\ scaps' \subseteq CCaps
             /\ \E rep \in RepSet : /\ Send(rep) /\ rep.type = "HelloAck"
                                   /\ rep.agreed = sver' /\ rep.caps = scaps' \cap SCaps
  <2>1. /\ sver' = Negotiated(f.range) /\ scaps' = f.caps /\ spc' = "session"
        /\ toServer' = Tail(toServer)
        /\ Send(Reply(f, "HelloAck", None, Negotiated(f.range), SCaps \cap f.caps))
    BY <1>5 DEF Accept
  <2>2. sver' \in SMin .. SMax /\ sver' \in Nat
    BY <1>2, <1>5, <2>1, VersionAssumption DEF Negotiated
  <2>3. "HelloAck" \in MsgTypes /\ None \in Codes \cup {None}
        /\ SCaps \cap f.caps \in SUBSET (CCaps \cup SCaps)
    BY DEF MsgTypes, Session
  <2> DEFINE n == Negotiated(f.range)
             c == SCaps \cap f.caps
             rep == Reply(f, "HelloAck", None, n, c)
  <2>4. /\ rep \in RepSet /\ rep.type = "HelloAck" /\ rep.agreed = n /\ rep.caps = c
    <3>1. n \in Nat /\ c \in SUBSET (CCaps \cup SCaps)
      BY <2>1, <2>2, <2>3
    <3> HIDE DEF n, c
    <3>. QED
      BY <1>2, <2>2, <2>3, <3>1, ReplyType
  <2>5. Send(rep)
    BY <2>1
  <2> HIDE DEF rep
  <2>. QED
    BY <1>2, <1>5, <2>1, <2>2, <2>4, <2>5
<1>. QED
  BY <1>1, <1>3, <1>4, <1>5 DEF f, SessionEnds

\* The two streams and the list of outstanding requests, one shorter.
LEMMA Shorter ==
  ASSUME Shape
  PROVE  /\ toServer # << >> => /\ Tail(toServer) \in Seq(ReqSet) /\ Len(Tail(toServer)) <= Buffered
                                /\ Head(toServer) \in ReqSet
         /\ toClient # << >> => /\ Tail(toClient) \in Seq(RepSet) /\ Len(Tail(toClient)) <= Buffered
                                /\ Head(toClient) \in RepSet
         /\ outstanding # << >> => /\ Tail(outstanding) \in Seq(ReqSet)
                                   /\ Len(Tail(outstanding)) <= Window
         /\ << >> \in Seq(ReqSet) /\ << >> \in Seq(RepSet)
         /\ Len(<< >>) <= Buffered /\ Len(<< >>) <= Window
<1>0. Buffered \in Nat /\ Window \in Nat
  BY TrafficAssumption
<1>1. ASSUME toServer # << >>
      PROVE  /\ Tail(toServer) \in Seq(ReqSet) /\ Len(Tail(toServer)) <= Buffered
             /\ Head(toServer) \in ReqSet
  BY <1>0, <1>1, TailFacts DEF Shape
<1>2. ASSUME toClient # << >>
      PROVE  /\ Tail(toClient) \in Seq(RepSet) /\ Len(Tail(toClient)) <= Buffered
             /\ Head(toClient) \in RepSet
  BY <1>0, <1>2, TailFacts DEF Shape
<1>3. ASSUME outstanding # << >>
      PROVE  Tail(outstanding) \in Seq(ReqSet) /\ Len(Tail(outstanding)) <= Window
  BY <1>0, <1>3, TailFacts DEF Shape
<1>4. /\ << >> \in Seq(ReqSet) /\ << >> \in Seq(RepSet)
      /\ Len(<< >>) <= Buffered /\ Len(<< >>) <= Window
  BY <1>0
<1>. QED
  BY <1>1, <1>2, <1>3, <1>4

LEMMA SendIs ==
  ASSUME Shape, NEW rep \in RepSet, Send(rep)
  PROVE  /\ toClient' \in Seq(RepSet) /\ Len(toClient') <= Buffered
         /\ cpc # "ended" => /\ toClient' = Append(toClient, rep)
                            /\ Len(toClient') = Len(toClient) + 1
                            /\ \A i \in 1 .. Len(toClient) : toClient'[i] = toClient[i]
                            /\ toClient'[Len(toClient) + 1] = rep
<1>0. toClient \in Seq(RepSet) /\ Len(toClient) <= Buffered /\ Buffered \in Nat
  BY TrafficAssumption DEF Shape
<1>1. CASE UNCHANGED toClient /\ cpc = "ended"
  BY <1>0, <1>1
<1>2. CASE cpc # "ended" /\ Len(toClient) < Buffered /\ toClient' = Append(toClient, rep)
  BY <1>0, <1>2, AppendFacts
<1>. QED
  BY <1>1, <1>2 DEF Send

\* The frame a call composes.
LEMMA ComposeIs ==
  ASSUME Shape, NEW type \in MsgTypes, NEW body \in AllBodies, NEW range \in Nat \X Nat,
         NEW caps \in SUBSET CCaps, NEW to, Compose(type, body, range, caps, to)
  PROVE  /\ pending' \in ReqSet /\ pending'.type = type /\ pending'.sid = nextId
         /\ pending'.range = range /\ cpc' = to
         /\ nextId' = NextStream(nextId)
<1>1. nextId \in StreamIds /\ cver \in Nat
  BY VersionAssumption DEF Shape
<1>. QED
  BY <1>1 DEF Compose, ReqSet

\* client_handshake's first frame, and the requests.
LEMMA OpenIs ==
  ASSUME Shape, Open
  PROVE  /\ cpc = "connected" /\ cpc' = "opening" /\ pending' \in ReqSet /\ HelloOK(pending')
         /\ pending'.sid = nextId /\ nextId' = NextStream(nextId)
         /\ UNCHANGED <<cver, ccaps, outstanding, why, spc, sver, scaps, authenticated,
                        toServer, toClient, sent>>
<1>0. /\ cpc = "connected"
      /\ UNCHANGED <<cver, ccaps, outstanding, why, spc, sver, scaps, authenticated,
                     toServer, toClient, sent>>
  BY DEF Open, serverVars
<1>1. "Hello" \in MsgTypes /\ "good" \in AllBodies /\ <<CMin, CMax>> \in Nat \X Nat
      /\ Requests \subseteq MsgTypes /\ Bodies \subseteq AllBodies /\ Hellos \subseteq Nat \X Nat
      /\ {} \in SUBSET CCaps /\ CCaps \in SUBSET CCaps
  BY VersionAssumption, TrafficAssumption DEF MsgTypes, Session, AllBodies
<1>2. ASSUME NEW range \in Hellos, NEW caps \in SUBSET CCaps, NEW body \in AllBodies,
             Compose("Hello", body, range, caps, "opening")
      PROVE  /\ cpc' = "opening" /\ pending' \in ReqSet /\ HelloOK(pending')
             /\ pending'.sid = nextId /\ nextId' = NextStream(nextId)
  BY <1>1, <1>2, ComposeIs DEF HelloOK
<1>3. ASSUME NEW type \in Requests, NEW body \in Bodies, type # "Hello",
             Compose(type, body, <<CMin, CMax>>, {}, "opening")
      PROVE  /\ cpc' = "opening" /\ pending' \in ReqSet /\ HelloOK(pending')
             /\ pending'.sid = nextId /\ nextId' = NextStream(nextId)
  BY <1>1, <1>3, ComposeIs DEF HelloOK
<1>4. \/ \E range \in Hellos, caps \in SUBSET CCaps, body \in AllBodies :
           Compose("Hello", body, range, caps, "opening")
      \/ \E type \in Requests, body \in Bodies :
           type # "Hello" /\ Compose(type, body, <<CMin, CMax>>, {}, "opening")
  <2> HIDE DEF Compose
  <2>. QED
    BY <1>1 DEF Open
<1>. QED
  BY <1>0, <1>2, <1>3, <1>4

LEMMA RequestIs ==
  ASSUME Shape, NEW type \in Requests, NEW body \in Bodies, Request(type, body)
  PROVE  /\ cpc = "ready" /\ sent < MaxSent /\ Len(outstanding) < Window /\ cpc' = "sending"
         /\ pending' \in ReqSet /\ pending'.type = type
         /\ pending'.sid = nextId /\ nextId' = NextStream(nextId)
         /\ sent' = (IF type = "Goodbye" THEN MaxSent ELSE sent + 1)
         /\ UNCHANGED <<cver, ccaps, outstanding, why, spc, sver, scaps, authenticated,
                        toServer, toClient>>
<1>1. type \in MsgTypes /\ body \in AllBodies /\ <<CMin, CMax>> \in Nat \X Nat
      /\ {} \in SUBSET CCaps
  BY VersionAssumption, TrafficAssumption
<1>. QED
  BY <1>1, ComposeIs DEF Request, serverVars

\* The state keeps its shape.
LEMMA ShapeStep ==
  ASSUME Shape, Phases, Odd, [Next]_vars
  PROVE  Shape'
<1> USE VersionAssumption, TrafficAssumption
<1>0. NextStream(nextId) \in StreamIds
  BY NextStreamIs DEF Shape, Odd
<1>e. /\ << >> \in Seq(ReqSet) /\ << >> \in Seq(RepSet) /\ Len(<< >>) = 0
      /\ Buffered \in Nat /\ Window \in Nat
  OBVIOUS
<1>1. CASE Open
  BY <1>0, <1>1, OpenIs DEF Shape
<1>2. ASSUME NEW type \in Requests, NEW body \in Bodies, Request(type, body) PROVE Shape'
  BY <1>0, <1>2, RequestIs DEF Shape
<1>3. CASE Write
  <2>1. /\ pending \in ReqSet /\ toServer \in Seq(ReqSet) /\ outstanding \in Seq(ReqSet)
        /\ Len(outstanding) < Window
    BY <1>3, <1>e DEF Write, Shape, Phases
  <2>2. toServer' \in Seq(ReqSet) /\ Len(toServer') <= Buffered
    <3>1. CASE toServer' = toServer
      BY <3>1 DEF Shape
    <3>2. CASE Len(toServer) < Buffered /\ toServer' = Append(toServer, pending)
      BY <1>e, <2>1, <3>2, AppendFacts
    <3>. QED
      BY <1>3, <3>1, <3>2 DEF Write
  <2>3. outstanding' \in Seq(ReqSet) /\ Len(outstanding') <= Window
    BY <1>3, <1>e, <2>1, AppendFacts DEF Write, Shape
  <2>. QED
    BY <1>3, <2>2, <2>3 DEF Write, Shape, serverVars
<1>4. CASE HandshakeReply
  <2>1. Head(toClient) \in RepSet /\ Tail(toClient) \in Seq(RepSet)
        /\ Len(Tail(toClient)) <= Buffered
    BY <1>4, TailFacts DEF HandshakeReply, Shape
  <2>2. Head(toClient).code \in Codes \cup {None} /\ Head(toClient).caps \subseteq CCaps \cup SCaps
        /\ Head(toClient).agreed \in Nat
    BY <2>1 DEF RepSet
  <2>3. why' \in {None, "frame", "eof", "unexpected"} \cup Codes
    BY <1>4, <2>2 DEF HandshakeReply, Hangup, Shape
  <2>4. cver' \in CMin .. CMax /\ ccaps' \subseteq CCaps \cup SCaps
    BY <1>4, <2>2 DEF HandshakeReply, Hangup, Shape, CSpeaks
  <2>5. toClient' \in Seq(RepSet) /\ Len(toClient') <= Buffered /\ outstanding' = << >>
        /\ cpc' \in {"ready", "ended"} /\ (pending' = NoFrame \/ pending' = pending)
    BY <1>4, <2>1, Shorter DEF HandshakeReply, Hangup
  <2>6. UNCHANGED <<nextId, spc, sver, scaps, authenticated, toServer, sent>>
    BY <1>4 DEF HandshakeReply, serverVars
  <2>. QED
    BY <1>e, <2>3, <2>4, <2>5, <2>6 DEF Shape
<1>5. CASE Receive
  <2>1. /\ Tail(toClient) \in Seq(RepSet) /\ Len(Tail(toClient)) <= Buffered
        /\ Tail(outstanding) \in Seq(ReqSet) /\ Len(Tail(outstanding)) <= Window
    BY <1>5, <1>e, TailFacts DEF Receive, Shape
  <2>. QED
    BY <1>5, <2>1 DEF Receive, Shape, serverVars
<1>6. CASE ClientEof \/ ClientDone
  <2>1. /\ cpc' = "ended" /\ pending' = NoFrame /\ outstanding' = << >> /\ toClient' = << >>
        /\ why' \in {why, "eof"}
        /\ UNCHANGED <<cver, ccaps, nextId, spc, sver, scaps, authenticated, toServer, sent>>
    BY <1>6 DEF ClientEof, ClientDone, Hangup, serverVars
  <2>. QED
    BY <2>1, Shorter DEF Shape
<1>7. CASE ServerHandshake
  <2>1. toServer' \in Seq(ReqSet) /\ Len(toServer') <= Buffered
    BY <1>7, HandshakeIs, Shorter
  <2>2. toClient' \in Seq(RepSet) /\ Len(toClient') <= Buffered
    BY <1>7, HandshakeIs, SendIs DEF Shape
  <2>. QED
    BY <1>7, <2>1, <2>2, HandshakeIs DEF Shape
<1>8. CASE Serve
  <2>1. toServer' \in Seq(ReqSet) /\ Len(toServer') <= Buffered
    BY <1>8, ServeIs, Shorter
  <2>2. toClient' \in Seq(RepSet) /\ Len(toClient') <= Buffered
    BY <1>8, ServeIs, SendIs DEF Shape
  <2>3. authenticated' \in BOOLEAN
    BY <1>8, ServeIs DEF Shape
  <2>. QED
    BY <1>8, <2>1, <2>2, <2>3, ServeIs DEF Shape
<1>9. CASE ServerRecvFails
  BY <1>9, <1>e DEF ServerRecvFails, SessionEnds, Shape, clientVars
<1>10. CASE Cut
  BY <1>10, <1>e DEF Cut, Hangup, SessionEnds, Shape
<1>11. CASE UNCHANGED vars
  BY <1>11 DEF vars, clientVars, serverVars, Shape
<1>. QED
  BY <1>1, <1>2, <1>3, <1>4, <1>5, <1>6, <1>7, <1>8, <1>9, <1>10, <1>11
     DEF Next, ClientStep, ServerStep, Over

\* The two sides go through the handshake together.
LEMMA PhasesStep ==
  ASSUME Shape, Phases, [Next]_vars
  PROVE  Phases'
<1>0. ASSUME UNCHANGED <<cver, ccaps, sver, scaps>>
      PROVE  Settled(cver, ccaps) => Settled(cver, ccaps)'
  BY <1>0 DEF Settled
<1>1. CASE Open
  <2>1. cpc' = "opening" /\ HelloOK(pending)'
    BY <1>1, OpenIs DEF HelloOK
  <2>2. /\ spc' = "handshake" /\ toServer' = << >> /\ toClient' = << >> /\ outstanding' = << >>
    BY <1>1, OpenIs DEF Phases
  <2>. QED
    BY <2>1, <2>2 DEF Phases
<1>2. ASSUME NEW type \in Requests, NEW body \in Bodies, Request(type, body) PROVE Phases'
  <2>1. cpc' = "sending" /\ cpc = "ready" /\ UNCHANGED <<spc, cver, ccaps, sver, scaps>>
    BY <1>2, RequestIs
  <2>. QED
    BY <1>0, <2>1 DEF Phases
<1>3. CASE Write
  <2>1. CASE cpc = "opening"
    <3>1. /\ spc = "handshake" /\ toServer = << >> /\ toClient = << >> /\ outstanding = << >>
          /\ HelloOK(pending) /\ pending \in ReqSet
      BY <2>1 DEF Phases, Shape
    <3>2. /\ cpc' = "awaiting" /\ spc' = "handshake" /\ toClient' = << >>
          /\ toServer' = Append(<< >>, pending)
          /\ outstanding' = << >> \/ outstanding' = Append(<< >>, pending)
      BY <1>3, <2>1, <3>1 DEF Write, serverVars
    <3>3. Len(toServer') = 1 /\ toServer'[1] = pending /\ Len(outstanding') <= 1
      <4>1. Len(Append(<< >>, pending)) = 1 /\ Append(<< >>, pending)[1] = pending
        BY SingleFacts
      <4>2. Len(<< >>) = 0
        OBVIOUS
      <4>3. Len(outstanding') \in {0, 1}
        BY <3>2, <4>1, <4>2
      <4>. QED
        BY <3>2, <4>1, <4>3
    <3>4. HelloOK(toServer'[1])
      BY <3>1, <3>3
    <3>. QED
      BY <3>2, <3>3, <3>4 DEF Phases, HelloOK
  <2>2. CASE cpc = "sending"
    <3>1. cpc' = "ready" /\ UNCHANGED <<spc, cver, ccaps, sver, scaps>>
      BY <1>3, <2>2 DEF Write, serverVars
    <3>. QED
      BY <1>0, <2>2, <3>1 DEF Phases
  <2>. QED
    BY <1>3, <2>1, <2>2 DEF Write
<1>4. ASSUME cpc' = "ended" PROVE Phases'
  BY <1>4 DEF Phases
<1>5. CASE HandshakeReply
  <2>1. CASE cpc' = "ended"
    BY <1>4, <2>1
  <2>2. CASE cpc' # "ended"
    <3>1. /\ cpc = "awaiting" /\ toClient # << >> /\ Head(toClient).type = "HelloAck"
          /\ cver' = Head(toClient).agreed /\ ccaps' = Head(toClient).caps
          /\ cpc' = "ready" /\ UNCHANGED <<spc, sver, scaps>>
      BY <1>5, <2>2 DEF HandshakeReply, Hangup, serverVars
    <3>2. Head(toClient) = toClient[1]
      BY <3>1, TailFacts DEF Shape
    <3>3. spc = "session" /\ Settled(toClient[1].agreed, toClient[1].caps)
      BY <3>1, <3>2 DEF Phases, Shape
    <3>4. Settled(cver, ccaps)'
      BY <3>1, <3>2, <3>3 DEF Settled
    <3>. QED
      BY <3>1, <3>3, <3>4 DEF Phases
  <2>. QED
    BY <2>1, <2>2
<1>6. CASE Receive
  <2>1. cpc = "ready" /\ UNCHANGED <<cpc, spc, cver, ccaps, sver, scaps>>
    BY <1>6 DEF Receive, serverVars
  <2>. QED
    BY <1>0, <2>1 DEF Phases
<1>7. CASE ClientEof \/ ClientDone \/ Cut
  BY <1>4, <1>7 DEF ClientEof, ClientDone, Cut, Hangup
<1>8. CASE ServerHandshake
  <2>1. spc = "handshake" /\ toServer # << >> /\ UNCHANGED <<cpc, outstanding>>
    BY <1>8, HandshakeIs
  <2>2. CASE cpc = "ended"
    BY <1>4, <2>1, <2>2
  <2>3. CASE cpc = "awaiting"
    <3>1. /\ Len(outstanding') <= 1 /\ toClient = << >> /\ Len(toServer) = 1
          /\ HelloOK(toServer[1]) /\ Head(toServer) = toServer[1] /\ cpc' = "awaiting"
          /\ Tail(toServer) \in Seq(ReqSet) /\ Len(Tail(toServer)) = 0
      BY <2>1, <2>3, TailFacts DEF Phases, Shape
    <3>2. Len(toClient) = 0 /\ Tail(toServer) = << >>
      BY <3>1, EmptyFacts
    <3>3. CASE /\ spc' = "ended" /\ toServer' = << >> /\ UNCHANGED <<sver, scaps>>
               /\ UNCHANGED toClient \/ \E rep \in RepSet : rep.type = "Error" /\ Send(rep)
      <4>1. toClient' = << >> \/ (Len(toClient') = 1 /\ toClient'[1].type # "HelloAck")
        BY <2>3, <3>1, <3>2, <3>3, SendIs
      <4>. QED
        BY <3>1, <3>3, <4>1 DEF Phases
    <3>4. ASSUME spc' = "session", toServer' = Tail(toServer), Head(toServer).type = "Hello",
                 sver' = Negotiated(Head(toServer).range),
                 NEW rep \in RepSet, Send(rep), rep.type = "HelloAck",
                 rep.agreed = sver', rep.caps = scaps' \cap SCaps
          PROVE  Phases'
      <4>1. Len(toClient') = 1 /\ toClient'[1] = rep
        BY <2>3, <3>2, <3>4, SendIs
      <4>2. sver' = Negotiated(toServer[1].range) /\ toServer[1].range \in Hellos
        BY <3>1, <3>4 DEF HelloOK
      <4>3. \E r \in Hellos : sver' = Negotiated(r)
        BY <4>2
      <4>4. Settled(toClient[1].agreed, toClient[1].caps)'
        BY <3>4, <4>1, <4>3 DEF Settled, Negotiated
      <4>. QED
        BY <3>1, <3>2, <3>4, <4>1, <4>4 DEF Phases
    <3>. QED
      BY <1>8, <3>3, <3>4, HandshakeIs
  <2>. QED
    BY <2>1, <2>2, <2>3 DEF Phases, Shape
<1>9. CASE Serve
  <2>1. /\ spc = "session" /\ toServer # << >> /\ spc' # "handshake"
        /\ UNCHANGED <<cpc, cver, ccaps, sver, scaps>>
    BY <1>9, ServeIs
  <2>2. cpc \in {"sending", "ready", "ended"}
    BY <2>1 DEF Phases, Shape
  <2>. QED
    BY <1>0, <2>1, <2>2 DEF Phases
<1>10. CASE ServerRecvFails
  <2>1. /\ spc' = "ended" /\ toServer' = << >> /\ UNCHANGED <<cpc, outstanding, toClient, pending>>
        /\ spc # "ended" /\ (toServer # << >> \/ cpc = "ended")
    BY <1>10 DEF ServerRecvFails, SessionEnds, clientVars
  <2>2. cpc \notin {"connected", "opening"} /\ (cpc = "awaiting" => toClient = << >>)
    BY <2>1 DEF Phases, Shape
  <2>. QED
    BY <2>1, <2>2 DEF Phases
<1>11. CASE UNCHANGED vars
  BY <1>11 DEF vars, clientVars, serverVars, Phases, HelloOK, Settled
<1>. QED
  BY <1>1, <1>2, <1>3, <1>5, <1>6, <1>7, <1>8, <1>9, <1>10, <1>11
     DEF Next, ClientStep, ServerStep, Over

\* Requests and replies keep step.
LEMMA QueuesStep ==
  ASSUME Shape, Phases, Queues, [Next]_vars
  PROVE  Queues'
<1> USE TrafficAssumption
<1> DEFINE Q == /\ \A i \in 1 .. Len(toServer) : toServer[i].type = "Goodbye" =>
                     i = Len(toServer) /\ sent = MaxSent /\ cpc = "ready"
                /\ Len(outstanding) = Len(toClient) + Due
                /\ \A i \in 1 .. Len(toClient) :
                     /\ outstanding[i].sid = toClient[i].sid
                     /\ ~authenticated /\ outstanding[i].type \notin AllowedPreauth =>
                          toClient[i].code = "AUTH_REQUIRED"
                /\ \A i \in 1 .. Due : outstanding[Len(toClient) + i] = toServer[i]
<1>0. /\ cpc \in {"sending", "ready"} /\ spc = "session" => Q
      /\ cpc = "sending" /\ pending.type = "Goodbye" => sent = MaxSent
  BY DEF Queues
<1>t. /\ toServer \in Seq(ReqSet) /\ toClient \in Seq(RepSet) /\ outstanding \in Seq(ReqSet)
      /\ Len(toServer) \in Nat /\ Len(toClient) \in Nat /\ Len(outstanding) \in Nat
      /\ sent \in Nat /\ sent <= MaxSent /\ MaxSent \in Nat
  BY DEF Shape
<1>l. Len(toServer) = 0 <=> toServer = << >>
  BY <1>t, EmptyFacts
<1>1. ASSUME cpc' \notin {"sending", "ready"} PROVE Queues'
  BY <1>1 DEF Queues
<1>2. ASSUME spc' # "session", UNCHANGED <<cpc, pending, sent>> PROVE Queues'
  BY <1>2, <1>0 DEF Queues
<1>3. ASSUME NEW type \in Requests, NEW body \in Bodies, Request(type, body) PROVE Queues'
  <2>1. /\ cpc = "ready" /\ sent < MaxSent /\ cpc' = "sending" /\ pending'.type = type
        /\ sent' = (IF type = "Goodbye" THEN MaxSent ELSE sent + 1)
        /\ UNCHANGED <<outstanding, spc, authenticated, toServer, toClient>>
    BY <1>3, RequestIs
  <2>2. Due' = Due
    BY <2>1 DEF Due
  <2>3. spc = "session" => \A i \in 1 .. Len(toServer) : toServer[i].type # "Goodbye"
    BY <1>0, <1>t, <2>1
  <2>4. spc' = "session" => Q'
    BY <1>0, <2>1, <2>2, <2>3
  <2>. QED
    BY <2>1, <2>4 DEF Queues
<1>4. CASE Write
  <2>1. CASE cpc = "opening"
    BY <1>1, <1>4, <2>1 DEF Write
  <2>2. CASE cpc = "sending" /\ spc # "session"
    BY <1>4, <2>2 DEF Write, serverVars, Queues
  <2>3. CASE cpc = "sending" /\ spc = "session"
    <3>0. /\ pending \in ReqSet /\ cpc' = "ready" /\ spc' = "session"
          /\ UNCHANGED <<toClient, sent, authenticated>>
          /\ toServer' = Append(toServer, pending)
          /\ outstanding' = IF pending.type = "Goodbye" THEN outstanding
                            ELSE Append(outstanding, pending)
      BY <1>4, <2>3 DEF Write, serverVars, Shape
    <3>1. /\ Len(toServer') = Len(toServer) + 1 /\ toServer'[Len(toServer) + 1] = pending
          /\ \A i \in 1 .. Len(toServer) : toServer'[i] = toServer[i]
          /\ toServer' \in Seq(ReqSet)
      BY <1>t, <3>0, AppendFacts
    <3>2. Q /\ \A i \in 1 .. Len(toServer) : toServer[i].type # "Goodbye"
      BY <1>0, <2>3
    <3>3. Due = Len(toServer)
      BY <1>t, <1>l, <3>2 DEF Due
    <3>4. Due' = IF pending.type = "Goodbye" THEN Len(toServer) ELSE Len(toServer) + 1
      <4>1. toServer' # << >> /\ Len(toServer') = Len(toServer) + 1
        BY <1>t, <3>1
      <4>. QED
        BY <1>t, <3>1, <4>1 DEF Due
    <3>5. CASE pending.type = "Goodbye"
      <4>1. outstanding' = outstanding /\ sent = MaxSent
        BY <1>0, <2>3, <3>0, <3>5
      <4>2. Q'
        BY <1>t, <3>0, <3>1, <3>2, <3>3, <3>4, <3>5, <4>1
      <4>. QED
        BY <3>0, <4>2 DEF Queues
    <3>6. CASE pending.type # "Goodbye"
      <4>1. /\ Len(outstanding') = Len(outstanding) + 1
            /\ \A i \in 1 .. Len(outstanding) : outstanding'[i] = outstanding[i]
            /\ outstanding'[Len(outstanding) + 1] = pending
        BY <1>t, <3>0, <3>6, AppendFacts
      <4>2. ASSUME NEW i \in 1 .. Len(toServer') PROVE toServer'[i].type # "Goodbye"
        <5>1. CASE i = Len(toServer) + 1
          BY <3>1, <3>6, <5>1
        <5>2. CASE i \in 1 .. Len(toServer)
          BY <3>1, <3>2, <5>2
        <5>. QED
          BY <1>t, <3>1, <4>2, <5>1, <5>2
      <4>3. Len(outstanding) = Len(toClient) + Len(toServer)
        BY <3>2, <3>3
      <4>4. \A i \in 1 .. Len(toClient') :
              /\ outstanding'[i].sid = toClient'[i].sid
              /\ ~authenticated' /\ outstanding'[i].type \notin AllowedPreauth =>
                   toClient'[i].code = "AUTH_REQUIRED"
        BY <1>t, <3>0, <3>2, <4>1, <4>3
      <4>5. \A i \in 1 .. Due' : outstanding'[Len(toClient') + i] = toServer'[i]
        <5> SUFFICES ASSUME NEW i \in 1 .. Len(toServer) + 1
                     PROVE  outstanding'[Len(toClient) + i] = toServer'[i]
          BY <3>0, <3>4, <3>6
        <5>1. CASE i = Len(toServer) + 1
          BY <1>t, <3>1, <4>1, <4>3, <5>1
        <5>2. CASE i \in 1 .. Len(toServer)
          <6>1. Len(toClient) + i \in 1 .. Len(outstanding)
            BY <1>t, <4>3, <5>2
          <6>2. outstanding[Len(toClient) + i] = toServer[i]
            BY <3>2, <3>3, <5>2
          <6>. QED
            BY <3>1, <4>1, <5>2, <6>1, <6>2
        <5>. QED
          BY <1>t, <5>1, <5>2
      <4>6. Len(outstanding') = Len(toClient') + Due'
        BY <1>t, <3>0, <3>4, <3>6, <4>1, <4>3
      <4>7. Q'
        BY <4>2, <4>4, <4>5, <4>6
      <4>. QED
        BY <3>0, <4>7 DEF Queues
    <3>. QED
      BY <3>5, <3>6
  <2>. QED
    BY <1>4, <2>1, <2>2, <2>3 DEF Write
<1>5. CASE HandshakeReply
  <2>1. CASE cpc' = "ended"
    BY <1>1, <2>1
  <2>2. CASE cpc' # "ended"
    <3>1. /\ cpc = "awaiting" /\ toClient # << >> /\ Head(toClient).type = "HelloAck"
          /\ cpc' = "ready" /\ outstanding' = << >> /\ toClient' = Tail(toClient)
          /\ UNCHANGED <<spc, toServer>>
      BY <1>5, <2>2 DEF HandshakeReply, Hangup, serverVars
    <3>2. Head(toClient) = toClient[1] /\ Len(Tail(toClient)) = Len(toClient) - 1
      BY <1>t, <3>1, TailFacts
    <3>3. spc = "session" /\ toServer = << >> /\ Len(toClient) = 1
      BY <3>1, <3>2 DEF Phases, Shape
    <3>4. Len(toServer') = 0 /\ Len(toClient') = 0 /\ Len(outstanding') = 0 /\ Due' = 0
      BY <1>l, <3>1, <3>2, <3>3 DEF Due
    <3>5. Q'
      BY <3>4
    <3>. QED
      BY <3>1, <3>5 DEF Queues
  <2>. QED
    BY <2>1, <2>2
<1>6. CASE Receive
  <2>1. /\ cpc = "ready" /\ toClient # << >> /\ outstanding # << >>
        /\ toClient' = Tail(toClient) /\ outstanding' = Tail(outstanding)
        /\ UNCHANGED <<cpc, spc, authenticated, toServer, sent, pending>>
    BY <1>6 DEF Receive, serverVars
  <2>2. /\ Len(toClient) >= 1 /\ Len(toClient') = Len(toClient) - 1
        /\ \A i \in 1 .. Len(toClient) - 1 : toClient'[i] = toClient[i + 1]
        /\ Len(outstanding) >= 1 /\ Len(outstanding') = Len(outstanding) - 1
        /\ \A i \in 1 .. Len(outstanding) - 1 : outstanding'[i] = outstanding[i + 1]
    BY <1>t, <2>1, TailFacts
  <2>3. Due' = Due /\ Due \in Nat
    BY <1>t, <1>l, <2>1 DEF Due
  <2>4. spc' = "session" => Q'
    <3> SUFFICES ASSUME spc = "session" PROVE Q'
      BY <2>1
    <3>1. Q
      BY <1>0, <2>1
    <3>2. ASSUME NEW i \in 1 .. Len(toClient')
          PROVE  /\ outstanding'[i].sid = toClient'[i].sid
                 /\ ~authenticated' /\ outstanding'[i].type \notin AllowedPreauth =>
                      toClient'[i].code = "AUTH_REQUIRED"
      <4>1. i + 1 \in 1 .. Len(toClient) /\ i \in 1 .. Len(toClient) - 1
            /\ i \in 1 .. Len(outstanding) - 1
        BY <1>t, <2>2, <2>3, <3>1
      <4>. QED
        BY <2>1, <2>2, <3>1, <4>1
    <3>3. ASSUME NEW i \in 1 .. Due PROVE outstanding'[Len(toClient') + i] = toServer'[i]
      <4>1. Len(toClient') + i \in 1 .. Len(outstanding) - 1 /\ (Len(toClient') + i) + 1 = Len(toClient) + i
        BY <1>t, <2>2, <2>3, <3>1
      <4>2. outstanding'[Len(toClient') + i] = outstanding[Len(toClient) + i]
        BY <2>2, <4>1
      <4>. QED
        BY <2>1, <3>1, <4>2
    <3>4. Len(outstanding') = Len(toClient') + Due'
      BY <1>t, <2>2, <2>3, <3>1
    <3>. QED
      BY <2>1, <2>3, <3>1, <3>2, <3>3, <3>4
  <2>. QED
    BY <2>1, <2>4 DEF Queues
<1>7. CASE Open \/ ClientEof \/ ClientDone \/ Cut
  BY <1>1, <1>7, OpenIs DEF ClientEof, ClientDone, Cut, Hangup
<1>8. CASE ServerHandshake
  <2>1. cpc' \notin {"sending", "ready"}
    BY <1>8, HandshakeIs DEF Phases
  <2>. QED
    BY <1>1, <2>1
<1>9. CASE Serve
  <2>1. CASE spc' # "session"
    BY <1>2, <1>9, <2>1, ServeIs
  <2>2. CASE cpc \notin {"sending", "ready"}
    BY <1>1, <1>9, <2>2, ServeIs
  <2>3. ASSUME cpc \in {"sending", "ready"}, spc' = "session",
               toServer' = Tail(toServer), authenticated => authenticated',
               Head(toServer).type # "Goodbye",
               NEW rep \in RepSet, Send(rep), rep.sid = Head(toServer).sid,
               ~authenticated' /\ Head(toServer).type \notin AllowedPreauth =>
                 rep.code = "AUTH_REQUIRED"
        PROVE  Queues'
    <3>0. /\ spc = "session" /\ toServer # << >>
          /\ UNCHANGED <<cpc, pending, outstanding, sent>>
      BY <1>9, ServeIs
    <3>1. Q
      BY <1>0, <2>3, <3>0
    <3>2. /\ Len(toServer) >= 1 /\ Len(toServer') = Len(toServer) - 1
          /\ Head(toServer) = toServer[1] /\ toServer' \in Seq(ReqSet)
          /\ \A i \in 1 .. Len(toServer) - 1 : toServer'[i] = toServer[i + 1]
      BY <1>t, <2>3, <3>0, TailFacts
    <3>3. /\ Len(toClient') = Len(toClient) + 1 /\ toClient'[Len(toClient) + 1] = rep
          /\ \A i \in 1 .. Len(toClient) : toClient'[i] = toClient[i]
      BY <2>3, SendIs
    <3>4. Due >= 1 /\ Due' = Due - 1 /\ Due <= Len(toServer) /\ Due \in Nat
      <4>1. Len(toServer') = 0 <=> toServer' = << >>
        BY <3>2, EmptyFacts
      <4>2. CASE Len(toServer) = 1
        <5>1. Due = 1 /\ toServer' = << >>
          BY <2>3, <3>0, <3>2, <4>1, <4>2 DEF Due
        <5>. QED
          BY <3>2, <4>2, <5>1 DEF Due
      <4>3. CASE Len(toServer) > 1
        <5>1. toServer' # << >> /\ toServer'[Len(toServer')] = toServer[Len(toServer)]
          BY <1>t, <3>2, <4>1, <4>3
        <5>. QED
          BY <1>t, <3>0, <3>2, <4>3, <5>1 DEF Due
      <4>. QED
        BY <1>t, <3>2, <4>2, <4>3
    <3>5. outstanding[Len(toClient) + 1] = toServer[1]
      BY <3>1, <3>4
    <3>6. \A i \in 1 .. Len(toServer') : toServer'[i].type = "Goodbye" =>
            i = Len(toServer') /\ sent' = MaxSent /\ cpc' = "ready"
      <4> SUFFICES ASSUME NEW i \in 1 .. Len(toServer'), toServer'[i].type = "Goodbye"
                   PROVE  i = Len(toServer') /\ sent' = MaxSent /\ cpc' = "ready"
        OBVIOUS
      <4>1. i + 1 \in 1 .. Len(toServer) /\ toServer[i + 1].type = "Goodbye"
        BY <1>t, <3>2
      <4>. QED
        BY <1>t, <3>0, <3>1, <3>2, <4>1
    <3>7. Len(outstanding') = Len(toClient') + Due'
      BY <1>t, <3>0, <3>1, <3>3, <3>4
    <3>8. ASSUME NEW i \in 1 .. Len(toClient')
          PROVE  /\ outstanding'[i].sid = toClient'[i].sid
                 /\ ~authenticated' /\ outstanding'[i].type \notin AllowedPreauth =>
                      toClient'[i].code = "AUTH_REQUIRED"
      <4>1. CASE i = Len(toClient) + 1
        BY <2>3, <3>0, <3>2, <3>3, <3>5, <4>1
      <4>2. CASE i \in 1 .. Len(toClient)
        BY <2>3, <3>0, <3>1, <3>3, <4>2
      <4>. QED
        BY <1>t, <3>3, <4>1, <4>2
    <3>9. ASSUME NEW i \in 1 .. Due' PROVE outstanding'[Len(toClient') + i] = toServer'[i]
      <4>1. i + 1 \in 1 .. Due /\ i \in 1 .. Len(toServer) - 1
            /\ Len(toClient') + i = Len(toClient) + (i + 1)
        BY <1>t, <3>3, <3>4
      <4>2. outstanding[Len(toClient) + (i + 1)] = toServer[i + 1]
        BY <3>1, <4>1
      <4>. QED
        BY <3>0, <3>2, <4>1, <4>2
    <3>10. Q'
      BY <3>6, <3>7, <3>8, <3>9
    <3>. QED
      BY <1>0, <3>0, <3>10 DEF Queues
  <2>. QED
    BY <1>9, <2>1, <2>2, <2>3, ServeIs
<1>10. CASE ServerRecvFails
  BY <1>2, <1>10 DEF ServerRecvFails, SessionEnds, clientVars
<1>11. CASE UNCHANGED vars
  BY <1>11 DEF vars, clientVars, serverVars, Queues, Due
<1>. QED
  BY <1>3, <1>4, <1>5, <1>6, <1>7, <1>8, <1>9, <1>10, <1>11
     DEF Next, ClientStep, ServerStep, Over

\* A client's stream ids stay odd, wrapped or not.
LEMMA OddStep ==
  ASSUME Shape, Phases, Odd, [Next]_vars
  PROVE  Odd'
<1>0. /\ outstanding \in Seq(ReqSet) /\ Len(outstanding) \in Nat /\ Len(<< >>) = 0
      /\ NextStream(nextId) % 2 = 1
  BY NextStreamIs DEF Shape, Odd
<1>1. ASSUME UNCHANGED <<nextId, outstanding>>, cpc' \notin {"opening", "sending"}
      PROVE  Odd'
  BY <1>1 DEF Odd
<1>2. ASSUME UNCHANGED <<nextId, outstanding, pending, cpc>> PROVE Odd'
  BY <1>2 DEF Odd
<1>3. ASSUME UNCHANGED nextId, outstanding' = << >>, cpc' \notin {"opening", "sending"}
      PROVE  Odd'
  BY <1>0, <1>3 DEF Odd
<1>4. ASSUME nextId' = NextStream(nextId), pending'.sid = nextId, UNCHANGED outstanding
      PROVE  Odd'
  BY <1>0, <1>4 DEF Odd
<1>5. CASE Open
  BY <1>4, <1>5, OpenIs
<1>6. ASSUME NEW type \in Requests, NEW body \in Bodies, Request(type, body) PROVE Odd'
  BY <1>4, <1>6, RequestIs
<1>7. CASE Write
  <2>1. /\ cpc \in {"opening", "sending"} /\ cpc' \notin {"opening", "sending"}
        /\ UNCHANGED nextId /\ pending \in ReqSet
        /\ outstanding' = outstanding \/ outstanding' = Append(outstanding, pending)
    BY <1>7 DEF Write, Shape
  <2>2. CASE outstanding' = outstanding
    BY <1>1, <2>1, <2>2
  <2>3. CASE outstanding' = Append(outstanding, pending)
    <3>1. /\ Len(outstanding') = Len(outstanding) + 1
          /\ \A i \in 1 .. Len(outstanding) : outstanding'[i] = outstanding[i]
          /\ outstanding'[Len(outstanding) + 1] = pending
      BY <1>0, <2>1, <2>3, AppendFacts
    <3>2. ASSUME NEW i \in 1 .. Len(outstanding') PROVE outstanding'[i].sid % 2 = 1
      <4>1. CASE i = Len(outstanding) + 1
        BY <2>1, <3>1, <4>1 DEF Odd
      <4>2. CASE i \in 1 .. Len(outstanding)
        BY <3>1, <4>2 DEF Odd
      <4>. QED
        BY <1>0, <3>1, <3>2, <4>1, <4>2
    <3>. QED
      BY <2>1, <3>2 DEF Odd
  <2>. QED
    BY <2>1, <2>2, <2>3
<1>8. CASE HandshakeReply \/ ClientEof \/ ClientDone \/ Cut
  BY <1>3, <1>8 DEF HandshakeReply, ClientEof, ClientDone, Cut, Hangup
<1>9. CASE Receive
  <2>1. /\ outstanding # << >> /\ outstanding' = Tail(outstanding) /\ cpc' = "ready"
        /\ UNCHANGED nextId
    BY <1>9 DEF Receive
  <2>2. /\ Len(outstanding') = Len(outstanding) - 1
        /\ \A i \in 1 .. Len(outstanding) - 1 : outstanding'[i] = outstanding[i + 1]
    BY <1>0, <2>1, TailFacts
  <2>3. ASSUME NEW i \in 1 .. Len(outstanding') PROVE outstanding'[i].sid % 2 = 1
    <3>1. i + 1 \in 1 .. Len(outstanding) /\ i \in 1 .. Len(outstanding) - 1
      BY <1>0, <2>2
    <3>. QED
      BY <2>2, <3>1 DEF Odd
  <2>. QED
    BY <2>1, <2>3 DEF Odd
<1>10. CASE ServerHandshake \/ Serve
  BY <1>2, <1>10, HandshakeIs, ServeIs
<1>11. CASE ServerRecvFails
  BY <1>2, <1>11 DEF ServerRecvFails, clientVars
<1>12. CASE UNCHANGED vars
  BY <1>2, <1>12 DEF vars, clientVars
<1>. QED
  BY <1>5, <1>6, <1>7, <1>8, <1>9, <1>10, <1>11, <1>12
     DEF Next, ClientStep, ServerStep, Over

\* The ids do not come round within a window.
Roomy == 2 * Window <= Streams

\* The next id is one call further on, and not yet round the circle.
LEMMA AheadStep ==
  ASSUME NEW a \in StreamIds, NEW b \in StreamIds, a % 2 = 1, b % 2 = 1,
         NEW k \in Nat, 2 * (k + 1) <= Streams, Ahead(a, b, k)
  PROVE  Ahead(a, NextStream(b), k + 1)
<1>1. NextStream(b) = IF b + 2 < Streams THEN b + 2 ELSE b + 2 - Streams
  BY NextStreamIs
<1> DEFINE M == Streams
           n == NextStream(b)
<1>2. M \in Nat /\ a \in Nat /\ b \in Nat /\ a < M /\ b < M /\ 2 * (k + 1) <= M
      /\ n = (IF b + 2 < M THEN b + 2 ELSE b + 2 - M)
      /\ (b = a + 2 * k \/ b = a + 2 * k - M)
  BY <1>1, StreamsAssumption DEF StreamIds, Ahead
<1>3. SUFFICES n = a + 2 * (k + 1) \/ n = a + 2 * (k + 1) - M
  BY DEF Ahead
<1> HIDE DEF M, n
<1>. QED
  BY <1>2

\* One call after itself.
LEMMA AheadOne ==
  ASSUME NEW b \in StreamIds, b % 2 = 1
  PROVE  Ahead(b, NextStream(b), 1)
<1> DEFINE M == Streams
           n == NextStream(b)
<1>1. M \in Nat /\ b \in Nat /\ n = (IF b + 2 < M THEN b + 2 ELSE b + 2 - M)
  BY NextStreamIs, StreamsAssumption DEF StreamIds
<1>2. SUFFICES n = b + 2 * 1 \/ n = b + 2 * 1 - M
  BY DEF Ahead
<1> HIDE DEF M, n
<1>. QED
  BY <1>1

\* Consecutive calls stay their distance apart.
LEMMA SpacedStep ==
  ASSUME Roomy, IInv, Spaced, [Next]_vars
  PROVE  Spaced'
<1>0. /\ outstanding \in Seq(ReqSet) /\ Len(outstanding) \in Nat /\ Len(<< >>) = 0
      /\ Window \in Nat /\ Len(outstanding) <= Window /\ sent \in Nat /\ MaxSent \in Nat
      /\ Streams \in Nat /\ 2 * Window <= Streams
      /\ nextId \in StreamIds /\ nextId % 2 = 1
  BY TrafficAssumption, StreamsAssumption DEF IInv, Shape, Odd, Roomy
<1>i. ASSUME NEW i \in 1 .. Len(outstanding)
      PROVE  outstanding[i].sid \in StreamIds /\ outstanding[i].sid % 2 = 1
  <2>1. outstanding[i] \in ReqSet
    BY <1>0, <1>i
  <2>. QED
    BY <1>i, <2>1 DEF ReqSet, IInv, Odd
<1>1. ASSUME UNCHANGED outstanding, cpc' \notin {"ready", "sending"} PROVE Spaced'
  BY <1>1 DEF Spaced
<1>2. ASSUME UNCHANGED <<nextId, outstanding, pending, cpc, sent>> PROVE Spaced'
  BY <1>2 DEF Spaced
<1>3. ASSUME outstanding' = << >>, cpc' # "sending" PROVE Spaced'
  BY <1>0, <1>3 DEF Spaced
<1>4. ASSUME NEW type \in Requests, NEW body \in Bodies, Request(type, body) PROVE Spaced'
  <2>1. /\ cpc = "ready" /\ sent < MaxSent /\ Len(outstanding) < Window
        /\ cpc' = "sending" /\ pending'.sid = nextId /\ nextId' = NextStream(nextId)
        /\ UNCHANGED outstanding
    BY <1>4, RequestIs DEF IInv
  <2>2. \A i \in 1 .. Len(outstanding) :
          Ahead(outstanding[i].sid, nextId, Len(outstanding) + 1 - i)
    BY <2>1 DEF Spaced
  <2>3. Ahead(nextId, nextId', 1)
    BY <1>0, <2>1, AheadOne
  <2>4. ASSUME NEW i \in 1 .. Len(outstanding)
        PROVE  Ahead(outstanding[i].sid, nextId', Len(outstanding) + 2 - i)
    <3> DEFINE k == Len(outstanding) + 1 - i
    <3>1. k \in Nat /\ 2 * (k + 1) <= Streams /\ k + 1 = Len(outstanding) + 2 - i
      BY <1>0, <2>1, <2>4
    <3>2. Ahead(outstanding[i].sid, nextId, k)
      BY <2>2, <2>4
    <3> HIDE DEF k
    <3>3. Ahead(outstanding[i].sid, NextStream(nextId), k + 1)
      BY <1>0, <1>i, <2>4, <3>1, <3>2, AheadStep
    <3>. QED
      BY <2>1, <3>1, <3>3
  <2>5. \A i, j \in 1 .. Len(outstanding) :
          i < j => Ahead(outstanding[i].sid, outstanding[j].sid, j - i)
    BY DEF Spaced
  <2>. QED
    BY <2>1, <2>2, <2>3, <2>4, <2>5 DEF Spaced
<1>5. CASE Write
  <2>1. /\ pending \in ReqSet /\ UNCHANGED <<nextId, sent>>
        /\ cpc = "opening" => cpc' = "awaiting" /\ outstanding = << >>
        /\ cpc # "opening" => cpc = "sending" /\ cpc' = "ready"
        /\ outstanding' = IF pending.type = "Goodbye" THEN outstanding
                          ELSE Append(outstanding, pending)
    BY <1>5 DEF Write, IInv, Shape, Phases
  <2>2. CASE pending.type = "Goodbye"
    <3>1. outstanding' = outstanding /\ (cpc' = "ready" => sent' = MaxSent)
      BY <2>1, <2>2 DEF IInv, Queues
    <3>. QED
      BY <1>0, <2>1, <3>1 DEF Spaced
  <2>3. CASE pending.type # "Goodbye"
    <3>1. /\ Len(outstanding') = Len(outstanding) + 1
          /\ \A i \in 1 .. Len(outstanding) : outstanding'[i] = outstanding[i]
          /\ outstanding'[Len(outstanding) + 1] = pending
      BY <1>0, <2>1, <2>3, AppendFacts
    <3>2. \A i \in 1 .. Len(outstanding) :
            Ahead(outstanding[i].sid, pending.sid, Len(outstanding) + 1 - i)
      <4>1. CASE cpc = "opening"
        BY <1>0, <2>1, <4>1
      <4>2. CASE cpc = "sending"
        BY <2>3, <4>2 DEF Spaced
      <4>. QED
        BY <2>1, <4>1, <4>2
    <3>3. ASSUME NEW i \in 1 .. Len(outstanding'), NEW j \in 1 .. Len(outstanding'), i < j
          PROVE  Ahead(outstanding'[i].sid, outstanding'[j].sid, j - i)
      <4>1. i \in 1 .. Len(outstanding)
        BY <1>0, <3>1, <3>3
      <4>2. CASE j = Len(outstanding) + 1
        BY <3>1, <3>2, <4>1, <4>2
      <4>3. CASE j \in 1 .. Len(outstanding)
        BY <3>1, <3>3, <4>1, <4>3 DEF Spaced
      <4>. QED
        BY <1>0, <3>1, <3>3, <4>2, <4>3
    <3>4. ASSUME cpc' = "ready", sent' < MaxSent, NEW i \in 1 .. Len(outstanding')
          PROVE  Ahead(outstanding'[i].sid, nextId', Len(outstanding') + 1 - i)
      <4>0. /\ Ahead(pending.sid, nextId, 1)
            /\ \A n \in 1 .. Len(outstanding) :
                 Ahead(outstanding[n].sid, nextId, Len(outstanding) + 2 - n)
        BY <2>1, <3>4 DEF Spaced
      <4>1. CASE i = Len(outstanding) + 1
        <5>1. Len(outstanding') + 1 - i = 1
          BY <1>0, <3>1, <4>1
        <5>. QED
          BY <2>1, <3>1, <4>0, <4>1, <5>1
      <4>2. CASE i \in 1 .. Len(outstanding)
        <5>1. Len(outstanding') + 1 - i = Len(outstanding) + 2 - i
          BY <1>0, <3>1, <4>2
        <5>. QED
          BY <2>1, <3>1, <4>0, <4>2, <5>1
      <4>. QED
        BY <1>0, <3>1, <3>4, <4>1, <4>2
    <3>5. cpc' # "sending"
      BY <2>1
    <3>. QED
      BY <3>3, <3>4, <3>5 DEF Spaced
  <2>. QED
    BY <2>2, <2>3
<1>6. CASE Receive
  <2>1. /\ outstanding # << >> /\ outstanding' = Tail(outstanding) /\ cpc' = "ready"
        /\ cpc = "ready" /\ UNCHANGED <<nextId, sent>>
    BY <1>6 DEF Receive
  <2>2. /\ Len(outstanding') = Len(outstanding) - 1
        /\ \A i \in 1 .. Len(outstanding) - 1 : outstanding'[i] = outstanding[i + 1]
    BY <1>0, <2>1, TailFacts
  <2>3. ASSUME NEW i \in 1 .. Len(outstanding'), NEW j \in 1 .. Len(outstanding'), i < j
        PROVE  Ahead(outstanding'[i].sid, outstanding'[j].sid, j - i)
    <3>1. /\ i + 1 \in 1 .. Len(outstanding) /\ i \in 1 .. Len(outstanding) - 1
          /\ j + 1 \in 1 .. Len(outstanding) /\ j \in 1 .. Len(outstanding) - 1
          /\ i + 1 < j + 1 /\ (j + 1) - (i + 1) = j - i
      BY <1>0, <2>2, <2>3
    <3>2. Ahead(outstanding[i + 1].sid, outstanding[j + 1].sid, (j + 1) - (i + 1))
      BY <3>1 DEF Spaced
    <3>. QED
      BY <2>2, <3>1, <3>2
  <2>4. ASSUME sent' < MaxSent, NEW i \in 1 .. Len(outstanding')
        PROVE  Ahead(outstanding'[i].sid, nextId', Len(outstanding') + 1 - i)
    <3>1. /\ i + 1 \in 1 .. Len(outstanding) /\ i \in 1 .. Len(outstanding) - 1
          /\ Len(outstanding) + 1 - (i + 1) = Len(outstanding') + 1 - i
      BY <1>0, <2>2, <2>4
    <3>2. Ahead(outstanding[i + 1].sid, nextId, Len(outstanding) + 1 - (i + 1))
      BY <2>1, <2>4, <3>1 DEF Spaced
    <3>. QED
      BY <2>1, <2>2, <3>1, <3>2
  <2>. QED
    BY <2>1, <2>3, <2>4 DEF Spaced
<1>7. CASE Open
  BY <1>1, <1>7, OpenIs DEF IInv
<1>8. CASE HandshakeReply \/ ClientEof \/ ClientDone \/ Cut
  BY <1>3, <1>8 DEF HandshakeReply, ClientEof, ClientDone, Cut, Hangup
<1>9. CASE ServerHandshake \/ Serve
  BY <1>2, <1>9, HandshakeIs, ServeIs DEF IInv
<1>10. CASE ServerRecvFails
  BY <1>2, <1>10 DEF ServerRecvFails, clientVars
<1>11. CASE UNCHANGED vars
  BY <1>2, <1>11 DEF vars, clientVars
<1>. QED
  BY <1>4, <1>5, <1>6, <1>7, <1>8, <1>9, <1>10, <1>11
     DEF Next, ClientStep, ServerStep, Over

\* The invariant holds initially and every step keeps it.
LEMMA InitInv == Init => IInv /\ Spaced
<1> SUFFICES ASSUME Init PROVE IInv /\ Spaced
  OBVIOUS
<1>0. Len(<< >>) = 0 /\ 1 % 2 = 1
  OBVIOUS
<1>1. /\ cpc = "connected" /\ cver = CMax /\ ccaps = {} /\ nextId = 1 /\ pending = NoFrame
      /\ outstanding = << >> /\ why = None /\ spc = "handshake" /\ sver = SMax /\ scaps = {}
      /\ authenticated = FALSE /\ toServer = << >> /\ toClient = << >> /\ sent = 0
  BY DEF Init
<1>2. Shape
  <2>1. cver \in CMin .. CMax /\ sver \in SMin .. SMax /\ sent \in 0 .. MaxSent
    BY <1>1, VersionAssumption, TrafficAssumption
  <2>2. nextId \in StreamIds
    BY <1>1, StreamsAssumption DEF StreamIds
  <2>3. /\ outstanding \in Seq(ReqSet) /\ toServer \in Seq(ReqSet) /\ toClient \in Seq(RepSet)
        /\ Len(outstanding) <= Window /\ Len(toServer) <= Buffered /\ Len(toClient) <= Buffered
    BY <1>0, <1>1, TrafficAssumption
  <2>. QED
    BY <1>1, <2>1, <2>2, <2>3 DEF Shape
<1>3. Phases /\ Queues
  BY <1>1 DEF Phases, Queues
<1>4. Odd /\ Spaced
  BY <1>0, <1>1 DEF Odd, Spaced
<1>. QED
  BY <1>2, <1>3, <1>4 DEF IInv

LEMMA InvStep ==
  ASSUME IInv, [Next]_vars
  PROVE  IInv'
BY ShapeStep, PhasesStep, QueuesStep, OddStep DEF IInv

LEMMA Inductive == Spec => []IInv
<1>1. Init => IInv
  BY InitInv
<1>2. IInv /\ [Next]_vars => IInv'
  BY InvStep
<1>. QED
  BY <1>1, <1>2, PTL DEF Spec

\* The ids of a sequence of frames.
LEMMA SidsAre ==
  ASSUME NEW S, NEW s \in Seq(S), \A f \in S : f.sid \in StreamIds
  PROVE  /\ Sids(s) \in Seq(StreamIds) /\ Len(Sids(s)) = Len(s) /\ DOMAIN Sids(s) = 1 .. Len(s)
         /\ \A i \in 1 .. Len(s) : Sids(s)[i] = s[i].sid
<1>1. Len(s) \in Nat /\ DOMAIN s = 1 .. Len(s) /\ \A i \in 1 .. Len(s) : s[i] \in S
  OBVIOUS
<1>2. Sids(s) = [i \in 1 .. Len(s) |-> s[i].sid]
  BY <1>1 DEF Sids
<1>3. \A i \in 1 .. Len(s) : s[i].sid \in StreamIds
  BY <1>1
<1>4. Sids(s) \in [1 .. Len(s) -> StreamIds]
  BY <1>2, <1>3
<1>. QED
  BY <1>1, <1>2, <1>4

LEMMA JoinIs ==
  ASSUME NEW S, NEW s \in Seq(S), NEW t \in Seq(S), NEW u \in Seq(S),
         Len(u) = Len(s) + Len(t), \A i \in 1 .. Len(s) : u[i] = s[i],
         \A i \in 1 .. Len(t) : u[Len(s) + i] = t[i]
  PROVE  u = s \o t
<1>1. /\ s \o t \in Seq(S) /\ Len(s \o t) = Len(s) + Len(t)
      /\ Len(s) \in Nat /\ Len(t) \in Nat
      /\ \A i \in 1 .. Len(s) : (s \o t)[i] = s[i]
      /\ \A i \in 1 .. Len(t) : (s \o t)[Len(s) + i] = t[i]
  OBVIOUS
<1>2. ASSUME NEW i \in 1 .. Len(u) PROVE u[i] = (s \o t)[i]
  <2>1. CASE i \in 1 .. Len(s)
    BY <1>1, <2>1
  <2>2. CASE i \notin 1 .. Len(s)
    <3>1. i - Len(s) \in 1 .. Len(t) /\ Len(s) + (i - Len(s)) = i
      BY <1>1, <1>2, <2>2
    <3>. QED
      BY <1>1, <3>1
  <2>. QED
    BY <2>1, <2>2
<1>. QED
  BY <1>1, <1>2

LEMMA FrontFacts ==
  ASSUME NEW S, NEW s \in Seq(S), NEW n \in Nat, n <= Len(s)
  PROVE  /\ SubSeq(s, 1, n) \in Seq(S) /\ Len(SubSeq(s, 1, n)) = n
         /\ \A i \in 1 .. n : SubSeq(s, 1, n)[i] = s[i]
OBVIOUS

\* What is to be answered is the part of toServer that Due counts.
LEMMA AwaitedIs ==
  ASSUME toServer \in Seq(ReqSet)
  PROVE  /\ Awaited(toServer) \in Seq(ReqSet) /\ Due \in Nat /\ Len(Awaited(toServer)) = Due
         /\ \A i \in 1 .. Due : Awaited(toServer)[i] = toServer[i]
<1>0. Len(toServer) \in Nat /\ (Len(toServer) = 0 <=> toServer = << >>)
  BY EmptyFacts
<1>1. CASE toServer # << >> /\ toServer[Len(toServer)].type = "Goodbye"
  <2>1. Due = Len(toServer) - 1 /\ Awaited(toServer) = SubSeq(toServer, 1, Len(toServer) - 1)
    BY <1>1 DEF Due, Awaited
  <2>2. Len(toServer) - 1 \in Nat
    BY <1>0, <1>1
  <2> DEFINE n == Len(toServer) - 1
  <2>3. /\ SubSeq(toServer, 1, n) \in Seq(ReqSet) /\ Len(SubSeq(toServer, 1, n)) = n
        /\ \A i \in 1 .. n : SubSeq(toServer, 1, n)[i] = toServer[i]
    <3>1. n \in Nat /\ n <= Len(toServer)
      BY <1>0, <2>2
    <3> HIDE DEF n
    <3>. QED
      BY <3>1, FrontFacts
  <2>. QED
    BY <2>1, <2>2, <2>3
<1>2. CASE ~(toServer # << >> /\ toServer[Len(toServer)].type = "Goodbye")
  BY <1>0, <1>2 DEF Due, Awaited
<1>. QED
  BY <1>1, <1>2

(***************************************************************************)
(* Theorems                                                                 *)
(***************************************************************************)

\* Every variable keeps its type, and the streams and the window their bounds.
THEOREM TypeCorrect == Spec => []TypeOK
<1>1. Shape => TypeOK
  <2> SUFFICES ASSUME Shape PROVE TypeOK
    OBVIOUS
  <2>1. (\A f \in ReqSet : IsRequest(f)) /\ (\A f \in RepSet : IsReply(f))
    BY DEF ReqSet, RepSet, IsRequest, IsReply
  <2>2. /\ \A i \in DOMAIN outstanding : outstanding[i] \in ReqSet
        /\ \A i \in DOMAIN toServer : toServer[i] \in ReqSet
        /\ \A i \in DOMAIN toClient : toClient[i] \in RepSet
    BY DEF Shape
  <2>. QED
    BY <2>1, <2>2 DEF Shape, TypeOK
<1>2. IInv => Shape
  BY DEF IInv
<1>. QED
  BY <1>1, <1>2, Inductive, PTL

\* No reply is lost, doubled or out of step with its request, so a client may
\* take each frame for the answer to its oldest request (conn.rs recv, ping).
THEOREM RepliesKeepStep == Spec => []RepliesInStep
<1>1. IInv => RepliesInStep
  <2> SUFFICES ASSUME IInv, cpc \in {"sending", "ready"}, spc = "session"
               PROVE  Sids(outstanding) = Sids(toClient) \o Sids(Awaited(toServer))
    BY DEF RepliesInStep
  <2> DEFINE w == Awaited(toServer)
             o == Sids(outstanding)
             c == Sids(toClient)
             a == Sids(w)
  <2>1. /\ outstanding \in Seq(ReqSet) /\ toServer \in Seq(ReqSet) /\ toClient \in Seq(RepSet)
        /\ Len(outstanding) \in Nat /\ Len(toClient) \in Nat
    BY DEF IInv, Shape
  <2>2. (\A f \in ReqSet : f.sid \in StreamIds) /\ (\A f \in RepSet : f.sid \in StreamIds)
    BY DEF ReqSet, RepSet
  <2>3. /\ w \in Seq(ReqSet) /\ Due \in Nat /\ Len(w) = Due
        /\ \A i \in 1 .. Due : w[i] = toServer[i]
    BY <2>1, AwaitedIs
  <2>4. /\ Len(outstanding) = Len(toClient) + Due
        /\ \A i \in 1 .. Len(toClient) : outstanding[i].sid = toClient[i].sid
        /\ \A i \in 1 .. Due : outstanding[Len(toClient) + i] = toServer[i]
    BY DEF IInv, Queues
  <2> HIDE DEF w
  <2>5. /\ o \in Seq(StreamIds) /\ Len(o) = Len(outstanding)
        /\ \A i \in 1 .. Len(outstanding) : o[i] = outstanding[i].sid
    BY <2>1, <2>2, SidsAre
  <2>6. /\ c \in Seq(StreamIds) /\ Len(c) = Len(toClient)
        /\ \A i \in 1 .. Len(toClient) : c[i] = toClient[i].sid
    BY <2>1, <2>2, SidsAre
  <2>7. /\ a \in Seq(StreamIds) /\ Len(a) = Due
        /\ \A i \in 1 .. Due : a[i] = w[i].sid
    BY <2>2, <2>3, SidsAre
  <2> HIDE DEF o, c, a
  <2>8. \A i \in 1 .. Len(c) : o[i] = c[i]
    <3>1. Len(c) <= Len(outstanding)
      BY <2>1, <2>3, <2>4, <2>6
    <3>. QED
      BY <2>1, <2>4, <2>5, <2>6, <3>1
  <2>9. ASSUME NEW i \in 1 .. Len(a) PROVE o[Len(c) + i] = a[i]
    <3>1. i \in 1 .. Due /\ Len(toClient) + i \in 1 .. Len(outstanding)
      BY <2>1, <2>3, <2>4, <2>7, <2>9
    <3>2. o[Len(toClient) + i] = outstanding[Len(toClient) + i].sid
      BY <2>5, <3>1
    <3>3. outstanding[Len(toClient) + i] = w[i]
      BY <2>3, <2>4, <3>1
    <3>. QED
      BY <2>6, <2>7, <3>1, <3>2, <3>3
  <2>10. o = c \o a
    <3>1. Len(o) = Len(c) + Len(a)
      BY <2>4, <2>5, <2>6, <2>7
    <3>2. o \in Seq(StreamIds) /\ c \in Seq(StreamIds) /\ a \in Seq(StreamIds)
      BY <2>5, <2>6, <2>7
    <3>. QED
      BY <2>8, <2>9, <3>1, <3>2, JoinIs
  <2>. QED
    BY <2>10 DEF o, c, a, w
<1>. QED
  BY <1>1, Inductive, PTL

\* A session that accepted no token has refused, with AUTH_REQUIRED, every
\* request that needs one (jrp.rs:97-109).
THEOREM NothingBeforeAuth == Spec => []GatedUntilAuthenticated
<1>1. IInv => GatedUntilAuthenticated
  <2> SUFFICES ASSUME IInv, spc = "session", ~authenticated, cpc \in {"sending", "ready"},
                      NEW i \in DOMAIN toClient,
                      outstanding[i].type \notin Session \cup {"Auth", "AuthOk"}
               PROVE  toClient[i].code = "AUTH_REQUIRED"
    BY DEF GatedUntilAuthenticated
  <2>1. i \in 1 .. Len(toClient)
    BY DEF IInv, Shape
  <2>2. outstanding[i].type \notin AllowedPreauth
    BY DEF AllowedPreauth
  <2>. QED
    BY <2>1, <2>2 DEF IInv, Queues
<1>. QED
  BY <1>1, Inductive, PTL

\* The ranges a client announces end at its own VERSION, or lie outside what it
\* reads (conn.rs client_handshake announces MIN_VERSION and VERSION).
OwnMax == \A r \in Hellos : r[2] \in CMin .. CMax => r[2] = CMax

\* Two sides past the handshake speak the highest version both have, and the
\* client counts on no capability the server lacks.
THEOREM SidesAgree == OwnMax => (Spec => []Agreement)
<1>1. OwnMax /\ IInv => Agreement
  <2> SUFFICES ASSUME OwnMax, IInv, cpc \in {"sending", "ready"}, spc = "session"
               PROVE  /\ cver = sver /\ sver = (IF CMax < SMax THEN CMax ELSE SMax)
                      /\ ccaps = scaps \cap SCaps
    BY DEF Agreement
  <2>1. cver = sver /\ ccaps = scaps \cap SCaps /\ \E r \in Hellos : sver = Negotiated(r)
    BY DEF IInv, Phases, Settled
  <2>2. PICK r \in Hellos : sver = Negotiated(r)
    BY <2>1
  <2>3. r[2] \in Nat /\ sver \in CMin .. CMax /\ sver \in SMin .. SMax
    BY <2>1, VersionAssumption DEF IInv, Shape
  <2>4. r[2] \in CMin .. CMax => r[2] = CMax
    BY DEF OwnMax
  <2>5. sver = (IF CMax < SMax THEN CMax ELSE SMax)
    BY <2>2, <2>3, <2>4, VersionAssumption DEF Negotiated
  <2>. QED
    BY <2>1, <2>5
<1>2. ASSUME OwnMax PROVE Spec => []Agreement
  <2>1. IInv => Agreement
    BY <1>1, <1>2
  <2>. QED
    BY <2>1, Inductive, PTL
<1>. QED
  BY <1>2

\* The ids of outstanding requests are odd and differ, although the counter
\* wraps, when there are twice as many ids as a window has requests
\* (conn.rs:114-123).
THEOREM StreamsNeverCollide == Roomy => (Spec => []StreamsDistinct)
<1>1. ASSUME Roomy, IInv, Spaced PROVE StreamsDistinct
  <2>0. /\ outstanding \in Seq(ReqSet) /\ Len(outstanding) \in Nat /\ Window \in Nat
        /\ Len(outstanding) <= Window /\ Streams \in Nat /\ 2 * Window <= Streams
    BY <1>1, TrafficAssumption, StreamsAssumption DEF IInv, Shape, Roomy
  <2>1. \A f \in ReqSet : f.sid \in StreamIds
    BY DEF ReqSet
  <2>2. /\ DOMAIN Sids(outstanding) = 1 .. Len(outstanding)
        /\ \A i \in 1 .. Len(outstanding) : Sids(outstanding)[i] = outstanding[i].sid
    BY <2>0, <2>1, SidsAre
  <2>3. ASSUME NEW i \in 1 .. Len(outstanding), NEW j \in 1 .. Len(outstanding), i < j
        PROVE  outstanding[i].sid # outstanding[j].sid
    <3> DEFINE a == outstanding[i].sid
               b == outstanding[j].sid
               M == Streams
               k == j - i
    <3>1. k \in Nat /\ k >= 1 /\ 2 * k < M /\ M \in Nat
      BY <2>0, <2>3
    <3>2. a \in Nat /\ b \in Nat
      <4>1. outstanding[i] \in ReqSet /\ outstanding[j] \in ReqSet
        BY <2>0, <2>3
      <4>. QED
        BY <2>1, <4>1 DEF StreamIds
    <3>3. b = a + 2 * k \/ b = a + 2 * k - M
      BY <1>1, <2>3 DEF Spaced, Ahead
    <3> HIDE DEF a, b, k, M
    <3>4. a # b
      BY <3>1, <3>2, <3>3
    <3>. QED
      BY <3>4 DEF a, b
  <2>4. \A i, j \in 1 .. Len(outstanding) : outstanding[i].sid = outstanding[j].sid => i = j
    <3> SUFFICES ASSUME NEW i \in 1 .. Len(outstanding), NEW j \in 1 .. Len(outstanding),
                        outstanding[i].sid = outstanding[j].sid
                 PROVE  i = j
      OBVIOUS
    <3>1. ~(i < j) /\ ~(j < i)
      BY <2>3
    <3>. QED
      BY <3>1, <2>0
  <2>5. IsInjective(Sids(outstanding))
    BY <2>2, <2>4 DEF IsInjective
  <2>6. \A i \in DOMAIN outstanding : outstanding[i].sid % 2 = 1
    BY <1>1, <2>0 DEF IInv, Odd
  <2>. QED
    BY <2>5, <2>6 DEF StreamsDistinct
<1>2. ASSUME Roomy PROVE Spec => []StreamsDistinct
  <2>1. Init => IInv /\ Spaced
    BY InitInv
  <2>2. IInv /\ Spaced /\ [Next]_vars => IInv' /\ Spaced'
    BY <1>2, InvStep, SpacedStep
  <2>3. IInv /\ Spaced => StreamsDistinct
    BY <1>1, <1>2
  <2>. QED
    BY <2>1, <2>2, <2>3, PTL DEF Spec
<1>. QED
  BY <1>2

\* A jammed connection has as many requests unanswered as its streams hold,
\* besides the one that is being written.
LEMMA JamIsOverrun == IInv /\ Jammed => Len(outstanding) = 2 * Buffered /\ Len(outstanding) < Window
<1> SUFFICES ASSUME IInv, Jammed PROVE Len(outstanding) = 2 * Buffered /\ Len(outstanding) < Window
  OBVIOUS
<1>1. Buffered \in Nat \ {0} /\ toServer \in Seq(ReqSet) /\ Len(toServer) = Buffered
  BY TrafficAssumption DEF IInv, Shape, Jammed
<1>2. Len(toServer) \in 1 .. Len(toServer) /\ toServer # << >>
  BY <1>1
<1>3. toServer[Len(toServer)].type # "Goodbye"
  BY <1>2 DEF IInv, Queues, Jammed
<1>4. Due = Buffered
  BY <1>1, <1>3 DEF Due
<1>. QED
  BY <1>1, <1>4 DEF IInv, Shape, Queues, Jammed

\* Of a client whose callers leave no more requests unanswered than the two
\* streams hold, the connection never comes to a state in which both sides wait
\* in write_all for each other (conn.rs:155); ping and submit leave one.
THEOREM NeverJammed == Window <= 2 * Buffered => (Spec => []~Jammed)
<1>1. ASSUME Window <= 2 * Buffered, IInv PROVE ~Jammed
  <2>1. Window \in Nat /\ Buffered \in Nat
    BY TrafficAssumption
  <2>. QED
    BY <1>1, <2>1, JamIsOverrun
<1>2. ASSUME Window <= 2 * Buffered PROVE Spec => []~Jammed
  <2>1. IInv => ~Jammed
    BY <1>1, <1>2
  <2>. QED
    BY <2>1, Inductive, PTL
<1>. QED
  BY <1>2

\* Wherever the two sides wait for each other, the client has let the streams
\* fill up with unanswered requests: the exception of CallsReturn is no wider.
THEOREM JamsAreOverruns == Spec => [](Jammed => Len(outstanding) = 2 * Buffered)
<1>1. IInv => (Jammed => Len(outstanding) = 2 * Buffered)
  BY JamIsOverrun
<1>. QED
  BY <1>1, Inductive, PTL
=============================================================================
