------------------------ MODULE WebsocketProxyProofs ------------------------
(***************************************************************************)
(* Proofs about module WebsocketProxy, for any number of messages of the   *)
(* client and of the backend.                                              *)
(***************************************************************************)
EXTENDS WebsocketProxy, TLAPS

(* What the client has sent and reader has not read: there is at most one  *)
(* pong among it, since the client answers a ping once.                    *)
HasPong == \E i \in 1..Len(wire) : wire[i] = "pong"
Messages == IF HasPong THEN Len(wire) - 1 ELSE Len(wire)
WireInv == \A i, j \in 1..Len(wire) : wire[i] = "pong" /\ wire[j] = "pong" => i = j

(* Messages in the proxy, that of the ended body included: not more than   *)
(* the client has sent.  So a quiet client never holds up the reader.      *)
Passing == IF reader = "pass" THEN 1 ELSE 0
Writing == IF forwarder \in {"write", "wrote"} THEN 1 ELSE 0
Ended == IF body = "ended" /\ ~done THEN 1 ELSE 0
Waiting == Len(payloads)
InProxy == Passing + Waiting + Writing + Ended
CountInv == Messages + InProxy <= sent

(* Nothing ends before the context is done, but the body.                  *)
EndsInv ==
  /\ \/ reader = "over" \/ forwarder = "over" \/ main = "over" \/ backend = "over"
     \/ closer # "wait"
     => done
  /\ pipe = "closed" <=> closer # "wait"
  /\ ~readsBody => backend # "body" /\ (body = "ended" \/ forwarder = "wrote" => done)

(* What is in the scanner, by the places of main and of the backend.       *)
LinesInv ==
  /\ early => backend = "over"
  /\ scanned = "part" => backend \in {"rest", "over"} /\ ~early
  /\ main = "write" => scanned = "whole" \/ (scanned = "part" /\ pipe = "closed")
  /\ main = "wrote" => scanned = "empty"

(* The client gets no more than the backend wrote; a part is the last.     *)
Held == IF scanned = "whole" THEN 1 ELSE 0

GotInv ==
  /\ \A i \in 1..Len(got) : got[i] = "part" =>
       i = Len(got) /\ pipe = "closed" /\ ~early /\ scanned = "empty"
  /\ (\A i \in 1..Len(got) : got[i] = "whole") => Len(got) + Held <= wrote

Base == TypeOK /\ WireInv /\ CountInv /\ EndsInv /\ LinesInv /\ GotInv

-----------------------------------------------------------------------------
Signals == {"message", "pong"}

LEMMA AppendFacts ==
  ASSUME NEW S, NEW s \in Seq(S), NEW x \in S
  PROVE  /\ Append(s, x) \in Seq(S) /\ Len(Append(s, x)) = Len(s) + 1
         /\ Append(s, x)[Len(s) + 1] = x
         /\ \A i \in 1..Len(s) : Append(s, x)[i] = s[i]
OBVIOUS

LEMMA TailFacts ==
  ASSUME NEW S, NEW s \in Seq(S), s # << >>
  PROVE  /\ Head(s) = s[1] /\ Len(s) >= 1
         /\ Tail(s) \in Seq(S) /\ Len(Tail(s)) = Len(s) - 1
         /\ \A i \in 1..Len(s) - 1 : Tail(s)[i] = s[i + 1]
OBVIOUS

(* The sequence of one payload is all that is ever in payloadChannel.      *)
LEMMA PayloadFacts ==
  /\ Len(<< >>) = 0 /\ Len(<<"message">>) = 1
  /\ Append(<< >>, "message") = <<"message">> /\ Tail(<<"message">>) = << >>
OBVIOUS

LEMMA MessagesFacts ==
  ASSUME TypeOK
  PROVE  Messages \in Nat /\ Len(wire) \in Nat /\ Messages <= Len(wire)
<1>1. wire \in Seq(Signals)
  BY DEF TypeOK, Signals
<1>2. Len(wire) \in Nat
  BY <1>1
<1>3. HasPong => Len(wire) >= 1
  BY <1>2 DEF HasPong
<1> QED BY <1>2, <1>3 DEF Messages

LEMMA ProxyFacts ==
  ASSUME TypeOK
  PROVE  /\ Passing \in 0..1 /\ Writing \in 0..1 /\ Ended \in 0..1
         /\ Waiting \in Nat /\ InProxy \in Nat
<1>1. Passing \in 0..1
  BY DEF Passing
<1>2. Writing \in 0..1
  BY DEF Writing
<1>3. Ended \in 0..1
  BY DEF Ended
<1>4. Waiting \in Nat
  BY PayloadFacts DEF Waiting, TypeOK
<1> QED BY <1>1, <1>2, <1>3, <1>4 DEF InProxy

(* A message more on the wire, and a pong.                                 *)
LEMMA SendWire ==
  ASSUME TypeOK, WireInv, wire' = Append(wire, "message")
  PROVE  WireInv' /\ Messages' = Messages + 1 /\ wire' \in Seq(Signals)
         /\ Len(wire') = Len(wire) + 1
<1>1. wire \in Seq(Signals) /\ "message" \in Signals /\ Len(wire) \in Nat
  BY MessagesFacts DEF TypeOK, Signals
<1>2. /\ wire' \in Seq(Signals) /\ Len(wire') = Len(wire) + 1
      /\ wire'[Len(wire) + 1] = "message"
      /\ \A i \in 1..Len(wire) : wire'[i] = wire[i]
  BY <1>1, AppendFacts
<1>3. \A i \in 1..Len(wire') : wire'[i] = "pong" => i \in 1..Len(wire) /\ wire[i] = "pong"
  BY <1>1, <1>2
<1>4. WireInv'
  BY <1>3 DEF WireInv
<1>5. HasPong' <=> HasPong
  BY <1>1, <1>2, <1>3 DEF HasPong
<1> QED BY <1>1, <1>2, <1>4, <1>5 DEF Messages

LEMMA AnswerWire ==
  ASSUME TypeOK, WireInv, wire' = Append(wire, "pong"), "pong" \notin ToSet(wire)
  PROVE  WireInv' /\ Messages' = Messages /\ wire' \in Seq(Signals)
         /\ Len(wire') = Len(wire) + 1 /\ Messages = Len(wire)
<1>1. wire \in Seq(Signals) /\ "pong" \in Signals /\ Len(wire) \in Nat
  BY MessagesFacts DEF TypeOK, Signals
<1>2. /\ wire' \in Seq(Signals) /\ Len(wire') = Len(wire) + 1
      /\ wire'[Len(wire) + 1] = "pong"
      /\ \A i \in 1..Len(wire) : wire'[i] = wire[i]
  BY <1>1, AppendFacts
<1>3. \A i \in 1..Len(wire) : wire[i] # "pong"
  BY <1>1 DEF ToSet
<1>4. \A i \in 1..Len(wire') : wire'[i] = "pong" => i = Len(wire) + 1
  BY <1>1, <1>2, <1>3
<1>5. WireInv'
  BY <1>4 DEF WireInv
<1>6. HasPong' /\ ~HasPong
  BY <1>1, <1>2, <1>3 DEF HasPong
<1> QED BY <1>1, <1>2, <1>5, <1>6 DEF Messages

LEMMA ReadWire ==
  ASSUME TypeOK, WireInv, wire # << >>, wire' = Tail(wire)
  PROVE  /\ WireInv' /\ wire' \in Seq(Signals) /\ Len(wire') = Len(wire) - 1
         /\ Head(wire) = "pong" => Messages' = Messages
         /\ Head(wire) = "message" => Messages' = Messages - 1
<1>1. wire \in Seq(Signals) /\ Len(wire) \in Nat
  BY MessagesFacts DEF TypeOK, Signals
<1>2. /\ wire' \in Seq(Signals) /\ Len(wire') = Len(wire) - 1 /\ Len(wire) >= 1
      /\ Head(wire) = wire[1]
      /\ \A i \in 1..Len(wire') : wire'[i] = wire[i + 1]
  BY <1>1, TailFacts
<1>3. WireInv'
  <2> SUFFICES ASSUME NEW i \in 1..Len(wire'), NEW j \in 1..Len(wire'),
                      wire'[i] = "pong", wire'[j] = "pong"
               PROVE  i = j
    BY DEF WireInv
  <2>1. i + 1 \in 1..Len(wire) /\ j + 1 \in 1..Len(wire)
    BY <1>1, <1>2
  <2>2. wire[i + 1] = "pong" /\ wire[j + 1] = "pong"
    BY <1>2
  <2>3. i + 1 = j + 1
    BY <2>1, <2>2 DEF WireInv
  <2> QED BY <2>3, <1>1, <1>2
<1>4. ASSUME Head(wire) = "pong"
      PROVE  HasPong /\ ~HasPong'
  <2>1. 1 \in 1..Len(wire) /\ wire[1] = "pong"
    BY <1>1, <1>2, <1>4
  <2>2. HasPong
    BY <2>1 DEF HasPong
  <2>3. ASSUME NEW i \in 1..Len(wire'), wire'[i] = "pong"
        PROVE  FALSE
    <3>1. i + 1 \in 1..Len(wire) /\ wire[i + 1] = "pong"
      BY <1>1, <1>2, <2>3
    <3>2. i + 1 = 1
      BY <2>1, <3>1 DEF WireInv
    <3> QED BY <3>2, <1>1, <1>2
  <2> QED BY <2>2, <2>3 DEF HasPong
<1>5. ASSUME Head(wire) = "message"
      PROVE  HasPong' <=> HasPong
  <2>1. ASSUME HasPong' PROVE HasPong
    <3>1. PICK i \in 1..Len(wire') : wire'[i] = "pong"
      BY <2>1 DEF HasPong
    <3>2. i + 1 \in 1..Len(wire) /\ wire[i + 1] = "pong"
      BY <1>1, <1>2, <3>1
    <3> QED BY <3>2 DEF HasPong
  <2>2. ASSUME HasPong PROVE HasPong'
    <3>1. PICK i \in 1..Len(wire) : wire[i] = "pong"
      BY <2>2 DEF HasPong
    <3>2. i # 1
      BY <1>2, <1>5, <3>1
    <3>3. i - 1 \in 1..Len(wire')
      BY <1>1, <1>2, <3>1, <3>2
    <3>4. wire'[i - 1] = wire[(i - 1) + 1] /\ (i - 1) + 1 = i
      BY <1>1, <1>2, <3>1, <3>3
    <3> QED BY <3>1, <3>3, <3>4 DEF HasPong
  <2> QED BY <2>1, <2>2
<1> QED BY <1>1, <1>2, <1>3, <1>4, <1>5 DEF Messages

(* When reader ends, what is on the wire is forgotten.                     *)
LEMMA ForgetWire ==
  ASSUME TypeOK, wire' = << >>
  PROVE  WireInv' /\ Messages' = 0 /\ wire' \in Seq(Signals) /\ Len(wire') = 0
<1>1. Len(wire') = 0 /\ wire' \in Seq(Signals)
  OBVIOUS
<1>2. ~HasPong'
  BY <1>1 DEF HasPong
<1> QED BY <1>1, <1>2 DEF WireInv, Messages

(* A line more for the client, as main writes it.                          *)
LEMMA WrittenGot ==
  ASSUME Base, main = "write", got' = Append(got, scanned)
  PROVE  /\ got' \in Seq({"part", "whole"}) /\ Len(got') = Len(got) + 1
         /\ Len(got) <= wrote /\ scanned \in {"part", "whole"}
         /\ got'[Len(got) + 1] = scanned
         /\ \A i \in 1..Len(got) : got[i] = "whole" /\ got'[i] = "whole"
         /\ scanned = "whole" => Len(got) + 1 <= wrote
<1> USE DEF Base
<1>1. got \in Seq({"part", "whole"}) /\ Len(got) \in Nat
  BY DEF TypeOK
<1>2. scanned \in {"part", "whole"}
  BY DEF LinesInv
<1>3. /\ got' \in Seq({"part", "whole"}) /\ Len(got') = Len(got) + 1
      /\ got'[Len(got) + 1] = scanned
      /\ \A i \in 1..Len(got) : got'[i] = got[i]
  BY <1>1, <1>2, AppendFacts
<1>4. \A i \in 1..Len(got) : got[i] = "whole"
  BY <1>1, <1>2 DEF GotInv
<1>5. Len(got) + Held <= wrote
  BY <1>4 DEF GotInv
<1>6. scanned = "whole" => Held = 1
  BY DEF Held
<1>7. wrote \in Nat /\ Held \in Nat
  BY DEF TypeOK, Held
<1> QED BY <1>1, <1>2, <1>3, <1>4, <1>5, <1>6, <1>7

-----------------------------------------------------------------------------
(* TypeOK in parts: the three sequences, and the rest.                     *)
WireType == wire \in Seq(Signals) /\ Len(wire) <= MaxSent + 1
PayloadType == payloads \in {<< >>, <<"message">>}
GotType == got \in Seq({"part", "whole"}) /\ Len(got) <= wrote + 1

Plain ==
  /\ client \in {"here", "silent", "gone"} /\ sent \in 0..MaxSent
  /\ done \in BOOLEAN /\ err \in BOOLEAN /\ awaited \in BOOLEAN
  /\ early \in BOOLEAN /\ readsBody \in BOOLEAN
  /\ main \in {"scan", "write", "stalled", "stuck", "wrote", "close", "over"}
  /\ closer \in {"wait", "requests", "over"} /\ pinger \in {"wait", "over"}
  /\ reader \in {"read", "pass", "over"}
  /\ forwarder \in {"take", "write", "wrote", "over"}
  /\ body \in {"open", "ended"} /\ pipe \in {"open", "closed"}
  /\ backend \in {"body", "stream", "rest", "over"}
  /\ wrote \in 0..MaxLines /\ scanned \in {"empty", "part", "whole"}
  /\ conn \in {"open", "broken", "closed"}
  /\ readBy \in {"ahead", "past"} /\ writeBy \in {"none", "ahead", "past"}

LEMMA TypeParts == TypeOK <=> WireType /\ PayloadType /\ GotType /\ Plain
BY DEF TypeOK, WireType, PayloadType, GotType, Plain, Signals

LEMMA TypePartsNext == TypeOK' <=> WireType' /\ PayloadType' /\ GotType' /\ Plain'
BY DEF TypeOK, WireType, PayloadType, GotType, Plain, Signals

LEMMA InitBase == Init => Base
<1> SUFFICES ASSUME Init PROVE Base
  OBVIOUS
<1> USE BoundsAssumption DEF Init
<1>1. Len(wire) = 0 /\ Len(got) = 0 /\ Len(payloads) = 0
  OBVIOUS
<1>2. TypeOK
  <2>1. Plain
    <3>1. backend \in {"body", "stream"} /\ readsBody \in BOOLEAN
      OBVIOUS
    <3>2. sent \in 0..MaxSent /\ wrote \in 0..MaxLines
      OBVIOUS
    <3>3. done \in BOOLEAN /\ err \in BOOLEAN /\ awaited \in BOOLEAN /\ early \in BOOLEAN
      OBVIOUS
    <3> QED BY <3>1, <3>2, <3>3 DEF Plain
  <2>2. WireType /\ GotType
    BY <1>1 DEF WireType, GotType, Signals
  <2>3. PayloadType
    BY DEF PayloadType
  <2> QED BY <2>1, <2>2, <2>3, TypeParts
<1>3. WireInv
  BY <1>1 DEF WireInv
<1>4. ~HasPong
  BY <1>1 DEF HasPong
<1>5. CountInv
  BY <1>1, <1>4 DEF CountInv, Messages, InProxy, Passing, Waiting, Writing, Ended
<1>6. EndsInv /\ LinesInv
  BY DEF EndsInv, LinesInv
<1>7. GotInv
  BY <1>1 DEF GotInv, Held
<1> QED BY <1>2, <1>3, <1>5, <1>6, <1>7 DEF Base

LEMMA PlainStep ==
  ASSUME Plain, Next
  PROVE  Plain'
<1> USE BoundsAssumption DEF Plain, flows, answers, clocks
<1>1. CASE ClientStep
  BY <1>1 DEF ClientStep, Send, Answer, Leave
<1>2. CASE ReadPong \/ ReadMessage
  BY <1>2 DEF ReadPong, ReadMessage
<1>3. CASE ReadFails \/ ReaderPass
  BY <1>3 DEF ReadFails, ReaderPass, ReaderEnds, unread
<1>4. CASE ForwarderTake
  <2>1. forwarder' \in {"write", "over"} /\ (UNCHANGED done \/ done' = TRUE)
    BY <1>4 DEF ForwarderTake, ForwarderEnds
  <2>2. done' \in BOOLEAN
    BY <2>1
  <2>3. UNCHANGED <<client, sent, wire, body, readsBody, answers, clocks, main, closer,
                    reader, conn, err>>
    BY <1>4 DEF ForwarderTake
  <2> QED BY <2>1, <2>2, <2>3
<1>5. CASE ForwarderWrite
  <2>1. err' \in BOOLEAN /\ forwarder' = "wrote"
    BY <1>5 DEF ForwarderWrite
  <2>2. UNCHANGED <<flows, answers, clocks, done, main, closer, reader, conn>>
    BY <1>5 DEF ForwarderWrite
  <2> QED BY <2>1, <2>2
<1>6. CASE ForwarderWrote
  <2>1. /\ forwarder' \in {"take", "over"} /\ (UNCHANGED done \/ done' = TRUE)
        /\ UNCHANGED body \/ body' = "ended"
    BY <1>6 DEF ForwarderWrote, ForwarderEnds
  <2>2. done' \in BOOLEAN /\ body' \in {"open", "ended"}
    BY <2>1
  <2>3. UNCHANGED <<client, sent, wire, readsBody, answers, clocks, main, closer, reader,
                    conn, err>>
    BY <1>6 DEF ForwarderWrote
  <2> QED BY <2>1, <2>2, <2>3
<1>7. CASE BackendReads \/ BackendWrites
  BY <1>7 DEF BackendReads, BackendWrites
<1>8. CASE BackendEnds
  BY <1>8 DEF BackendEnds
<1>9. CASE CloserStep
  BY <1>9 DEF CloserStep, CloseResponses, CloseRequests
<1>10. CASE Scan \/ Wrote \/ Close
  BY <1>10 DEF Scan, Wrote, Close
<1>11. CASE Write \/ StallEnds
  BY <1>11 DEF Write, StallEnds, Written, WriteFailed
<1>12. CASE ClockStep \/ ReadDeadline \/ WriteDeadline
  BY <1>12 DEF ClockStep, Ping, PingerEnds, ReadDeadline, WriteDeadline
<1> QED
  BY <1>1, <1>2, <1>3, <1>4, <1>5, <1>6, <1>7, <1>8, <1>9, <1>10, <1>11, <1>12
  DEF Next, ReaderStep, ForwarderStep, BackendStep, MainStep

(* What becomes of the wire: one action for each of the four ways.         *)
LEMMA WireStep ==
  ASSUME Base, Next
  PROVE  \/ Send \/ Answer \/ ReadPong \/ ReadMessage
         \/ UNCHANGED wire \/ wire' = << >>
BY DEF Next, ClientStep, Leave, ReaderStep, ReadFails, ReaderPass, ReaderEnds, unread,
       ForwarderStep, ForwarderTake, ForwarderWrite, ForwarderWrote,
       BackendStep, BackendReads, BackendWrites, BackendEnds,
       CloserStep, CloseResponses, CloseRequests, MainStep, Scan, Write, StallEnds, Wrote, Close,
       ClockStep, Ping, PingerEnds, ReadDeadline, WriteDeadline, flows, clocks

LEMMA TypeWire ==
  ASSUME Base, Next
  PROVE  WireType' /\ WireInv'
<1> USE DEF Base
<1>1. sent \in Nat /\ MaxSent \in Nat /\ sent <= MaxSent /\ Messages <= sent
  <2>2. InProxy \in Nat
    BY ProxyFacts
  <2>3. sent \in Nat /\ MaxSent \in Nat /\ sent <= MaxSent
    BY BoundsAssumption DEF TypeOK
  <2>4. Messages \in Nat
    BY MessagesFacts
  <2> QED BY <2>2, <2>3, <2>4 DEF CountInv
<1>2. WireType
  BY TypeParts
<1>3. CASE Send
  <2>1. WireInv' /\ wire' \in Seq(Signals) /\ Len(wire') = Len(wire) + 1
    BY <1>3, SendWire DEF Send
  <2>2. Len(wire) <= Messages + 1
    BY MessagesFacts DEF Messages
  <2> QED BY <1>1, <1>3, <2>1, <2>2, MessagesFacts DEF Send, WireType
<1>4. CASE Answer
  <2>1. WireInv' /\ wire' \in Seq(Signals) /\ Len(wire') = Len(wire) + 1 /\ Messages = Len(wire)
    BY <1>4, AnswerWire DEF Answer
  <2> QED BY <1>1, <2>1 DEF WireType
<1>5. CASE ReadPong \/ ReadMessage
  <2>1. WireInv' /\ wire' \in Seq(Signals) /\ Len(wire') = Len(wire) - 1
    BY <1>5, ReadWire DEF ReadPong, ReadMessage
  <2> QED BY <1>1, <1>2, <2>1, MessagesFacts DEF WireType
<1>6. CASE UNCHANGED wire
  BY <1>2, <1>6 DEF WireType, WireInv
<1>7. CASE wire' = << >>
  BY <1>1, <1>7, ForgetWire DEF WireType
<1> QED BY <1>3, <1>4, <1>5, <1>6, <1>7, WireStep

LEMMA TypePayloads ==
  ASSUME Base, Next
  PROVE  PayloadType'
<1>1. payloads = << >> \/ payloads = <<"message">>
  BY DEF Base, TypeOK
<1>2. CASE ReaderPass
  <2>1. payloads' = payloads \/ (Len(payloads) < 1 /\ payloads' = Append(payloads, "message"))
    BY <1>2 DEF ReaderPass, Room
  <2>2. CASE payloads = << >>
    BY <2>1, <2>2, PayloadFacts DEF PayloadType
  <2>3. CASE payloads = <<"message">>
    BY <2>1, <2>3, PayloadFacts DEF PayloadType
  <2> QED BY <1>1, <2>2, <2>3
<1>3. CASE ForwarderTake
  <2>1. payloads' = << >> \/ (payloads # << >> /\ payloads' = Tail(payloads))
    BY <1>3 DEF ForwarderTake, ForwarderEnds
  <2> QED BY <1>1, <2>1, PayloadFacts DEF PayloadType
<1>4. CASE UNCHANGED payloads \/ payloads' = << >>
  BY <1>1, <1>4 DEF PayloadType
<1>5. ~ReaderPass /\ ~ForwarderTake => UNCHANGED payloads \/ payloads' = << >>
  BY DEF Next, ClientStep, Send, Answer, Leave, ReaderStep, ReadPong, ReadMessage, ReadFails,
         ForwarderStep, ForwarderWrite, ForwarderWrote, ForwarderEnds,
         BackendStep, BackendReads, BackendWrites, BackendEnds,
         CloserStep, CloseResponses, CloseRequests, MainStep, Scan, Write, StallEnds, Wrote, Close,
         ClockStep, Ping, PingerEnds, ReadDeadline, WriteDeadline, flows
<1> QED BY <1>2, <1>3, <1>4, <1>5

(* What becomes of the lines: got changes when main has written.           *)
LEMMA GotStep ==
  ASSUME Base, Next
  PROVE  \/ Write /\ Written(scanned)
         \/ UNCHANGED got /\ wrote <= wrote'
<1>1. wrote \in Nat
  BY DEF Base, TypeOK
<1> QED
  BY <1>1
  DEF Next, ClientStep, Send, Answer, Leave,
      ReaderStep, ReadPong, ReadMessage, ReadFails, ReaderPass,
      ForwarderStep, ForwarderTake, ForwarderWrite, ForwarderWrote,
      BackendStep, BackendReads, BackendWrites, BackendEnds,
      CloserStep, CloseResponses, CloseRequests,
      MainStep, Scan, Write, WriteFailed, StallEnds, Wrote, Close,
      ClockStep, Ping, PingerEnds, ReadDeadline, WriteDeadline, answers

LEMMA TypeGot ==
  ASSUME Base, Next
  PROVE  GotType'
<1>1. GotType /\ Plain
  BY TypeParts DEF Base
<1>2. CASE Write /\ Written(scanned)
  <2>1. main = "write" /\ got' = Append(got, scanned) /\ wrote' = wrote
    BY <1>2 DEF Write, Written
  <2>2. got' \in Seq({"part", "whole"}) /\ Len(got') = Len(got) + 1 /\ Len(got) <= wrote
    BY <2>1, WrittenGot
  <2> QED BY <1>1, <2>1, <2>2 DEF GotType, Plain
<1>3. CASE UNCHANGED got /\ wrote <= wrote'
  <2>1. wrote \in Nat /\ wrote' \in Nat /\ Len(got) \in Nat
    BY <1>1, PlainStep DEF Plain, GotType
  <2> QED BY <1>1, <1>3, <2>1 DEF GotType
<1> QED BY <1>2, <1>3, GotStep

LEMMA TypeStep ==
  ASSUME Base, Next
  PROVE  TypeOK'
<1>1. Plain'
  BY PlainStep, TypeParts DEF Base
<1> QED BY <1>1, TypeWire, TypePayloads, TypeGot, TypePartsNext

-----------------------------------------------------------------------------
LEMMA SameWire ==
  ASSUME UNCHANGED wire
  PROVE  Messages' = Messages
BY DEF Messages, HasPong

(* Ended only becomes 1 when forwarder has written.                        *)
LEMMA EndedStep ==
  ASSUME Base, Next, ~ForwarderWrote
  PROVE  Ended' = Ended \/ Ended' = 0
<1>1. CASE done
  <2>1. done'
    BY <1>1 DEF Next, ClientStep, Send, Answer, Leave,
       ReaderStep, ReadPong, ReadMessage, ReadFails, ReaderPass, ReaderEnds, unread,
       ForwarderStep, ForwarderTake, ForwarderEnds, ForwarderWrite,
       BackendStep, BackendReads, BackendWrites, BackendEnds,
       CloserStep, CloseResponses, CloseRequests,
       MainStep, Scan, Write, StallEnds, Wrote, Close,
       ClockStep, Ping, PingerEnds, ReadDeadline, WriteDeadline
  <2> QED BY <1>1, <2>1 DEF Ended
<1>2. CASE ~done
  <2>1. UNCHANGED body
    BY <1>2 DEF Base, EndsInv, Next, ClientStep, Send, Answer, Leave,
       ReaderStep, ReadPong, ReadMessage, ReadFails, ReaderPass,
       ForwarderStep, ForwarderTake, ForwarderWrite,
       BackendStep, BackendReads, BackendWrites, BackendEnds,
       CloserStep, CloseResponses, CloseRequests,
       MainStep, Scan, Write, StallEnds, Wrote, Close,
       ClockStep, Ping, PingerEnds, ReadDeadline, WriteDeadline, flows
  <2> QED BY <1>2, <2>1 DEF Ended
<1> QED BY <1>1, <1>2

(* One message goes from place to place, or is forgotten.                  *)
LEMMA CountStep ==
  ASSUME Base, Next
  PROVE  CountInv'
<1> USE DEF Base
<1>1. /\ Passing \in 0..1 /\ Writing \in 0..1 /\ Ended \in 0..1 /\ Waiting \in Nat
      /\ Messages \in Nat /\ sent \in Nat
  BY ProxyFacts, MessagesFacts DEF TypeOK
<1>2. CASE Send
  <2>1. Messages' = Messages + 1 /\ sent' = sent + 1
    BY <1>2, SendWire DEF Send
  <2>2. InProxy' = InProxy
    BY <1>2 DEF Send, InProxy, Passing, Waiting, Writing, Ended
  <2> QED BY <1>1, <2>1, <2>2, ProxyFacts DEF CountInv
<1>3. CASE Answer
  <2>1. Messages' = Messages /\ InProxy' = InProxy /\ sent' = sent
    BY <1>3, AnswerWire DEF Answer, InProxy, Passing, Waiting, Writing, Ended
  <2> QED BY <2>1 DEF CountInv
<1>4. CASE ReadPong
  <2>1. Messages' = Messages /\ InProxy' = InProxy /\ sent' = sent
    BY <1>4, ReadWire DEF ReadPong, InProxy, Passing, Waiting, Writing, Ended
  <2> QED BY <2>1 DEF CountInv
<1>5. CASE ReadMessage
  <2>1. Messages' = Messages - 1 /\ sent' = sent /\ Waiting' = Waiting
    BY <1>5, ReadWire DEF ReadMessage, Waiting
  <2>2. Passing = 0 /\ Passing' = 1
    BY <1>5 DEF ReadMessage, Passing
  <2>3. Writing' = Writing /\ Ended' = Ended
    BY <1>5 DEF ReadMessage, Writing, Ended
  <2> QED BY <1>1, <2>1, <2>2, <2>3 DEF CountInv, InProxy
<1>6. CASE ReadFails
  <2>1. Messages' = 0 /\ sent' = sent /\ Waiting' = Waiting
    BY <1>6, ForgetWire DEF ReadFails, ReaderEnds, Waiting
  <2>2. Passing' = 0 /\ Writing' = Writing
    BY <1>6 DEF ReadFails, ReaderEnds, Passing, Writing
  <2>3. Ended' = 0
    BY <1>6 DEF ReadFails, ReaderEnds, Ended
  <2> QED BY <1>1, <2>1, <2>2, <2>3 DEF CountInv, InProxy
<1>7. CASE ReaderPass
  <2>1. sent' = sent /\ forwarder' = forwarder /\ reader = "pass"
    BY <1>7 DEF ReaderPass
  <2>2. reader' # "pass"
    BY <1>7 DEF ReaderPass, ReaderEnds
  <2>3. Writing' = Writing /\ Passing = 1 /\ Passing' = 0
    BY <2>1, <2>2 DEF Writing, Passing
  <2>4. Waiting' = Waiting \/ Waiting' = Waiting + 1
    <3>1. CASE payloads' = payloads
      BY <3>1 DEF Waiting
    <3>2. CASE payloads' = Append(payloads, "message") /\ Len(payloads) < 1
      <4>1. payloads = << >>
        BY <3>2, PayloadFacts DEF TypeOK
      <4>2. payloads' = <<"message">>
        BY <3>2, <4>1, PayloadFacts
      <4> QED BY <4>1, <4>2, PayloadFacts DEF Waiting
    <3> QED BY <1>7, <3>1, <3>2 DEF ReaderPass, Room
  <2>5. Messages' = Messages \/ Messages' = 0
    <3>1. UNCHANGED wire \/ wire' = << >>
      BY <1>7 DEF ReaderPass, ReaderEnds, unread
    <3> QED BY <3>1, SameWire, ForgetWire
  <2>6. Ended' = Ended \/ Ended' = 0
    <3>1. body' = body /\ (done' = done \/ done' = TRUE)
      BY <1>7 DEF ReaderPass, ReaderEnds, unread
    <3> QED BY <3>1 DEF Ended
  <2>7. ASSUME NEW m \in {Messages, 0}, NEW q \in {Waiting, Waiting + 1}, NEW e \in {Ended, 0}
        PROVE  m + (0 + q + Writing + e) <= sent
    BY <1>1, <2>3 DEF CountInv, InProxy
  <2> QED BY <2>1, <2>3, <2>4, <2>5, <2>6, <2>7, Zenon DEF CountInv, InProxy
<1>8. CASE ForwarderTake
  <2>1. UNCHANGED <<sent, wire, reader>> /\ forwarder = "take"
    BY <1>8 DEF ForwarderTake
  <2>2. Messages' = Messages /\ Passing' = Passing /\ Writing = 0 /\ sent' = sent
    BY <2>1, SameWire DEF Passing, Writing
  <2>3. CASE payloads # << >> /\ payloads' = Tail(payloads) /\ forwarder' = "write" /\ UNCHANGED done
    <3>1. payloads = <<"message">>
      BY <2>3 DEF TypeOK
    <3>2. Waiting = 1 /\ Waiting' = 0
      BY <2>3, <3>1, PayloadFacts DEF Waiting
    <3>3. Writing' = 1 /\ Ended' = Ended
      BY <1>8, <2>3 DEF ForwarderTake, Writing, Ended
    <3> QED BY <1>1, <2>2, <3>2, <3>3 DEF CountInv, InProxy
  <2>4. CASE ForwarderEnds
    <3>1. Waiting' = 0 /\ Writing' = 0
      BY <2>4, PayloadFacts DEF ForwarderEnds, Waiting, Writing
    <3>2. Ended' = 0
      BY <2>4 DEF ForwarderEnds, Ended
    <3> QED BY <1>1, <2>2, <3>1, <3>2 DEF CountInv, InProxy
  <2> QED BY <1>8, <2>3, <2>4 DEF ForwarderTake
<1>9. CASE ForwarderWrote
  <2>1. UNCHANGED <<sent, wire, reader>> /\ forwarder = "wrote"
    BY <1>9 DEF ForwarderWrote
  <2>2. Messages' = Messages /\ Passing' = Passing /\ Writing = 1 /\ sent' = sent
    BY <2>1, SameWire DEF Passing, Writing
  <2>3. CASE forwarder' = "take" /\ body' = "ended" /\ UNCHANGED <<done, payloads>>
    <3>1. Writing' = 0 /\ Waiting' = Waiting
      BY <2>3 DEF Writing, Waiting
    <3>2. CASE done
      <4>1. Ended' = 0
        BY <2>3, <3>2 DEF Ended
      <4> QED BY <1>1, <2>2, <3>1, <4>1 DEF CountInv, InProxy
    <3>3. CASE ~done
      <4>1. Ended' = 1
        BY <2>3, <3>3 DEF Ended
      <4> QED BY <1>1, <2>2, <3>1, <4>1 DEF CountInv, InProxy
    <3> QED BY <3>2, <3>3
  <2>4. CASE ForwarderEnds
    <3>1. Waiting' = 0 /\ Writing' = 0
      BY <2>4, PayloadFacts DEF ForwarderEnds, Waiting, Writing
    <3>2. Ended' = 0
      BY <2>4 DEF ForwarderEnds, Ended
    <3> QED BY <1>1, <2>2, <3>1, <3>2 DEF CountInv, InProxy
  <2> QED BY <1>9, <2>3, <2>4 DEF ForwarderWrote
<1>10. CASE ForwarderWrite \/ CloserStep \/ Leave("silent") \/ Leave("gone") \/ BackendStep
            \/ MainStep \/ ClockStep \/ ReadDeadline \/ WriteDeadline
  <2>1. UNCHANGED <<wire, sent, reader, payloads>>
    BY <1>10 DEF ForwarderWrite, CloserStep, CloseResponses, CloseRequests, Leave,
                 BackendStep, BackendReads, BackendWrites, BackendEnds,
                 MainStep, Scan, Write, StallEnds, Wrote, Close, ClockStep, Ping, PingerEnds,
                 ReadDeadline, WriteDeadline, flows
  <2>2. UNCHANGED forwarder \/ (forwarder = "write" /\ forwarder' = "wrote")
    BY <1>10 DEF ForwarderWrite, CloserStep, CloseResponses, CloseRequests, Leave,
                 BackendStep, BackendReads, BackendWrites, BackendEnds,
                 MainStep, Scan, Write, StallEnds, Wrote, Close, ClockStep, Ping, PingerEnds,
                 ReadDeadline, WriteDeadline
  <2>3. /\ Messages' = Messages /\ Passing' = Passing /\ Waiting' = Waiting
        /\ Writing' = Writing /\ sent' = sent
    BY <2>1, <2>2, SameWire DEF Passing, Waiting, Writing
  <2>4. CASE ForwarderWrote
    BY <1>9, <2>4
  <2>5. CASE ~ForwarderWrote /\ Ended' = Ended
    BY <1>1, <2>3, <2>5 DEF CountInv, InProxy
  <2>6. CASE ~ForwarderWrote /\ Ended' = 0
    BY <1>1, <2>3, <2>6 DEF CountInv, InProxy
  <2> QED BY <2>4, <2>5, <2>6, EndedStep
<1> QED
  BY <1>2, <1>3, <1>4, <1>5, <1>6, <1>7, <1>8, <1>9, <1>10
  DEF Next, ClientStep, ReaderStep, ForwarderStep

-----------------------------------------------------------------------------
LEMMA EndsStep ==
  ASSUME Base, Next
  PROVE  EndsInv'
<1> USE DEF Base, EndsInv
<1>1. CASE ClientStep
  BY <1>1 DEF ClientStep, Send, Answer, Leave, answers
<1>2. CASE ReaderStep
  BY <1>2 DEF ReaderStep, ReadPong, ReadMessage, ReadFails, ReaderPass, ReaderEnds, unread,
              answers
<1>3. CASE ForwarderTake
  BY <1>3 DEF ForwarderTake, ForwarderEnds, answers
<1>4. CASE ForwarderWrite
  BY <1>4 DEF ForwarderWrite, answers, flows
<1>5. CASE ForwarderWrote
  BY <1>5 DEF ForwarderWrote, ForwarderEnds, answers
<1>6. CASE BackendStep
  BY <1>6 DEF BackendStep, BackendReads, BackendWrites, BackendEnds, flows
<1>7. CASE CloserStep
  BY <1>7 DEF CloserStep, CloseResponses, CloseRequests, TypeOK, flows, answers
<1>8. CASE MainStep
  BY <1>8 DEF MainStep, Scan, Write, Written, WriteFailed, StallEnds, Wrote, Close, flows, answers
<1>9. CASE ClockStep \/ ReadDeadline \/ WriteDeadline
  BY <1>9 DEF ClockStep, Ping, PingerEnds, ReadDeadline, WriteDeadline, flows, answers
<1> QED BY <1>1, <1>2, <1>3, <1>4, <1>5, <1>6, <1>7, <1>8, <1>9 DEF Next, ForwarderStep

LEMMA LinesStep ==
  ASSUME Base, Next
  PROVE  LinesInv'
<1> USE DEF Base, LinesInv
<1>1. CASE ClientStep
  BY <1>1 DEF ClientStep, Send, Answer, Leave, answers
<1>2. CASE ReaderStep
  BY <1>2 DEF ReaderStep, ReadPong, ReadMessage, ReadFails, ReaderPass, answers
<1>3. CASE ForwarderStep
  BY <1>3 DEF ForwarderStep, ForwarderTake, ForwarderWrite, ForwarderWrote, answers
<1>4. CASE BackendReads
  BY <1>4 DEF BackendReads
<1>5. CASE BackendWrites
  BY <1>5 DEF BackendWrites
<1>6. CASE BackendEnds
  <2>1. early' => backend = "stream"
    BY <1>6 DEF BackendEnds
  <2>2. backend = "stream" => scanned # "part"
    OBVIOUS
  <2> QED BY <1>6, <2>1, <2>2 DEF BackendEnds
<1>7. CASE CloserStep
  BY <1>7 DEF CloserStep, CloseResponses, CloseRequests, answers
<1>8. CASE Scan
  BY <1>8 DEF Scan, answers, TypeOK
<1>9. CASE Write
  BY <1>9 DEF Write, Written, WriteFailed
<1>10. CASE StallEnds \/ Wrote \/ Close
  BY <1>10 DEF StallEnds, WriteFailed, Wrote, Close, answers
<1>11. CASE ClockStep \/ ReadDeadline \/ WriteDeadline
  BY <1>11 DEF ClockStep, Ping, PingerEnds, ReadDeadline, WriteDeadline, answers
<1> QED
  BY <1>1, <1>2, <1>3, <1>4, <1>5, <1>6, <1>7, <1>8, <1>9, <1>10, <1>11
  DEF Next, BackendStep, MainStep

(* Steps that write nothing to the client and take no line from the        *)
(* backend; a line that fails is dropped.                                  *)
LEMMA GotSame ==
  ASSUME Base, UNCHANGED <<got, wrote>>, scanned' = scanned \/ scanned' = "empty",
         pipe = "closed" => pipe' = "closed",
         pipe = "closed" => early' = early \/ early' = FALSE
  PROVE  GotInv'
<1> USE DEF Base, GotInv
<1>1. ASSUME NEW i \in 1..Len(got'), got'[i] = "part"
      PROVE  i = Len(got') /\ pipe' = "closed" /\ ~early' /\ scanned' = "empty"
  BY <1>1
<1>2. ASSUME \A i \in 1..Len(got') : got'[i] = "whole"
      PROVE  Len(got') + Held' <= wrote'
  <2>1. Len(got) + Held <= wrote
    BY <1>2
  <2>2. CASE scanned' = scanned
    BY <2>1, <2>2 DEF Held
  <2>3. CASE scanned' = "empty"
    <3>1. Held' = 0 /\ Held \in Nat
      BY <2>3 DEF Held
    <3>2. Len(got) \in Nat /\ wrote \in Nat
      BY DEF TypeOK
    <3> QED BY <2>1, <3>1, <3>2
  <2> QED BY <2>2, <2>3
<1> QED BY <1>1, <1>2

LEMMA GotInvStep ==
  ASSUME Base, Next
  PROVE  GotInv'
<1>1. CASE ClientStep \/ ReaderStep \/ ForwarderStep \/ BackendReads \/ CloserStep
           \/ Scan \/ Wrote \/ Close \/ ClockStep \/ ReadDeadline \/ WriteDeadline
  <2>1. UNCHANGED <<got, wrote, scanned, early>> /\ (pipe' = pipe \/ pipe' = "closed")
    BY <1>1 DEF ClientStep, Send, Answer, Leave, ReaderStep, ReadPong, ReadMessage, ReadFails,
                ReaderPass, ForwarderStep, ForwarderTake, ForwarderWrite, ForwarderWrote,
                BackendReads, CloserStep, CloseResponses, CloseRequests, Scan, Wrote, Close,
                ClockStep, Ping, PingerEnds, ReadDeadline, WriteDeadline, answers
  <2> QED BY <2>1, GotSame
<1>2. CASE BackendEnds
  <2>1. UNCHANGED <<got, wrote, scanned, pipe>>
    BY <1>2 DEF BackendEnds
  <2>2. pipe = "closed" => early' = FALSE
    BY <1>2 DEF BackendEnds
  <2> QED BY <2>1, <2>2, GotSame
<1>3. CASE StallEnds \/ (Write /\ ~Written(scanned))
  <2>1. UNCHANGED <<got, wrote, pipe, early>> /\ (scanned' = scanned \/ scanned' = "empty")
    BY <1>3 DEF StallEnds, Write, WriteFailed
  <2> QED BY <2>1, GotSame
<1>4. CASE Write /\ Written(scanned)
  <2>1. main = "write" /\ got' = Append(got, scanned) /\ scanned' = "empty"
        /\ UNCHANGED <<wrote, pipe, early>>
    BY <1>4 DEF Write, Written
  <2>2. /\ Len(got') = Len(got) + 1 /\ Len(got) <= wrote
        /\ got'[Len(got) + 1] = scanned
        /\ \A i \in 1..Len(got) : got[i] = "whole" /\ got'[i] = "whole"
        /\ scanned = "whole" => Len(got) + 1 <= wrote
    BY <2>1, WrittenGot
  <2>3. Len(got) \in Nat
    BY DEF Base, TypeOK
  <2>4. ASSUME NEW i \in 1..Len(got'), got'[i] = "part"
        PROVE  i = Len(got') /\ pipe' = "closed" /\ ~early' /\ scanned' = "empty"
    <3>1. i = Len(got) + 1
      BY <2>2, <2>3, <2>4
    <3>2. scanned = "part"
      BY <2>2, <2>4, <3>1
    <3> QED BY <2>1, <2>2, <3>1, <3>2 DEF Base, LinesInv
  <2>5. ASSUME \A i \in 1..Len(got') : got'[i] = "whole"
        PROVE  Len(got') + Held' <= wrote'
    <3>1. Len(got) + 1 \in 1..Len(got')
      BY <2>2, <2>3
    <3>2. scanned = "whole"
      BY <2>2, <2>5, <3>1
    <3>3. Held' = 0
      BY <2>1 DEF Held
    <3> QED BY <2>1, <2>2, <2>3, <3>2, <3>3
  <2> QED BY <2>4, <2>5 DEF GotInv
<1>5. CASE BackendWrites
  <2>1. UNCHANGED <<got, pipe, early>> /\ pipe = "open" /\ scanned # "whole"
    BY <1>5 DEF BackendWrites
  <2>2. Len(got) \in Nat /\ wrote \in Nat /\ got \in Seq({"part", "whole"})
    BY DEF Base, TypeOK
  <2>3. \A i \in 1..Len(got) : got[i] = "whole"
    BY <2>1, <2>2 DEF Base, GotInv
  <2>4. Len(got) <= wrote
    <3>1. Held = 0
      BY <2>1 DEF Held
    <3> QED BY <2>2, <2>3, <3>1 DEF Base, GotInv
  <2>5. Len(got') + Held' <= wrote'
    <3>1. CASE scanned' = "whole" /\ wrote' = wrote + 1
      <4>1. Held' = 1
        BY <3>1 DEF Held
      <4> QED BY <2>1, <2>2, <2>4, <3>1, <4>1
    <3>2. CASE scanned' = "part" /\ wrote' = wrote
      <4>1. Held' = 0
        BY <3>2 DEF Held
      <4> QED BY <2>1, <2>2, <2>4, <3>2, <4>1
    <3> QED BY <1>5, <3>1, <3>2 DEF BackendWrites
  <2> QED BY <2>1, <2>3, <2>5 DEF GotInv
<1> QED BY <1>1, <1>2, <1>3, <1>4, <1>5 DEF Next, BackendStep, MainStep

LEMMA BaseStep ==
  ASSUME Base, [Next]_vars
  PROVE  Base'
<1>1. CASE Next
  BY <1>1, TypeStep, TypeWire, CountStep, EndsStep, LinesStep, GotInvStep DEF Base
<1>2. CASE UNCHANGED vars
  <2> USE <1>2 DEF Base, vars, flows, answers, clocks
  <2>1. TypeOK' /\ WireInv'
    BY DEF TypeOK, WireInv
  <2>2. Messages' = Messages /\ InProxy' = InProxy
    BY DEF Messages, HasPong, InProxy, Passing, Waiting, Writing, Ended
  <2>3. CountInv'
    BY <2>2 DEF CountInv
  <2>4. EndsInv' /\ LinesInv'
    BY DEF EndsInv, LinesInv
  <2>5. GotInv'
    BY GotSame
  <2> QED BY <2>1, <2>3, <2>4, <2>5
<1> QED BY <1>1, <1>2

(* Type correctness for any number of messages: what the client has sent   *)
(* and nobody has read is bounded, and no more is written to it than the   *)
(* backend wrote, and a part.                                              *)
THEOREM TypeCorrect == Spec => []TypeOK
<1>1. Base => TypeOK
  BY DEF Base
<1> QED BY <1>1, InitBase, BaseStep, PTL DEF Spec

-----------------------------------------------------------------------------
(***************************************************************************)
(* A quiet client.                                                         *)
(***************************************************************************)

(* Before the context is done: nothing has gone wrong, but for a message   *)
(* that is too long.                                                       *)
Healthy ==
  pinger = "wait" /\ readBy = "ahead" /\ ~err /\ (main = "close" => scanned = "part")

(* The client has got what the backend wrote, but for the scanner's line.  *)
Delivering ==
  /\ writeBy # "past" /\ main \notin {"stalled", "stuck"}
  /\ main # "over" => conn = "open"
  /\ Len(got) + Held = wrote

QuietInv ==
  Quiet =>
    /\ ~done => Healthy
    /\ ~done \/ early => Delivering
    /\ early /\ main \in {"close", "over"} => scanned = "empty"
    /\ done /\ backend # "over" => main = "over" /\ scanned = "part"

LEMMA QuietBefore ==
  ASSUME Base, Next, Quiet'
  PROVE  Quiet
<1>1. client = "here" /\ readsBody' = readsBody
  BY DEF Quiet, Next, ClientStep, Send, Answer, Leave, ReaderStep, ReadPong, ReadMessage,
         ReadFails, ReaderPass, ForwarderStep, ForwarderTake, ForwarderWrite, ForwarderWrote,
         BackendStep, BackendReads, BackendWrites, BackendEnds,
         CloserStep, CloseResponses, CloseRequests,
         MainStep, Scan, Write, StallEnds, Wrote, Close,
         ClockStep, Ping, PingerEnds, ReadDeadline, WriteDeadline, flows
<1>2. sent' = sent \/ sent' = sent + 1
  BY DEF Next, ClientStep, Send, Answer, Leave, ReaderStep, ReadPong, ReadMessage,
         ReadFails, ReaderPass, ForwarderStep, ForwarderTake, ForwarderWrite, ForwarderWrote,
         BackendStep, BackendReads, BackendWrites, BackendEnds,
         CloserStep, CloseResponses, CloseRequests,
         MainStep, Scan, Write, StallEnds, Wrote, Close,
         ClockStep, Ping, PingerEnds, ReadDeadline, WriteDeadline, flows
<1>3. sent \in Nat
  BY DEF Base, TypeOK
<1>4. CASE sent' = sent
  BY <1>1, <1>4 DEF Quiet
<1>5. CASE sent' = sent + 1
  BY <1>1, <1>3, <1>5 DEF Quiet
<1> QED BY <1>2, <1>4, <1>5

(* A quiet client has sent too little to hold up the reader, or to make    *)
(* the forwarder write to a body that has ended.                           *)
LEMMA QuietCount ==
  ASSUME Base, Quiet
  PROVE  /\ ~HeldUp
         /\ ~done /\ forwarder = "write" => body = "open"
<1>1. /\ Passing \in 0..1 /\ Writing \in 0..1 /\ Ended \in 0..1 /\ Waiting \in Nat
      /\ Messages \in Nat /\ sent \in Nat
  BY ProxyFacts, MessagesFacts DEF Base, TypeOK
<1>2. Passing + Waiting + Writing + Ended <= sent
  BY <1>1 DEF Base, CountInv, InProxy
<1>3. sent <= 2 /\ (readsBody => sent <= 1)
  BY <1>1 DEF Quiet
<1>4. ASSUME HeldUp PROVE FALSE
  <2>1. Passing = 1 /\ Writing = 1
    BY <1>4 DEF HeldUp, Passing, Writing
  <2>2. Waiting = 1
    BY <1>4, PayloadFacts DEF HeldUp, Waiting, Base, TypeOK
  <2> QED BY <1>1, <1>2, <1>3, <2>1, <2>2
<1>5. ASSUME ~done, forwarder = "write", body # "open" PROVE FALSE
  <2>1. body = "ended" /\ readsBody
    BY <1>5 DEF Base, TypeOK, EndsInv
  <2>2. Writing = 1 /\ Ended = 1
    BY <1>5, <2>1 DEF Writing, Ended
  <2> QED BY <1>1, <1>2, <1>3, <2>1, <2>2
<1> QED BY <1>4, <1>5

LEMMA InitQuiet == Init => QuietInv
<1>1. ASSUME Init PROVE Len(got) + Held = wrote
  <2>1. Len(got) = 0 /\ Held = 0 /\ wrote = 0
    BY <1>1 DEF Init, Held
  <2> QED BY <2>1
<1> QED BY <1>1 DEF Init, QuietInv, Healthy, Delivering

(* What a step leaves of the count of lines.                               *)
LEMMA SameLines ==
  ASSUME UNCHANGED <<got, scanned, wrote>>, Len(got) + Held = wrote
  PROVE  Len(got') + Held' = wrote'
<1>1. Held' = Held
  BY DEF Held
<1> QED BY <1>1

LEMMA QuietStep ==
  ASSUME Base, QuietInv, Next
  PROVE  QuietInv'
<1> SUFFICES ASSUME Quiet'
             PROVE  /\ ~done' => Healthy'
                    /\ ~done' \/ early' => Delivering'
                    /\ early' /\ main' \in {"close", "over"} => scanned' = "empty"
                    /\ done' /\ backend' # "over" => main' = "over" /\ scanned' = "part"
  BY DEF QuietInv
<1>1. Quiet /\ client = "here"
  BY QuietBefore DEF Quiet
<1>2. /\ ~done => Healthy
      /\ ~done \/ early => Delivering
      /\ early /\ main \in {"close", "over"} => scanned = "empty"
      /\ done /\ backend # "over" => main = "over" /\ scanned = "part"
  BY <1>1 DEF QuietInv
<1>3. ~HeldUp /\ (~done /\ forwarder = "write" => body = "open")
  BY <1>1, QuietCount
<1>4. EndsInv /\ LinesInv
  BY DEF Base
<1>5. ASSUME UNCHANGED <<got, scanned, wrote, main, conn, early>>,
             writeBy' # "past" \/ UNCHANGED writeBy,
             ~done \/ early
      PROVE  Delivering'
  BY <1>2, <1>5, SameLines DEF Delivering
<1> USE <1>2, <1>4 DEF Healthy, EndsInv, LinesInv
<1>6. CASE ClientStep
  <2>1. UNCHANGED <<answers, clocks, done, main, conn, err>>
    BY <1>6 DEF ClientStep, Send, Answer, Leave
  <2> QED BY <2>1, <1>5 DEF answers, clocks
<1>7. CASE ReadPong \/ ReadMessage
  <2>1. /\ UNCHANGED <<answers, pinger, done, main, conn, err>>
        /\ readBy' = "ahead" \/ UNCHANGED readBy
        /\ writeBy' = "ahead" \/ UNCHANGED writeBy
    BY <1>7 DEF ReadPong, ReadMessage, clocks
  <2> QED BY <2>1, <1>5 DEF answers
<1>8. CASE ReadFails
  <2>1. done
    BY <1>1, <1>8 DEF ReadFails, Delivering
  <2>2. done' /\ UNCHANGED <<answers, writeBy, main, conn>>
    BY <1>8 DEF ReadFails, ReaderEnds
  <2> QED BY <2>1, <2>2, <1>5 DEF answers
<1>9. CASE ReaderPass
  <2>1. UNCHANGED <<answers, pinger, writeBy, main, conn, err>>
    BY <1>9 DEF ReaderPass
  <2>2. UNCHANGED <<readBy, done>> \/ (done /\ done')
    BY <1>9 DEF ReaderPass, ReaderEnds, unread
  <2> QED BY <2>1, <2>2, <1>5 DEF answers
<1>10. CASE ForwarderTake
  <2>1. UNCHANGED <<answers, clocks, main, conn, err>>
    BY <1>10 DEF ForwarderTake
  <2>2. UNCHANGED done \/ (done /\ done')
    BY <1>10 DEF ForwarderTake, ForwarderEnds
  <2> QED BY <2>1, <2>2, <1>5 DEF answers, clocks
<1>11. CASE ForwarderWrite
  <2>1. UNCHANGED <<answers, clocks, done, main, conn>>
    BY <1>11 DEF ForwarderWrite
  <2>2. ~done => ~err'
    BY <1>3, <1>11 DEF ForwarderWrite
  <2> QED BY <2>1, <2>2, <1>5 DEF answers, clocks
<1>12. CASE ForwarderWrote
  <2>1. UNCHANGED <<answers, clocks, main, conn, err>>
    BY <1>12 DEF ForwarderWrote
  <2>2. UNCHANGED done \/ (done /\ done')
    BY <1>12 DEF ForwarderWrote, ForwarderEnds
  <2> QED BY <2>1, <2>2, <1>5 DEF answers, clocks
<1>13. CASE BackendReads
  <2>1. UNCHANGED <<wrote, scanned, got, early, clocks, done, main, conn, err>>
        /\ backend # "over"
    BY <1>13 DEF BackendReads
  <2> QED BY <2>1, <1>5 DEF clocks
<1>14. CASE BackendWrites
  <2>1. /\ UNCHANGED <<got, early, clocks, done, main, conn, err>>
        /\ backend # "over" /\ main = "scan" /\ scanned # "whole" /\ backend' # "over"
    BY <1>14 DEF BackendWrites
  <2>2. ~done /\ ~early
    BY <2>1
  <2>3. Len(got) + Held = wrote /\ Len(got) \in Nat /\ wrote \in Nat
    BY <2>2 DEF Delivering, Base, TypeOK
  <2>4. Held = 0
    BY <2>1 DEF Held
  <2>5. Len(got') + Held' = wrote'
    <3>1. CASE scanned' = "whole" /\ wrote' = wrote + 1
      <4>1. Held' = 1
        BY <3>1 DEF Held
      <4> QED BY <2>1, <2>3, <2>4, <3>1, <4>1
    <3>2. CASE scanned' = "part" /\ wrote' = wrote
      <4>1. Held' = 0
        BY <3>2 DEF Held
      <4> QED BY <2>1, <2>3, <2>4, <3>2, <4>1
    <3> QED BY <1>14, <3>1, <3>2 DEF BackendWrites
  <2> QED BY <2>1, <2>2, <2>5 DEF Delivering, clocks
<1>15. CASE BackendEnds
  <2>1. /\ UNCHANGED <<wrote, scanned, got, clocks, main, conn>>
        /\ done' /\ backend' = "over"
    BY <1>15 DEF BackendEnds
  <2>2. early' => ~done /\ backend = "stream"
    BY <1>15 DEF BackendEnds
  <2>3. early' => Delivering'
    <3>1. ASSUME ~done PROVE Delivering'
      BY <2>1, <3>1, SameLines DEF Delivering, clocks
    <3> QED BY <2>2, <3>1
  <2> QED BY <2>1, <2>2, <2>3
<1>16. CASE CloserStep
  <2>1. /\ UNCHANGED <<backend, wrote, scanned, got, early, clocks, done, main, conn, err>>
        /\ done
    BY <1>16 DEF CloserStep, CloseResponses, CloseRequests, answers
  <2> QED BY <2>1, <1>5 DEF clocks
<1>17. CASE Scan
  <2>1. UNCHANGED <<answers, clocks, done, conn, err>> /\ main = "scan"
    BY <1>17 DEF Scan
  <2>2. main' \in {"write", "close"}
    BY <1>17 DEF Scan
  <2>3. main' = "close" => (scanned = "empty" /\ pipe = "closed") \/ scanned = "part"
    BY <1>17 DEF Scan
  <2>4. ~done \/ early => Delivering'
    BY <2>1, <2>2, SameLines DEF Delivering, answers, clocks
  <2> QED BY <2>1, <2>2, <2>3, <2>4 DEF answers, clocks
<1>18. CASE Write
  <2>1. /\ UNCHANGED <<backend, wrote, pipe, early, clocks, done>> /\ main = "write"
        /\ done => backend = "over"
    BY <1>18 DEF Write
  <2>2. CASE ~done \/ early
    <3>1. Written(scanned)
      BY <1>1, <1>18, <2>2 DEF Write, Delivering
    <3>2. scanned = "whole"
      BY <2>1, <2>2
    <3>3. /\ got' = Append(got, scanned) /\ scanned' = "empty" /\ main' = "wrote"
          /\ ~err' /\ conn' = conn
      BY <3>1 DEF Written
    <3>4. Len(got') = Len(got) + 1 /\ Len(got) \in Nat /\ Held = 1 /\ Held' = 0
      BY <2>1, <3>2, <3>3, WrittenGot DEF Held, Base, TypeOK
    <3>5. Len(got) + Held = wrote
      BY <2>2 DEF Delivering
    <3>6. Len(got') + Held' = wrote'
      BY <2>1, <3>4, <3>5
    <3>7. Delivering'
      BY <2>1, <2>2, <3>3, <3>6 DEF Delivering, clocks
    <3> QED BY <2>1, <2>2, <3>3, <3>7 DEF clocks
  <2>3. CASE done /\ ~early
    BY <2>1, <2>3
  <2> QED BY <2>2, <2>3
<1>19. CASE StallEnds
  <2>1. main \in {"stalled", "stuck"} /\ UNCHANGED <<backend, early, done>>
    BY <1>19 DEF StallEnds
  <2>2. done /\ ~early /\ backend = "over"
    BY <2>1 DEF Delivering
  <2> QED BY <2>1, <2>2
<1>20. CASE Wrote
  <2>1. UNCHANGED <<answers, clocks, done, conn, err>> /\ main = "wrote"
    BY <1>20 DEF Wrote
  <2>2. main' = (IF err THEN "close" ELSE "scan")
    BY <1>20 DEF Wrote
  <2>3. main' \in {"close", "scan"} /\ (~err => main' = "scan")
    BY <2>2
  <2>4. ~done \/ early => Delivering'
    BY <2>1, <2>3, SameLines DEF Delivering, answers, clocks
  <2> QED BY <2>1, <2>3, <2>4 DEF answers, clocks
<1>21. CASE Close
  <2>1. UNCHANGED <<answers, clocks>> /\ main = "close" /\ done' /\ main' = "over"
    BY <1>21 DEF Close
  <2>2. early => done
    OBVIOUS
  <2>3. early => Delivering'
    BY <2>1, SameLines DEF Delivering, answers, clocks
  <2> QED BY <2>1, <2>2, <2>3 DEF answers
<1>22. CASE Ping
  <2>1. UNCHANGED <<answers, readBy, done, main, err>> /\ ~done /\ writeBy' = "ahead"
    BY <1>22 DEF Ping
  <2>2. UNCHANGED <<pinger, conn>>
    BY <1>1, <1>22 DEF Ping, Delivering
  <2> QED BY <2>1, <2>2, <1>5 DEF answers
<1>23. CASE PingerEnds
  <2>1. UNCHANGED <<answers, writeBy, done, main, conn>> /\ done
    BY <1>23 DEF PingerEnds
  <2> QED BY <2>1, <1>5 DEF answers
<1>24. CASE ReadDeadline \/ WriteDeadline
  BY <1>1, <1>3, <1>24 DEF ReadDeadline, WriteDeadline, Late
<1> QED
  BY <1>6, <1>7, <1>8, <1>9, <1>10, <1>11, <1>12, <1>13, <1>14, <1>15, <1>16, <1>17, <1>18,
     <1>19, <1>20, <1>21, <1>22, <1>23, <1>24
  DEF Next, ReaderStep, ForwarderStep, BackendStep, MainStep, ClockStep

LEMMA QuietStutter ==
  ASSUME QuietInv, UNCHANGED vars
  PROVE  QuietInv'
<1> USE DEF vars, flows, answers, clocks
<1>1. Len(got) + Held = wrote => Len(got') + Held' = wrote'
  BY SameLines
<1>2. Quiet' <=> Quiet
  BY DEF Quiet
<1> QED BY <1>1, <1>2 DEF QuietInv, Healthy, Delivering

-----------------------------------------------------------------------------
(* For any number of messages: only the last one a client gets is cut, and *)
(* only if the context was done first; a client that answers pings and     *)
(* sends no more than the proxy can take is not cut off, and gets all of a *)
(* response that came to its end.                                          *)
THEOREM StreamCorrect == Spec => []StreamHolds
<1>1. Base /\ QuietInv => StreamHolds
  <2> SUFFICES ASSUME Base, QuietInv PROVE StreamHolds
    OBVIOUS
  <2>1. got \in Seq({"part", "whole"})
    BY DEF Base, TypeOK
  <2>2. CutOnlyAtTheEnd
    BY <2>1 DEF CutOnlyAtTheEnd, Base, GotInv
  <2>3. KeptWhileQuiet
    BY DEF KeptWhileQuiet, QuietInv
  <2>4. ASSUME Quiet, early, main = "over"
        PROVE  got = [i \in 1..wrote |-> "whole"]
    <3>1. scanned = "empty" /\ Len(got) + Held = wrote
      BY <2>4 DEF QuietInv, Delivering
    <3>2. Held = 0 /\ Len(got) \in Nat
      BY <2>1, <3>1 DEF Held
    <3>3. Len(got) = wrote
      BY <3>1, <3>2
    <3>4. \A i \in 1..Len(got) : got[i] = "whole"
      BY <2>1, <2>4 DEF Base, GotInv
    <3>5. got = [i \in 1..Len(got) |-> got[i]]
      BY <2>1
    <3> QED BY <3>3, <3>4, <3>5
  <2> QED BY <2>2, <2>3, <2>4 DEF StreamHolds, GetsAll
<1>2. Base /\ QuietInv /\ [Next]_vars => QuietInv'
  BY QuietStep, QuietStutter
<1> QED BY <1>1, <1>2, InitBase, InitQuiet, BaseStep, PTL DEF Spec
=============================================================================
