--------------------------- MODULE WebsocketProxy ---------------------------
(***************************************************************************)
(* One WebSocket connection of src/lanirpc/websocket_proxy.go: the function*)
(* upgradeToWebSocketProxy and the goroutines it starts.                   *)
(*                                                                         *)
(*   client --wire--> reader --payloads--> forwarder --body--> backend     *)
(*   client <-------- main (scanner) <------ response pipe <-- backend     *)
(*                                                                         *)
(* The pinger and the connection's deadlines watch over a client that no   *)
(* longer answers; the closer ends both pipes when the context is done.    *)
(* The backend is the REST gateway: it reads the request's body to its end *)
(* first, if its route has one, and then writes messages, large ones in    *)
(* parts.                                                                  *)
(*                                                                         *)
(* A client answers a ping in good time, stops reading and answering       *)
(* (silent), or closes the connection (gone).  A deadline passes only when *)
(* the answer to a ping is late; main and forwarder share the variable err.*)
(***************************************************************************)
EXTENDS Naturals, Sequences, SequencesExt

CONSTANTS
  MaxSent,   \* Bound of the model: messages of the client.
  MaxLines   \* Bound of the model: messages of the backend.

ASSUME BoundsAssumption == MaxSent \in Nat /\ MaxLines \in Nat

VARIABLES
  client,     \* "here", "silent" or "gone".
  sent,       \* Messages the client has sent.
  wire,       \* What the client has sent and reader has not read.
  done,       \* ctx is done.
  main,       \* The write loop, and its end.
  closer,     \* The goroutine that waits for ctx.
  reader,     \* The read loop.
  forwarder,  \* The forward loop.
  pinger,     \* The ping loop.
  payloads,   \* payloadChannel, of capacity 1.
  body,       \* The request pipe: "open" or "ended".
  backend,    \* p.backend.ServeHTTP.
  readsBody,  \* The route has a body.
  wrote,      \* Messages the backend has written in full.
  scanned,    \* The scanner's buffer: "empty", "part" or "whole" of a message.
  pipe,       \* The response pipe: "open" or "closed".
  got,        \* Messages written to the connection, each whole or cut.
  conn,       \* The connection of the proxy: "open", "broken" (to writers) or "closed".
  err,        \* The variable of upgradeToWebSocketProxy: an error or none.
  awaited,    \* A pong is due since the last ping.
  readBy,     \* The read deadline: "ahead" or "past".
  writeBy,    \* The write deadline: "none", "ahead" or "past".
  early       \* The backend ended of its own accord, with nothing cut off.

flows == <<client, sent, wire, payloads, body, readsBody>>
answers == <<backend, wrote, scanned, pipe, got, early>>
clocks == <<pinger, awaited, readBy, writeBy>>
vars == <<flows, answers, clocks, done, main, closer, reader, forwarder, conn, err>>

Init ==
  /\ client = "here" /\ sent = 0 /\ wire = << >>
  /\ done = FALSE /\ main = "scan" /\ closer = "wait"
  /\ reader = "read" /\ forwarder = "take" /\ pinger = "wait"
  /\ payloads = << >> /\ body = "open"
  /\ readsBody \in BOOLEAN /\ backend = (IF readsBody THEN "body" ELSE "stream")
  /\ wrote = 0 /\ scanned = "empty" /\ pipe = "open" /\ got = << >>
  /\ conn = "open" /\ err = FALSE
  /\ awaited = FALSE /\ readBy = "ahead" /\ writeBy = "none" /\ early = FALSE

-----------------------------------------------------------------------------
(* The client.  Bound of the model: once the context is done it does no    *)
(* more (all of the proxy then only ends) than leave a stuck write.        *)
Send ==
  /\ client = "here" /\ ~done
  /\ sent < MaxSent
  /\ sent' = sent + 1 /\ wire' = Append(wire, "message")
  /\ UNCHANGED <<client, payloads, body, readsBody, answers, clocks, done, main, closer,
                 reader, forwarder, conn, err>>

Answer ==
  /\ client = "here" /\ ~done
  /\ awaited /\ "pong" \notin ToSet(wire)
  /\ wire' = Append(wire, "pong")
  /\ UNCHANGED <<client, sent, payloads, body, readsBody, answers, clocks, done, main,
                 closer, reader, forwarder, conn, err>>

(* It stops reading and answering, or closes the connection.               *)
Leave(how) ==
  /\ client # "gone" /\ client # how
  /\ ~done \/ main = "stuck"
  /\ client' = how
  /\ UNCHANGED <<sent, wire, payloads, body, readsBody, answers, clocks, done, main, closer,
                 reader, forwarder, conn, err>>

-----------------------------------------------------------------------------
(* The read loop.  When it ends, nobody looks at what the client has sent  *)
(* or at the read deadline any more, and the model forgets them.           *)
ReaderEnds ==
  /\ reader' = "over" /\ done' = TRUE
  /\ wire' = << >> /\ awaited' = FALSE /\ readBy' = "ahead"

unread == <<wire, awaited, readBy, done>>

(* ReadMessage: the pong handler runs in it and sets both deadlines anew.  *)
ReadPong ==
  /\ reader = "read" /\ conn # "closed"
  /\ wire # << >> /\ Head(wire) = "pong"
  /\ wire' = Tail(wire)
  /\ awaited' = FALSE /\ readBy' = "ahead" /\ writeBy' = "ahead"
  /\ UNCHANGED <<client, sent, payloads, body, readsBody, answers, pinger, done, main,
                 closer, reader, forwarder, conn, err>>

ReadMessage ==
  /\ reader = "read" /\ conn # "closed"
  /\ wire # << >> /\ Head(wire) = "message"
  /\ wire' = Tail(wire)
  /\ reader' = "pass"
  /\ UNCHANGED <<client, sent, payloads, body, readsBody, answers, clocks, done, main,
                 closer, forwarder, conn, err>>

ReadFails ==
  /\ reader = "read"
  /\ conn = "closed" \/ readBy = "past" \/ (client = "gone" /\ wire = << >>)
  /\ ReaderEnds
  /\ UNCHANGED <<client, sent, payloads, body, readsBody, answers, pinger, writeBy, main,
                 closer, forwarder, conn, err>>

(* The capacity of payloadChannel.  (Faulty variant: it has no bound.)     *)
RoomAlways == TRUE

Room == Len(payloads) < 1

(* The payload goes into the channel, or the context is done, which is     *)
(* looked at before the next read too.                                     *)
ReaderPass ==
  /\ reader = "pass"
  /\ \/ /\ Room
        /\ payloads' = Append(payloads, "message")
        /\ IF done THEN ReaderEnds ELSE reader' = "read" /\ UNCHANGED unread
     \/ /\ done /\ ReaderEnds
        /\ UNCHANGED payloads
  /\ UNCHANGED <<client, sent, body, readsBody, answers, pinger, writeBy, main, closer,
                 forwarder, conn, err>>

-----------------------------------------------------------------------------
(* The forward loop.                                                       *)
ForwarderEnds == forwarder' = "over" /\ done' = TRUE /\ payloads' = << >>

(* The reader closes the channel when it ends.                             *)
ForwarderTake ==
  /\ forwarder = "take"
  /\ \/ /\ payloads # << >>
        /\ payloads' = Tail(payloads) /\ forwarder' = "write"
        /\ UNCHANGED done
     \/ /\ done \/ (reader = "over" /\ payloads = << >>)
        /\ ForwarderEnds
  /\ UNCHANGED <<client, sent, wire, body, readsBody, answers, clocks, main, closer, reader,
                 conn, err>>

(* Write on the pipe returns when the backend has read it all, or the pipe *)
(* is closed.  err is shared with main.                                    *)
ForwarderWrite ==
  /\ forwarder = "write"
  /\ body = "ended" \/ backend = "body"
  /\ err' = (body = "ended")
  /\ forwarder' = "wrote"
  /\ UNCHANGED <<flows, answers, clocks, done, main, closer, reader, conn>>

(* The newline, whose error is ignored, and the end of the body: no URI is *)
(* in LaniCLientStreamingURIs.                                             *)
ForwarderWrote ==
  /\ forwarder = "wrote"
  /\ IF err THEN ForwarderEnds /\ UNCHANGED body
            ELSE forwarder' = "take" /\ body' = "ended" /\ UNCHANGED <<done, payloads>>
  /\ UNCHANGED <<client, sent, wire, readsBody, answers, clocks, main, closer,
                 reader, conn, err>>

-----------------------------------------------------------------------------
(* The backend.                                                            *)
BackendReads ==
  /\ backend = "body" /\ body = "ended"
  /\ backend' = "stream"
  /\ UNCHANGED <<flows, wrote, scanned, pipe, got, early, clocks, done, main, closer, reader,
                 forwarder, conn, err>>

(* What it writes goes straight to the scanner, which reads while it has no*)
(* whole message: at once, or first a part and then the rest.              *)
BackendWrites ==
  /\ backend \in {"stream", "rest"} /\ main = "scan" /\ pipe = "open"
  /\ scanned = (IF backend = "rest" THEN "part" ELSE "empty")
  /\ wrote < MaxLines
  /\ \/ /\ backend' = "stream" /\ scanned' = "whole" /\ wrote' = wrote + 1
     \/ /\ backend = "stream"
        /\ backend' = "rest" /\ scanned' = "part" /\ UNCHANGED wrote
  /\ UNCHANGED <<flows, pipe, got, early, clocks, done, main, closer, reader, forwarder,
                 conn, err>>

(* ServeHTTP returns: it has written all, the context is done or a write   *)
(* failed.  Its goroutine cancels the context.                             *)
BackendEnds ==
  /\ \/ backend = "stream"
     \/ done /\ backend \in {"body", "rest"}
     \/ pipe = "closed" /\ backend = "rest"
  /\ early' = (backend = "stream" /\ ~done /\ pipe = "open")
  /\ backend' = "over" /\ done' = TRUE
  /\ UNCHANGED <<flows, wrote, scanned, pipe, got, clocks, main, closer, reader, forwarder,
                 conn, err>>

-----------------------------------------------------------------------------
(* The goroutine that waits for the context: responseForwarder.Close, then *)
(* requestForwarder.CloseWriter.                                           *)
CloseResponses ==
  /\ closer = "wait" /\ done
  /\ pipe' = "closed" /\ closer' = "requests"
  /\ UNCHANGED <<flows, backend, wrote, scanned, got, early, clocks, done, main, reader,
                 forwarder, conn, err>>

CloseRequests ==
  /\ closer = "requests"
  /\ body' = "ended" /\ closer' = "over"
  /\ UNCHANGED <<client, sent, wire, payloads, readsBody, answers, clocks, done, main, reader,
                 forwarder, conn, err>>

-----------------------------------------------------------------------------
(* The write loop.                                                         *)

(* Faulty variant: what the scanner has left is dropped.                   *)
ScanDropping ==
  /\ main = "scan"
  /\ main' = IF pipe = "closed" THEN "close" ELSE "write"
  /\ pipe = "closed" \/ scanned = "whole"
  /\ UNCHANGED <<flows, answers, clocks, done, closer, reader, forwarder, conn, err>>

(* Scan gives the next message; from a closed pipe, what there is of it    *)
(* and then the end.  A message that is too long for the scanner ends the  *)
(* loop as well.                                                           *)
Scan ==
  /\ main = "scan"
  /\ \/ /\ scanned = "whole" \/ (scanned = "part" /\ pipe = "closed")
        /\ main' = "write"
     \/ /\ scanned = "empty" /\ pipe = "closed"
        /\ main' = "close"
     \/ /\ scanned = "part" /\ pipe = "open"
        /\ main' = "close"
  /\ UNCHANGED <<flows, answers, clocks, done, closer, reader, forwarder, conn, err>>

Written(line) ==
  /\ got' = Append(got, line) /\ scanned' = "empty"
  /\ main' = "wrote" /\ err' = FALSE
  /\ UNCHANGED conn

(* A write error stays: later writes fail too.                             *)
WriteFailed ==
  /\ conn' = "broken" /\ scanned' = "empty"
  /\ main' = "wrote" /\ err' = TRUE
  /\ UNCHANGED got

(* WriteMessage.  To a silent client it may stall, with a deadline or not. *)
Write ==
  /\ main = "write"
  /\ \/ /\ client # "gone" /\ writeBy # "past" /\ conn = "open"
        /\ Written(scanned)
     \/ /\ client = "gone" \/ writeBy = "past" \/ conn = "broken"
        /\ WriteFailed
     \/ /\ client = "silent" /\ writeBy # "past" /\ conn = "open"
        /\ main' = IF writeBy = "none" THEN "stuck" ELSE "stalled"
        /\ UNCHANGED <<got, scanned, err, conn>>
  /\ UNCHANGED <<flows, backend, wrote, pipe, early, clocks, done, closer, reader,
                 forwarder>>

(* The deadline of a stalled write passes, or the connection is gone.      *)
StallEnds ==
  /\ main = "stalled" \/ (main = "stuck" /\ client = "gone")
  /\ WriteFailed
  /\ UNCHANGED <<flows, backend, wrote, pipe, early, clocks, done, closer, reader,
                 forwarder>>

Wrote ==
  /\ main = "wrote"
  /\ main' = IF err THEN "close" ELSE "scan"
  /\ UNCHANGED <<flows, answers, clocks, done, closer, reader, forwarder, conn, err>>

(* The deferred calls: cancelFn, then conn.Close.  (Faulty variant: the    *)
(* connection is left to the client.)                                      *)
CloseNot ==
  /\ main = "close"
  /\ done' = TRUE /\ main' = "over"
  /\ UNCHANGED <<flows, answers, clocks, closer, reader, forwarder, conn, err>>

Close ==
  /\ main = "close"
  /\ done' = TRUE /\ conn' = "closed" /\ main' = "over"
  /\ UNCHANGED <<flows, answers, clocks, closer, reader, forwarder, err>>

-----------------------------------------------------------------------------
(* The ping loop and the deadlines.                                        *)

(* WriteControl: fails on a connection that is not open or while main's    *)
(* write stalls, and the loop ends without cancelling.                     *)
Ping ==
  /\ pinger = "wait" /\ ~done
  /\ writeBy' = "ahead"
  /\ \/ /\ client # "gone" /\ conn = "open" /\ main \notin {"stalled", "stuck"}
        /\ awaited' = TRUE
        /\ UNCHANGED <<pinger, conn>>
     \/ /\ client = "gone" \/ conn # "open" \/ main \in {"stalled", "stuck"}
        /\ pinger' = "over"
        /\ UNCHANGED <<awaited, conn>>
     \/ /\ client = "silent" /\ conn = "open"
        /\ pinger' = "over" /\ conn' = "broken"
        /\ UNCHANGED awaited
  /\ UNCHANGED <<flows, answers, readBy, done, main, closer, reader, forwarder, err>>

PingerEnds ==
  /\ pinger = "wait" /\ done
  /\ pinger' = "over"
  /\ UNCHANGED <<flows, answers, awaited, readBy, writeBy, done, main, closer, reader,
                 forwarder, conn, err>>

(* The reader waits for room in the channel and reads no pong: nobody reads*)
(* the message before the one in the channel.                              *)
HeldUp ==
  /\ reader = "pass" /\ payloads # << >>
  /\ forwarder = "write" /\ body = "open" /\ backend # "body"

(* The answer to a ping is late, or there are no more pings.  (Once the    *)
(* context is done all ends in less time than a deadline takes.)           *)
Late == ~done /\ ((awaited /\ (client # "here" \/ HeldUp)) \/ pinger = "over")

ReadDeadline ==
  /\ readBy = "ahead" /\ Late
  /\ readBy' = "past"
  /\ UNCHANGED <<flows, answers, pinger, awaited, writeBy, done, main, closer, reader,
                 forwarder, conn, err>>

WriteDeadline ==
  /\ writeBy = "ahead" /\ Late
  /\ writeBy' = "past"
  /\ UNCHANGED <<flows, answers, pinger, awaited, readBy, done, main, closer, reader,
                 forwarder, conn, err>>

-----------------------------------------------------------------------------
ClientStep == Send \/ Answer \/ Leave("silent") \/ Leave("gone")
ReaderStep == ReadPong \/ ReadMessage \/ ReadFails \/ ReaderPass
ForwarderStep == ForwarderTake \/ ForwarderWrite \/ ForwarderWrote
BackendStep == BackendReads \/ BackendWrites \/ BackendEnds
CloserStep == CloseResponses \/ CloseRequests
MainStep == Scan \/ Write \/ StallEnds \/ Wrote \/ Close
ClockStep == Ping \/ PingerEnds

Next ==
  \/ ClientStep \/ ReaderStep \/ ForwarderStep \/ BackendStep \/ CloserStep \/ MainStep
  \/ ClockStep \/ ReadDeadline \/ WriteDeadline

Spec == Init /\ [][Next]_vars

(* Every goroutine runs, deadlines pass, and a handler whose context is    *)
(* done returns; neither the client nor a handler ever has to do anything. *)
FairSpec ==
  /\ Spec
  /\ WF_vars(ReaderStep) /\ WF_vars(ForwarderStep) /\ WF_vars(BackendReads)
  /\ WF_vars(done /\ BackendEnds)
  /\ WF_vars(CloserStep) /\ WF_vars(MainStep) /\ WF_vars(ClockStep)
  /\ WF_vars(ReadDeadline) /\ WF_vars(WriteDeadline)

-----------------------------------------------------------------------------
(***************************************************************************)
(* Properties.                                                             *)
(***************************************************************************)
(* Type invariant.                                                         *)
TypeOK ==
  /\ client \in {"here", "silent", "gone"} /\ sent \in 0..MaxSent
  /\ wire \in Seq({"message", "pong"}) /\ Len(wire) <= MaxSent + 1
  /\ done \in BOOLEAN /\ err \in BOOLEAN /\ awaited \in BOOLEAN
  /\ early \in BOOLEAN /\ readsBody \in BOOLEAN
  /\ main \in {"scan", "write", "stalled", "stuck", "wrote", "close", "over"}
  /\ closer \in {"wait", "requests", "over"} /\ pinger \in {"wait", "over"}
  /\ reader \in {"read", "pass", "over"}
  /\ forwarder \in {"take", "write", "wrote", "over"}
  /\ payloads \in {<< >>, <<"message">>}
  /\ body \in {"open", "ended"} /\ pipe \in {"open", "closed"}
  /\ backend \in {"body", "stream", "rest", "over"}
  /\ wrote \in 0..MaxLines /\ scanned \in {"empty", "part", "whole"}
  /\ got \in Seq({"part", "whole"}) /\ Len(got) <= wrote + 1
  /\ conn \in {"open", "broken", "closed"}
  /\ readBy \in {"ahead", "past"} /\ writeBy \in {"none", "ahead", "past"}

(* The client is there and has not sent more than the proxy can take: one  *)
(* message for a route with a body, two for one without.                   *)
Quiet == client = "here" /\ sent <= (IF readsBody THEN 1 ELSE 2)

(* Only the last message the client gets may be cut, and only when the     *)
(* context was done before the backend was.                                *)
CutOnlyAtTheEnd ==
  \A i \in DOMAIN got : got[i] = "part" => i = Len(got) /\ pipe = "closed" /\ ~early

(* A client that answers pings and sends no more than the proxy can take   *)
(* is not cut off while the backend writes; only a message too long is.    *)
KeptWhileQuiet ==
  Quiet /\ backend # "over" => ~done \/ scanned = "part"

(* Such a client gets all of a response that came to its end.              *)
GetsAll ==
  Quiet /\ early /\ main = "over" => got = [i \in 1..wrote |-> "whole"]

(* What the proxy owes to a client.                                        *)
StreamHolds == CutOnlyAtTheEnd /\ KeptWhileQuiet /\ GetsAll

AllOver ==
  /\ main = "over" /\ closer = "over" /\ reader = "over" /\ forwarder = "over"
  /\ pinger = "over" /\ backend = "over"

(* Whichever goroutine ends first, all end and the connection is closed,   *)
(* but for a write that stalls before the first ping has set a deadline.   *)
EndTogether == done ~> (AllOver \/ main = "stuck")

(* A silent client is dropped, but while the reader is held up by messages *)
(* nobody takes.                                                           *)
SilentIsDropped == client = "silent" ~> (done \/ HeldUp)

(* Both together: no connection stays for nothing.                         *)
ConnectionEnds == EndTogether /\ SilentIsDropped
=============================================================================
