----------------------------- MODULE WebRequest -----------------------------
(***************************************************************************)
(* One connection of the web server (WebRequest.cpp, WebResponses.cpp):    *)
(* an AsyncWebServerRequest parses what arrives, cut into packets anywhere, *)
(* calls its handler once the request is complete, and the handler sends   *)
(* an AsyncBasicResponse, in pieces as the send buffer of the connection   *)
(* permits, on the acknowledgements and polls that follow.                 *)
(*                                                                         *)
(* Of a character the parser sees whether it ends a line ("n"), is white   *)
(* ("w"), or belongs to a line that announces a body ("len") or expects    *)
(* 100 Continue ("exp"); "x" is any other.  A response is the sequence of  *)
(* the numbers of its bytes; 0 is the byte of 100 Continue.                *)
(***************************************************************************)
EXTENDS Integers, Sequences, SequencesExt

CONSTANTS
  Inputs,      \* what peers send: sequences of characters
  BodyLength,  \* value of a Content-Length header
  HeadLength,  \* length of an assembled head
  Contents,    \* lengths of contents
  SendBuffers  \* sizes of the send buffer

Chars == {"n", "w", "len", "exp", "x"}
Headers == {"len", "exp"}

ASSUME RequestAssumption ==
  /\ BodyLength \in Nat \ {0} /\ HeadLength \in Nat \ {0}
  /\ Contents \subseteq Nat /\ SendBuffers \subseteq Nat \ {0}
\* the first line is not a header, and every other line is one header at most
ASSUME InputAssumption ==
  /\ Inputs \subseteq Seq(Chars)
  /\ \A s \in Inputs : \A k \in 1..Len(s) : s[k] \in Headers =>
       \E j \in 1..(k - 1) : s[j] = "n" /\ \A m \in (j + 1)..(k - 1) : s[m] \notin Headers

VARIABLES
  peer,     \* what the peer sends, the length of the answer, the send buffer
  pos,      \* how much of it has arrived
  onEnd,    \* observer: whether a packet ended where the request ends
  parse,    \* _parseState, _temp, _contentLength, _parsedLength, _expectingContinue
  handled,  \* calls of handleRequest
  tcp,      \* the connection: what was written to it, how much of it is not acknowledged;
            \* observers: whether a write failed, how many bytes no response has counted
  acks,     \* lengths of the SENT events that are queued
  response, \* the AsyncBasicResponse
  closed    \* the connection is closed, request and client are deleted

vars == <<peer, pos, onEnd, parse, handled, tcp, acks, response, closed>>

Least(a, b) == IF a <= b THEN a ELSE b
Full(c) == [i \in 1..(HeadLength + c) |-> i]

NoResponse == [state |-> "none", content |-> <<>>, contentLength |-> 0,
               sent |-> 0, acked |-> 0, written |-> 0]

Init ==
  /\ peer \in [input : Inputs, content : Contents, sndbuf : SendBuffers]
  /\ pos = 0 /\ onEnd = FALSE /\ handled = 0
  /\ parse = [state |-> "start", line |-> "blank", length |-> 0, parsed |-> 0,
              expecting |-> FALSE]
  /\ tcp = [wire |-> <<>>, unacked |-> 0, busy |-> FALSE, failed |-> FALSE, uncounted |-> 0]
  /\ acks = <<>> /\ response = NoResponse /\ closed = FALSE

-----------------------------------------------------------------------------
(* What a request is, without looking at packets: lines up to a blank one, *)
(* then as many characters as were announced.                              *)

White(s, i, j) == \A k \in i..j : s[k] = "w"
IsBlank(s, i) == s[i] = "n" /\ \E j \in 1..(i - 1) : s[j] = "n" /\ White(s, j + 1, i - 1)
BlankFirst(s, n) == \E i \in 1..n : s[i] = "n" /\ White(s, 1, i - 1)
HeadEnds(s) == {i \in 1..Len(s) : IsBlank(s, i) /\ \A k \in 1..(i - 1) : ~IsBlank(s, k)}
Announced(s, i) == IF \E k \in 1..i : s[k] = "len" THEN BodyLength ELSE 0
RequestEnds(s) == {i + Announced(s, i) : i \in HeadEnds(s)}

-----------------------------------------------------------------------------
(* The parser. *)

\* faulty variant: _temp is not trimmed
AddToLineUntrimmed(p, c) ==
  [p EXCEPT !.line = IF c \in Headers THEN c ELSE IF @ = "blank" THEN "text" ELSE @]

\* a character for _temp, of which only the trimmed line matters
AddToLine(p, c) ==
  CASE c = "w" -> p
    [] c \in Headers -> [p EXCEPT !.line = c]
    [] OTHER -> [p EXCEPT !.line = IF @ = "blank" THEN "text" ELSE @]

\* _parseLine, _parseReqHead, _parseReqHeader
ParseLine(p) ==
  LET q == [p EXCEPT !.line = "blank"] IN
  CASE p.state = "start" -> [q EXCEPT !.state = IF p.line = "blank" THEN "fail" ELSE "headers"]
    [] p.state = "headers" /\ p.line = "len" -> [q EXCEPT !.length = BodyLength]
    [] p.state = "headers" /\ p.line = "exp" -> [q EXCEPT !.expecting = TRUE]
    [] p.state = "headers" /\ p.line = "blank" ->
         [q EXCEPT !.state = IF p.length > 0 THEN "body" ELSE "end"]
    [] OTHER -> q

Feed(p, c) ==
  CASE p.state \in {"start", "headers"} /\ c = "n" -> ParseLine(p)
    [] p.state \in {"start", "headers"} /\ c # "n" -> AddToLine(p, c)
    [] p.state = "body" -> [p EXCEPT !.parsed = @ + 1]
    [] OTHER -> p

\* a packet; the length of the body is compared at its end
ParsePacket(p, packet) ==
  LET q == FoldLeft(Feed, p, packet)
  IN IF q.state = "body" /\ q.parsed = q.length THEN [q EXCEPT !.state = "end"] ELSE q

-----------------------------------------------------------------------------
(* AsyncClient and AsyncBasicResponse. *)

Space(t) == peer.sndbuf - t.unacked

\* lwIP takes the bytes and sends them; takes them, but can not send yet; or has no memory
Outcomes == {"sent", "queued", "refused"}

\* AsyncClient::write, which adds as much as fits and sends it.  What was added goes
\* out later when it could not be sent at once, but is not reported as written.
Write(t, s, o) ==
  LET n == Least(Len(s), Space(t))
      added == [t EXCEPT !.wire = @ \o SubSeq(s, 1, n), !.unacked = @ + n]
  IN CASE n > 0 /\ o = "sent"   -> [added EXCEPT !.busy = TRUE]
       [] n > 0 /\ o = "queued" -> [added EXCEPT !.uncounted = @ + n]
       [] OTHER -> [t EXCEPT !.failed = @ \/ n > 0]

\* what it returns
Written(t, u) == (Len(u.wire) - Len(t.wire)) - (u.uncounted - t.uncounted)

\* _parseLine answers "Expect: 100-continue"; the response does not count that
Continue(t, o) ==
  LET u == Write(t, <<0>>, o) IN
  [u EXCEPT !.uncounted = @ + Written(t, u), !.failed = t.failed]

\* faulty variant: a byte is lost at every cut
RestOff(s, n) == SubSeq(s, n + 2, Len(s))

\* String::substring
Rest(s, n) == SubSeq(s, n + 1, Len(s))

\* faulty variant: the content sent with the head is not counted
ShiftUncounted(space) == 0

\* how much of the content is sent with the head
Shift(space) == space - HeadLength

\* AsyncBasicResponse::_respond: what is written at once, what is kept for later
Respond(t, o) ==
  LET c == peer.content
      space == Space(t)
      Kept(n) == Rest(Full(c), n)
      Send(n, state, rest, length, sent) ==
        LET u == Write(t, SubSeq(Full(c), 1, n), o) IN
        [tcp |-> u,
         response |-> [NoResponse EXCEPT !.state = state, !.content = rest, !.sent = sent,
                         !.contentLength = length, !.written = Written(t, u)]]
  IN CASE c = 0 /\ space >= HeadLength -> Send(HeadLength, "wait ack", <<>>, 0, 0)
       [] c > 0 /\ space >= HeadLength + c ->
            Send(HeadLength + c, "wait ack", Kept(HeadLength), c, 0)
       [] space > 0 /\ space < HeadLength ->
            Send(space, "content", Kept(space), c + HeadLength - space, 0)
       [] space > HeadLength /\ space < HeadLength + c ->
            Send(space, "content", Kept(space), c, Shift(space))
       [] OTHER -> Send(0, "content", Kept(0), c + HeadLength, 0)

\* faulty variant: the first acknowledgement will do
AllAckedSoon(r) == TRUE

AllAcked(r) == r.acked >= r.written

\* AsyncBasicResponse::_ack
Ack(r, t, len, o) ==
  LET a == [r EXCEPT !.acked = @ + len]
      available == r.contentLength - r.sent
      space == Space(t)
      Sent(u) == [a EXCEPT !.written = @ + Written(t, u)]
      all == Write(t, SubSeq(r.content, 1, available), o)
      part == Write(t, SubSeq(r.content, 1, Least(space, Len(r.content))), o)
  IN CASE r.state = "content" /\ space > available ->
            [tcp |-> all,
             response |-> [Sent(all) EXCEPT !.content = <<>>, !.state = "wait ack"]]
       [] r.state = "content" /\ space <= available ->
            [tcp |-> part,
             response |-> [Sent(part) EXCEPT !.content = Rest(@, space),
                                             !.sent = @ + space]]
       [] r.state = "wait ack" /\ AllAcked(a) ->
            [tcp |-> t, response |-> [a EXCEPT !.state = "end"]]
       [] OTHER -> [tcp |-> t, response |-> a]

-----------------------------------------------------------------------------
(* The handlers of the connection's events. *)

\* _onData: parse a packet; answer 100 Continue; call the handler, which sends
\* the response; close on an empty first line
OnData ==
  /\ ~closed /\ pos < Len(peer.input)
  /\ \E end \in (pos + 1)..Len(peer.input), first, o \in Outcomes :
       LET p == ParsePacket(parse, SubSeq(peer.input, pos + 1, end))
           headOver == parse.state \in {"start", "headers"} /\ p.state \in {"body", "end"}
           t == IF headOver /\ p.expecting THEN Continue(tcp, first) ELSE tcp
           answers == parse.state # "end" /\ p.state = "end"
       IN /\ pos' = end
          /\ onEnd' = (onEnd \/ end \in RequestEnds(peer.input))
          /\ parse' = p
          /\ handled' = handled + (IF answers THEN 1 ELSE 0)
          /\ tcp' = IF answers THEN Respond(t, o).tcp ELSE t
          /\ response' = IF answers THEN Respond(t, o).response ELSE response
          /\ closed' = (p.state = "fail")
  /\ UNCHANGED <<peer, acks>>

\* the peer acknowledges what it has received; lwIP makes an event of it
PeerAcks ==
  /\ ~closed /\ tcp.unacked > 0
  /\ \E n \in 1..tcp.unacked :
       tcp' = [tcp EXCEPT !.unacked = @ - n] /\ acks' = Append(acks, n)
  /\ UNCHANGED <<peer, pos, onEnd, parse, handled, response, closed>>

\* AsyncClient::_sent, _onAck: a response that has ended is deleted
OnAck ==
  /\ ~closed /\ acks # <<>>
  /\ acks' = Tail(acks)
  /\ LET t == [tcp EXCEPT !.busy = FALSE] IN
       CASE response.state = "none" -> tcp' = t /\ UNCHANGED response
         [] response.state = "end" -> tcp' = t /\ response' = NoResponse
         [] OTHER -> \E o \in Outcomes : LET u == Ack(response, t, Head(acks), o) IN
                       tcp' = u.tcp /\ response' = u.response
  /\ UNCHANGED <<peer, pos, onEnd, parse, handled, closed>>

\* AsyncClient::_poll, _onPoll
OnPoll ==
  /\ ~closed /\ response.state \in {"content", "wait ack"} /\ Space(tcp) > 0
  /\ \E o \in Outcomes : LET u == Ack(response, tcp, 0, o) IN
       tcp' = u.tcp /\ response' = u.response
  /\ UNCHANGED <<peer, pos, onEnd, parse, handled, acks, closed>>

\* faulty variant: no timeout for what the peer sends
OnTimeoutOfAck ==
  /\ ~closed /\ tcp.busy
  /\ closed' = TRUE
  /\ UNCHANGED <<peer, pos, onEnd, parse, handled, tcp, acks, response>>

\* AsyncClient::_poll: the peer was silent for 3 s before the response was sent, or
\* did not acknowledge for 5 s
OnTimeout ==
  /\ ~closed /\ (handled = 0 \/ tcp.busy)
  /\ closed' = TRUE
  /\ UNCHANGED <<peer, pos, onEnd, parse, handled, tcp, acks, response>>

\* the peer closes or resets
OnDisconnect ==
  /\ ~closed
  /\ closed' = TRUE
  /\ UNCHANGED <<peer, pos, onEnd, parse, handled, tcp, acks, response>>

Next == OnData \/ PeerAcks \/ OnAck \/ OnPoll \/ OnTimeout \/ OnDisconnect

Spec == Init /\ [][Next]_vars
\* the service task runs, polls come; lwIP sends again, and gives up in the end, what
\* the peer does not acknowledge
FairSpec == Spec /\ WF_vars(OnAck) /\ WF_vars(OnPoll) /\ WF_vars(OnTimeout)
                 /\ WF_vars(tcp.unacked > 0 /\ (PeerAcks \/ OnDisconnect))

-----------------------------------------------------------------------------
(* Properties. *)

\* However a request is cut into packets, its handler is called once, as soon as the
\* request is complete; but not when a packet goes on behind the end of a body.
HandledWhenComplete ==
  LET s == peer.input IN
  handled = IF /\ ~BlankFirst(s, pos)
               /\ \E i \in HeadEnds(s) : IF Announced(s, i) = 0 THEN i <= pos ELSE onEnd
              THEN 1 ELSE 0

\* _contentLength and _sentLength, counted over two different texts once a part of
\* the head is left over, agree with the text that is left.
LengthsAgree ==
  response.state = "content" =>
    response.contentLength - response.sent = Len(response.content)

\* what the peer gets, without the 100 Continue, which comes first
Answer == IF IsPrefix(<<0>>, tcp.wire) THEN Tail(tcp.wire) ELSE tcp.wire

\* The peer gets every byte once and in order, and a response stops sending only when
\* it has sent everything; unless lwIP runs out of memory, which loses a part.
NothingSkipped ==
  /\ LengthsAgree
  /\ ~tcp.failed =>
    CASE response.state = "content" -> Answer \o response.content = Full(peer.content)
      [] response.state \in {"wait ack", "end"} -> Answer = Full(peer.content)
      [] OTHER -> handled = 0 => Answer = <<>>

\* A response ends, and can be deleted, only when the peer has acknowledged it all but
\* for as many bytes as went out uncounted: those of a 100 Continue, and those that were
\* queued by writes whose send failed.
EndIsAcknowledged ==
  response.state = "end" => tcp.unacked <= tcp.uncounted

\* A request is answered or its connection is closed, whatever the peer leaves out.
RequestsEnd == <>(closed \/ response.state = "end" \/ (handled = 1 /\ response.state = "none"))
=============================================================================
