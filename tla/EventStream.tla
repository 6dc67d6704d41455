---------------------------- MODULE EventStream ----------------------------
(***************************************************************************)
(* The way of an event from a sampler of tuxtop-serve to the window of a   *)
(* remote viewer: the channel of the supervisor, the feed task, the        *)
(* broadcast ring, the SSE body one subscriber gets, its chunked transfer, *)
(* and the session of the viewer that turns bytes back into events.        *)
(*                                                                         *)
(* A byte is a natural number.  LF, CR, ':' and the digits have their own  *)
(* values; "data: " is the one byte DATA, the JSON of event n the one byte *)
(* JSONBASE + n, a status line the one byte GOOD or REFUSAL.                *)
(***************************************************************************)
EXTENDS Integers, SequencesExt

CONSTANTS ChanCap,     \* slots of the supervisor's channel (256 in the code)
          RingCap,     \* slots of the broadcast ring (1024 in the code)
          WireCap,     \* bytes in flight before the server's write waits
          MaxEvents,   \* bound: events ever made
          MaxFaults    \* bound: connections that break, chunks that are garbled

ASSUME StreamAssumption ==
  {ChanCap, RingCap, WireCap, MaxEvents} \subseteq Nat \ {0} /\ MaxFaults \in Nat

LF == 10
CR == 13
COLON == 58
DATA == 100
GOOD == 72
REFUSAL == 73
JSONBASE == 200
Digit(n) == 48 + n

Events == 1 .. MaxEvents
Bytes == 0 .. JSONBASE + MaxEvents

----------------------------------------------------------------------------
(* What the server writes. *)

Line(n)  == <<DATA, JSONBASE + n, LF, LF>>       \* Event::default().data(encode_event(n))
Comment  == <<COLON, LF, LF>>                    \* axum's keep-alive
Chunk(s) == <<Digit(Len(s)), CR, LF>> \o s \o <<CR, LF>>
LastChunk == <<Digit(0), CR, LF, CR, LF>>
HeadOf(status) == <<status, CR, LF, CR, LF>>

\* The chunks one SSE frame can travel in: whole, or cut between its two line ends.
Cuts(s) == {Chunk(s), Chunk(SubSeq(s, 1, Len(s) - 1)) \o Chunk(<<LF>>)}

\* A chunk whose length line is one off, for the error paths of dechunk.
Garbled(s) == {<<Digit(Len(s) + d), CR, LF>> \o s \o <<CR, LF>> : d \in {-1, 1}}

----------------------------------------------------------------------------
(* What the viewer reads. *)

\* The first position of needle in hay, 0 when it is not there.
Find(hay, needle) ==
  LET at == {i \in 1 .. Len(hay) - Len(needle) + 1 :
               SubSeq(hay, i, i + Len(needle) - 1) = needle}
  IN IF at = {} THEN 0 ELSE CHOOSE i \in at : \A j \in at : i <= j

Drop(s, n) == SubSeq(s, n + 1, Len(s))

\* FAULT: everything that came with the head is taken for the head.
SplitHeadGreedy(buf) ==
  LET end == Find(buf, <<CR, LF, CR, LF>>)
  IN IF end = 0 THEN [tag |-> "partial", used |-> 0]
     ELSE IF buf[1] = GOOD THEN [tag |-> "ok", used |-> Len(buf)]
     ELSE [tag |-> "refused", used |-> 0]

\* split_head: nothing until the empty line is there.
SplitHead(buf) ==
  LET end == Find(buf, <<CR, LF, CR, LF>>)
  IN IF end = 0 THEN [tag |-> "partial", used |-> 0]
     ELSE IF buf[1] = GOOD THEN [tag |-> "ok", used |-> end + 3]
     ELSE [tag |-> "refused", used |-> 0]

Undecoded(used, end, bad) == [data |-> <<>>, consumed |-> used, end |-> end, bad |-> bad]

\* dechunk: as many whole chunks as have arrived, and the bytes they took.
Dechunk[buf \in Seq(Bytes)] ==
  LET eol  == Find(buf, <<CR, LF>>)
      size == buf[1] - Digit(0)
      used == size + 5
      more == Dechunk[Drop(buf, used)]
  IN IF eol = 0 THEN Undecoded(0, FALSE, FALSE)
     ELSE IF eol # 2 \/ size \notin 0 .. 9 THEN Undecoded(0, FALSE, TRUE)
     ELSE IF size = 0 THEN Undecoded(3, TRUE, FALSE)
     ELSE IF Len(buf) < used THEN Undecoded(0, FALSE, FALSE)
     ELSE IF SubSeq(buf, used - 1, used) # <<CR, LF>> THEN Undecoded(0, FALSE, TRUE)
     ELSE [data |-> SubSeq(buf, 4, used - 2) \o more.data, consumed |-> used + more.consumed,
           end |-> more.end, bad |-> more.bad]

\* split_sse_frames: the complete frames, and the tail that is kept.
SplitFrames[buf \in Seq(Bytes)] ==
  LET i    == Find(buf, <<LF, LF>>)
      more == SplitFrames[Drop(buf, i + 1)]
  IN IF i = 0 THEN [frames |-> <<>>, rest |-> buf]
     ELSE [frames |-> <<SubSeq(buf, 1, i - 1)>> \o more.frames, rest |-> more.rest]

\* decode_event: the event a frame carries, 0 for a keep-alive (a frame without
\* data), -1 for a frame that is logged as unreadable.
DecodeEvent(frame) ==
  LET json == {i \in DOMAIN frame : frame[i] > JSONBASE}
  IN IF DATA \notin ToSet(frame) \/ json = {} THEN 0
     ELSE IF \E i, j \in json : i # j THEN -1
     ELSE frame[CHOOSE i \in json : TRUE] - JSONBASE

\* The outcomes of a body's complete frames, keep-alives left out.
Outcomes[frames \in Seq(Seq(Bytes))] ==
  LET event == DecodeEvent(Head(frames))
      more  == Outcomes[Tail(frames)]
  IN IF frames = <<>> THEN <<>>
     ELSE (IF event = 0 THEN <<>> ELSE <<event>>) \o more

----------------------------------------------------------------------------
VARIABLES chan,      \* the supervisor's channel
          made,      \* events made so far (the newest event's number)
          ring,      \* the lines broadcast so far; the last RingCap are kept
          cursor,    \* lines the subscriber has taken or skipped, -1: no subscriber
          missed,    \* the subscriber of this connection was told it lagged
          wire,      \* bytes written by the server and not yet read
          closed,    \* the server's side of the connection is closed
          phase,     \* the session: "down", "asked" or "body"
          socket,    \* undecoded bytes of the session
          body,      \* the tail of the de-chunked body
          delivered, \* events sent to the window, and -1 for each unreadable frame
          stalled,   \* the viewer has stopped reading (a suspended machine)
          since,     \* history: Len(ring) when this subscription began
          got,       \* history: the bytes read since the session last held none
          base,      \* history: Len(delivered) at that moment
          garbled,   \* history: this connection was sent a garbled chunk
          faults     \* counts broken connections and garbled chunks

server  == <<chan, made, ring>>
conn    == <<cursor, missed, since>>
session == <<phase, socket, body, delivered, got, base>>
vars    == <<server, conn, session, wire, closed, garbled, faults, stalled>>

Init ==
  /\ chan = <<>> /\ made = 0 /\ ring = <<>>
  /\ cursor = -1 /\ missed = FALSE /\ since = 0
  /\ wire = <<>> /\ closed = FALSE
  /\ phase = "down" /\ socket = <<>> /\ body = <<>> /\ delivered = <<>>
  /\ got = <<>> /\ base = 0
  /\ garbled = FALSE /\ faults = 0 /\ stalled = FALSE

----------------------------------------------------------------------------
(* The server. *)

\* A sampler's tx.send(..).await: it waits for a slot.
Sample ==
  /\ made < MaxEvents /\ Len(chan) < ChanCap
  /\ made' = made + 1
  /\ chan' = Append(chan, made + 1)
  /\ UNCHANGED <<ring, conn, session, wire, closed, garbled, faults, stalled>>

\* announce_hosts and announce_settings: try_send, the notice is lost on a full channel.
Notice ==
  /\ made < MaxEvents
  /\ made' = made + 1
  /\ chan' = IF Len(chan) < ChanCap THEN Append(chan, made + 1) ELSE chan
  /\ UNCHANGED <<ring, conn, session, wire, closed, garbled, faults, stalled>>

\* FAULT: the feed task waits until the slowest browser has taken the oldest line.
FeedWaits ==
  /\ chan # <<>>
  /\ cursor = -1 \/ Len(ring) - cursor < RingCap
  /\ ring' = Append(ring, Head(chan))
  /\ chan' = Tail(chan)
  /\ UNCHANGED <<made, conn, session, wire, closed, garbled, faults, stalled>>

\* The feed task: the channel is emptied into the broadcast ring, which never waits.
Feed ==
  /\ chan # <<>>
  /\ ring' = Append(ring, Head(chan))
  /\ chan' = Tail(chan)
  /\ UNCHANGED <<made, conn, session, wire, closed, garbled, faults, stalled>>

\* GET /api/events: subscribe, then the head.  Something in front of the server
\* may answer for it with another status.
Accept(status) ==
  /\ phase = "asked" /\ cursor = -1 /\ ~closed
  /\ wire' = HeadOf(status)
  /\ IF status = GOOD
     THEN cursor' = Len(ring) /\ since' = Len(ring) /\ closed' = FALSE
     ELSE closed' = TRUE /\ UNCHANGED <<cursor, since>>
  /\ missed' = FALSE
  /\ UNCHANGED <<server, session, garbled, faults, stalled>>

Subscribed == cursor # -1 /\ ~closed
Oldest == IF Len(ring) > RingCap THEN Len(ring) - RingCap ELSE 0

\* FAULT: a lagging subscriber starts again at the newest line.
LaggedToNewest ==
  /\ Subscribed /\ cursor < Oldest
  /\ cursor' = Len(ring) /\ missed' = TRUE
  /\ UNCHANGED <<server, since, session, wire, closed, garbled, faults, stalled>>

\* RecvError::Lagged: the missed lines are skipped and the loop goes on.
Lagged ==
  /\ Subscribed /\ cursor < Oldest
  /\ cursor' = Oldest /\ missed' = TRUE
  /\ UNCHANGED <<server, since, session, wire, closed, garbled, faults, stalled>>

\* FAULT: a lag is not noticed: the subscriber reads the slot it left off at,
\* which a newer line has overwritten.
SendOverwritten ==
  /\ Subscribed /\ cursor < Len(ring) /\ Len(wire) < WireCap
  /\ \E i \in Oldest + 1 .. Len(ring) : \E bytes \in Cuts(Line(ring[i])) :
       i % RingCap = (cursor + 1) % RingCap /\ wire' = wire \o bytes
  /\ cursor' = cursor + 1
  /\ UNCHANGED <<server, missed, since, session, closed, garbled, faults, stalled>>

\* The next line of the subscriber, once the socket takes it.
Send ==
  /\ Subscribed /\ cursor \in Oldest .. Len(ring) - 1 /\ Len(wire) < WireCap
  /\ \E bytes \in Cuts(Line(ring[cursor + 1])) : wire' = wire \o bytes
  /\ cursor' = cursor + 1
  /\ UNCHANGED <<server, missed, since, session, closed, garbled, faults, stalled>>

\* A keep-alive, when there is nothing to send.
KeepAlive ==
  /\ Subscribed /\ cursor = Len(ring) /\ wire = <<>>
  /\ wire' = Chunk(Comment)
  /\ UNCHANGED <<server, conn, session, closed, garbled, faults, stalled>>

\* The server ends the body (the broadcast is closed), or dies: then what was
\* written still arrives or, after a reset, does not.
Ends ==
  /\ Subscribed /\ faults < MaxFaults
  /\ \/ wire' = wire \o LastChunk
     \/ wire' \in {wire, <<>>}
  /\ closed' = TRUE /\ faults' = faults + 1
  /\ UNCHANGED <<server, conn, session, garbled, stalled>>

\* A length line that does not fit its chunk.
Garble ==
  /\ Subscribed /\ faults < MaxFaults /\ ~garbled /\ cursor \in Oldest .. Len(ring) - 1
  /\ \E bytes \in Garbled(Line(ring[cursor + 1])) : wire' = wire \o bytes
  /\ cursor' = cursor + 1 /\ garbled' = TRUE /\ faults' = faults + 1
  /\ UNCHANGED <<server, missed, since, session, closed, stalled>>

----------------------------------------------------------------------------
(* The viewer. *)

\* A new session: connect, the request.
Connect ==
  /\ phase = "down"
  /\ phase' = "asked" /\ socket' = <<>> /\ body' = <<>>
  /\ got' = <<>> /\ base' = Len(delivered)
  /\ wire' = <<>> /\ closed' = FALSE /\ garbled' = FALSE
  /\ cursor' = -1 /\ missed' = FALSE /\ since' = Len(ring)
  /\ UNCHANGED <<server, delivered, faults, stalled>>

HangUp ==      \* session returns; the server's task for this connection is dropped
  /\ phase' = "down"
  /\ UNCHANGED <<server, conn, garbled, faults, stalled>>

\* FAULT: the tail of the body is not kept for the next read.
DigestDropsTail(held, tail) ==
  LET d == Dechunk[held]
      s == SplitFrames[d.data]
  IN [bad |-> d.bad, end |-> d.end, socket |-> Drop(held, d.consumed),
      body |-> s.rest, events |-> Outcomes[s.frames]]

\* What one pass of the session's loop makes of the bytes it holds after a read.
Digest(held, tail) ==
  LET d == Dechunk[held]
      s == SplitFrames[tail \o d.data]
  IN [bad |-> d.bad, end |-> d.end, socket |-> Drop(held, d.consumed),
      body |-> s.rest, events |-> Outcomes[s.frames]]

Listening == phase \in {"asked", "body"} /\ ~stalled

\* The head has not fully arrived: nothing is parsed.
HoldsHead(all) ==
  /\ phase = "asked" /\ SplitHead(all).tag = "partial"
  /\ socket' = all
  /\ UNCHANGED <<server, conn, phase, body, delivered, got, base, closed, garbled, faults, stalled>>

\* What is left to decode after a read: the head, if it was missing, is gone.
Held(all) == {Drop(all, h.used) : h \in {x \in {SplitHead(all)} : x.tag = "ok"}}
AfterHead(all) == IF phase = "body" THEN {all} ELSE Held(all)

\* Chunks, frames and events; the loop goes on.
Decodes(held, n) ==
  \E out \in {Digest(held, body)} :
    /\ ~out.bad /\ ~out.end
    /\ phase' = "body"
    /\ socket' = out.socket /\ body' = out.body
    /\ delivered' = delivered \o out.events
    /\ IF out.socket = <<>> /\ out.body = <<>>
       THEN got' = <<>> /\ base' = Len(delivered')
       ELSE got' = got \o (IF phase = "asked" THEN held ELSE SubSeq(wire, 1, n))
            /\ UNCHANGED base
    /\ UNCHANGED <<server, conn, closed, garbled, faults, stalled>>

\* A head with another status, an error in a chunk or the last chunk: the session
\* returns, after the last chunk with the events it had decoded.
Returns(all) ==
  /\ closed' = TRUE
  /\ \/ /\ phase = "asked" /\ SplitHead(all).tag = "refused"
        /\ UNCHANGED delivered
     \/ \E held \in AfterHead(all) : \E out \in {Digest(held, body)} :
          /\ out.bad \/ out.end
          /\ delivered' = IF out.bad THEN delivered ELSE delivered \o out.events
  /\ socket' = <<>> /\ body' = <<>> /\ got' = <<>> /\ base' = Len(delivered')
  /\ HangUp

\* One read of the socket, n bytes, and all the loop does with them.
Read(n) ==
  /\ Listening /\ n \in 1 .. Len(wire)
  /\ LET all == socket \o SubSeq(wire, 1, n) IN
     \/ /\ wire' = Drop(wire, n)
        /\ HoldsHead(all) \/ \E held \in AfterHead(all) : Decodes(held, n)
     \/ wire' = <<>> /\ Returns(all)

\* A read of nothing: the connection is closed.
ReadsEnd ==
  /\ Listening /\ wire = <<>> /\ closed
  /\ UNCHANGED <<wire, closed, socket, body, delivered, got, base>>
  /\ HangUp

\* The viewer stops reading for good, and the connection stays.
Stalls ==
  /\ ~stalled /\ stalled' = TRUE
  /\ UNCHANGED <<server, conn, session, wire, closed, garbled, faults>>

Next ==
  \/ Sample \/ Notice \/ Feed
  \/ \E s \in {GOOD, REFUSAL} : Accept(s)
  \/ Lagged \/ Send \/ KeepAlive \/ Ends \/ Garble
  \/ Connect \/ ReadsEnd \/ Stalls
  \/ \E n \in 1 .. Len(wire) : Read(n)

\* The server's tasks and the viewer's loop run when they can; how much one read
\* returns, and whether anything breaks, is nobody's promise.
Fairness ==
  /\ WF_vars(Feed) /\ WF_vars(Accept(GOOD)) /\ WF_vars(Lagged) /\ WF_vars(Send) /\ WF_vars(KeepAlive)
  /\ WF_vars(Connect) /\ WF_vars(ReadsEnd)
  /\ WF_vars(\E n \in 1 .. Len(wire) : Read(n))

Spec == Init /\ [][Next]_vars /\ Fairness

----------------------------------------------------------------------------
(* Properties *)

Increasing(s) == \A i, j \in DOMAIN s : i < j => s[i] < s[j]

(* The window gets the server's events in the order they were broadcast,   *)
(* each at most once over all its connections, whatever chunk, read, lag   *)
(* or broken connection came in between, and never a frame it cannot read  *)
(* or an event nobody sent - not even from a chunk whose length is wrong.  *)
InOrderOnce == Increasing(delivered) /\ ToSet(delivered) \subseteq ToSet(ring)

(* How the bytes were cut into reads makes no difference: what the session *)
(* has kept and delivered is what one decode of all the bytes would give.  *)
CutsDoNotMatter ==
  phase = "body" =>
    LET d == Dechunk[got]
        s == SplitFrames[d.data]
    IN /\ socket = Drop(got, d.consumed) /\ body = s.rest
       /\ SubSeq(delivered, base + 1, Len(delivered)) = Outcomes[s.frames]

(* Once everything written is read the session holds no remains, and a     *)
(* subscriber that never lagged has passed on every line broadcast since   *)
(* it subscribed: nothing is lost between the two programs but by a lag.   *)
NothingLostBetween ==
  phase = "body" /\ wire = <<>> /\ ~closed /\ ~garbled =>
    /\ socket = <<>> /\ body = <<>>
    /\ ~missed => ToSet(SubSeq(ring, since + 1, cursor)) \subseteq ToSet(delivered)

(* A browser that stops reading never holds up the samplers: a full        *)
(* channel always drains (main.rs:241, "rather than stalling the samplers  *)
(* behind it").                                                            *)
SamplersGoOn == Len(chan) = ChanCap ~> Len(chan) < ChanCap

(* A window that stays connected and goes on reading sees the newest event *)
(* in the end, also after it lagged.                                       *)
CatchesUp ==
  <>[](phase = "body" /\ ~stalled) =>
    <>[](chan = <<>> /\ (Len(ring) > since => delivered # <<>> /\ Last(delivered) = Last(ring)))
=============================================================================
