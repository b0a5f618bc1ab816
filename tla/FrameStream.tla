----------------------------- MODULE FrameStream -----------------------------
(***************************************************************************)
(* The read loop of tokio_util's Framed as handle_connection polls it:     *)
(* while the buffer may hold a frame the codec is called, else more bytes  *)
(* are read; at the end of the stream the rest is decoded, and what cannot *)
(* be is an error.  The first error or end makes the handler return.       *)
(* Dropping the future of framed.next() (another branch of select! won)    *)
(* loses nothing: all of this state lives in framed.                       *)
(***************************************************************************)
EXTENDS Framing

VARIABLES
    script,    \* what the client writes
    wire,      \* the bytes of it that have not arrived
    buf,       \* the buffer of framed
    pending,   \* ScrutinyCodec::pending
    readable,  \* framed has not yet asked the codec about the buffer
    eof,       \* the client has closed
    out,       \* history: the frames handed to dispatch
    ended      \* "no", or how framed.next() ended: "closed", "error", "panicked"

streamVars == <<script, wire, buf, pending, readable, eof, out, ended>>

BytesOf(s) == FlattenSeq([i \in 1..Len(s) |-> s[i].bytes])

Init ==
    /\ script \in Scripts
    /\ wire = BytesOf(script)
    /\ buf = <<>>
    /\ pending = NoFrame
    /\ readable = FALSE
    /\ eof = FALSE
    /\ out = <<>>
    /\ ended = "no"

(* poll_read yields some bytes.                                            *)
Read ==
    /\ ended = "no" /\ ~readable /\ ~eof
    /\ \E n \in 1..Len(wire) :
          /\ buf' = buf \o SubSeq(wire, 1, n)
          /\ wire' = From(wire, n + 1)
    /\ readable' = TRUE
    /\ UNCHANGED <<script, pending, eof, out, ended>>

(* poll_read yields nothing: the client has closed, or is gone.            *)
ReadEnd ==
    /\ ended = "no" /\ ~readable /\ ~eof
    /\ eof' = TRUE
    /\ readable' = TRUE
    /\ UNCHANGED <<script, wire, buf, pending, out, ended>>

(* The codec finds a frame; it will be asked again.                        *)
DecodeFrame ==
    /\ ended = "no" /\ readable
    /\ LET d == decode(buf, pending)
       IN  /\ d.got = "frame"
           /\ buf' = d.buf
           /\ pending' = d.pending
           /\ out' = Append(out, d.frame)
    /\ UNCHANGED <<script, wire, readable, eof, ended>>

(* It needs more bytes; there are none to come once the client has closed. *)
DecodeNothing ==
    /\ ended = "no" /\ readable
    /\ LET d == decode(buf, pending)
       IN  /\ d.got = "nothing"
           /\ buf' = d.buf
           /\ pending' = d.pending
           /\ ended' = IF ~eof THEN "no" ELSE IF d.buf = <<>> THEN "closed" ELSE "error"
    /\ readable' = FALSE
    /\ UNCHANGED <<script, wire, eof, out>>

DecodeError ==
    /\ ended = "no" /\ readable
    /\ LET d == decode(buf, pending)
       IN  /\ d.got = "error"
           /\ buf' = d.buf
           /\ pending' = d.pending
    /\ ended' = "error"
    /\ UNCHANGED <<script, wire, readable, eof, out>>

(* The codec panics: at once in a debug build when the sum of the lengths  *)
(* overflows, in a release build when it slices.  It unwinds the handler   *)
(* and run.                                                                *)
DecodePanics ==
    /\ ended = "no" /\ readable
    /\ LET d == decode(buf, pending)
       IN  d.got = "panic" \/ (d.got = "nothing" /\ Total(d.pending) > MaxUsize)
    /\ ended' = "panicked"
    /\ UNCHANGED <<script, wire, buf, pending, readable, eof, out>>

(* The handler has returned and dropped framed.                            *)
Ended == ended # "no" /\ UNCHANGED streamVars

Next ==
    Read \/ ReadEnd \/ DecodeFrame \/ DecodeNothing \/ DecodeError \/ DecodePanics \/ Ended

Spec == Init /\ [][Next]_streamVars

-----------------------------------------------------------------------------
(* What the client wrote.                                                  *)

Received == Len(BytesOf(script)) - Len(wire)

(* The intact frames among the items before the first damaged one.         *)
Good == {i \in 1..Len(script) : \A j \in 1..i : script[j].kind # "damaged"}
FramesIn(S) == FlattenSeq([i \in 1..Len(script) |->
    IF i \in S /\ script[i].kind = "frame" THEN <<script[i].payload>> ELSE <<>>])

(* Those that have arrived with their last byte.                           *)
Arrived == {i \in Good : Len(BytesOf(SubSeq(script, 1, i))) <= Received}

(* b is one frame, of which every length is what the header says.          *)
Framed(b, t, data, digest) ==
    /\ <<t, ">">> \in Seq(Symbols) /\ digest \in Seq(Symbols)
    /\ Fields[t].data_size = Len(data) /\ Len(digest) = DigestSize(Fields[t])
    /\ Len(b) <= MaxUsize
    /\ b = PREFIX \o (<<t, ">">> \o (data \o digest))

(* A frame that decode ought to take.                                      *)
IsIntact(item) ==
    /\ item.kind = "frame"
    /\ \E t \in DOMAIN Fields :
          /\ Framed(item.bytes, t, item.payload,
                    IF Fields[t].use_hash THEN Digest(item.payload) ELSE <<>>)
          /\ Decodes(item.payload, Fields[t].compressed)

(* The script begins with n such frames.                                   *)
Leads(n) == \A i \in 1..n : IsIntact(script[i])

-----------------------------------------------------------------------------
(* Every variable keeps to its domain; what the buffer and the network     *)
(* hold is the end of what the client wrote.                               *)
TypeOK ==
    /\ pending \in [header_end : Nat, data_size : Nat, compressed : BOOLEAN,
                    use_hash : BOOLEAN]
    /\ readable \in BOOLEAN /\ eof \in BOOLEAN
    /\ ended \in {"no", "closed", "error", "panicked"}
    /\ IsSuffix(buf \o wire, BytesOf(script))

(* However the bytes are cut, dispatch gets the frames that the client     *)
(* wrote, in their order, none twice, none made up of the bytes of others  *)
(* or of a damaged one, and none that follows a damaged one.               *)
FramesInOrder == IsPrefix(out, FramesIn(Good))

(* No frame that has arrived waits for later bytes, and none is lost when  *)
(* the stream ends, unless a malformed header is in the way.               *)
FramesArePrompt ==
    /\ ~readable \/ ended # "no"
    /\ \A i \in 1..Len(script) : script[i].kind # "malformed"
    => out = FramesIn(Arrived)

(* Whatever bytes follow them, malformed ones included, the frames that a  *)
(* client's stream begins with are handed over, in order and unchanged,    *)
(* and none that has arrived waits or is lost.                             *)
LeadingFrames ==
    \A n \in 1..Len(script) : Leads(n) =>
        /\ n <= Len(out) => out[n] = script[n].payload
        /\ /\ ~readable \/ ended # "no"
           /\ Len(BytesOf(SubSeq(script, 1, n))) <= Received
           => n <= Len(out)

(* The header remembered between two calls is the one that the buffer      *)
(* begins with, so that the offsets kept in it are right.                  *)
PendingIsInBuffer ==
    pending # NoFrame =>
        /\ pending.header_end <= Len(buf)
        /\ IsPrefix(PREFIX, buf)
        /\ parse_header(buf, pending.header_end) = pending

(* A header can announce any size that fits in a usize.  One whose sum     *)
(* with the lengths of header and digest does not fit is the only way to a *)
(* panic: no other size, no cut of the bytes and no end of the stream      *)
(* makes decode slice beyond what has arrived; and nothing of such a frame *)
(* or behind it reaches dispatch (FramesInOrder).                          *)
PanicsOnlyOnOverflow ==
    ended = "panicked" =>
        LET h == IF pending = NoFrame THEN FindHeader(buf).pending ELSE pending
        IN  Total(h) > MaxUsize

(* framing.rs:85: a header that does not parse loses its first byte and    *)
(* the search is retried; decode returns instead, and a complete frame     *)
(* behind the malformed header stays in the buffer until more bytes arrive.*)
RetriesAfterMalformed ==
    ended = "no" /\ ~readable => decode(buf, pending).got # "frame"

=============================================================================
