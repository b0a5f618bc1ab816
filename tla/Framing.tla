------------------------------- MODULE Framing -------------------------------
(***************************************************************************)
(* The receiving half of a connection: ScrutinyCodec (src/framing.rs) under*)
(* the read loop of tokio_util's Framed, which calls it.                   *)
(*                                                                         *)
(* The client writes a script of items, each a few bytes: frames, damaged  *)
(* frames, stray bytes.  The network hands the bytes over in pieces of any *)
(* size, and the client may close at any byte.                             *)
(*                                                                         *)
(* Bytes are abstract symbols.  The text between the prefix and ">" is one *)
(* symbol, and Fields gives what parse_header reads in it; the JSON value  *)
(* of a frame is represented by the bytes of its payload.                  *)
(***************************************************************************)
EXTENDS Integers, Sequences, FiniteSets, SequencesExt

CONSTANTS
    PREFIX,          \* the bytes that begin a header
    Fields,          \* header texts that parse, and what they say
    HASH_SIZE,       \* the length of a digest
    MaxUsize,        \* usize::MAX
    Digest(_),       \* MD5
    Decodes(_, _),   \* a payload, compressed or not, decompresses and parses as JSON
    Scripts          \* what clients may write: sequences of items

(* An item: its bytes, and the payload it carries if it is an intact frame.*)
Stray(b) == [kind |-> "stray", bytes |-> b, payload |-> <<>>]
Damaged(b) == [kind |-> "damaged", bytes |-> b, payload |-> <<>>]
Malformed(b) == [kind |-> "malformed", bytes |-> b, payload |-> <<>>]
Frame(b, d) == [kind |-> "frame", bytes |-> b, payload |-> d]

(* The bytes that occur, and the items they make up.                       *)
Symbols == Range(PREFIX) \cup
           UNION {UNION {Range(s[i].bytes) : i \in 1..Len(s)} : s \in Scripts}
Item == [kind : {"stray", "damaged", "malformed", "frame"},
         bytes : Seq(Symbols), payload : Seq(Symbols)]

(* ">" ends a header: neither the prefix nor the text behind it has one.   *)
ASSUME FramingAssumption ==
    /\ PREFIX \in Seq(Symbols) /\ PREFIX # <<>>
    /\ ">" \notin Range(PREFIX) /\ ">" \notin DOMAIN Fields
    /\ Scripts \subseteq Seq(Item)
    /\ MaxUsize \in Nat
    /\ HASH_SIZE \in 0..MaxUsize
    /\ \A t \in DOMAIN Fields : Fields[t] \in
          [data_size : 0..MaxUsize, compressed : BOOLEAN, use_hash : BOOLEAN]

-----------------------------------------------------------------------------
(* The encoder: what both ends write.                                      *)

Header(n) == CHOOSE t \in DOMAIN Fields :
    Fields[t] = [data_size |-> n, compressed |-> TRUE, use_hash |-> TRUE]

Encode(d) == PREFIX \o <<Header(Len(d)), ">">> \o d \o Digest(d)

-----------------------------------------------------------------------------
(* The decoder, as functions of the buffer.                                *)

NoFrame == [header_end |-> 0, data_size |-> 0, compressed |-> FALSE, use_hash |-> FALSE]

From(b, i) == SubSeq(b, i, Len(b))

(* Mutant: the last place is found.                                        *)
FindLast(b, s) ==
    LET at == {i \in 1..(Len(b) - Len(s) + 1) : SubSeq(b, i, i + Len(s) - 1) = s}
    IN  IF at = {} THEN 0 ELSE Max(at)

find_subsequence(b, s) ==
    LET at == {i \in 1..(Len(b) - Len(s) + 1) : SubSeq(b, i, i + Len(s) - 1) = s}
    IN  IF at = {} THEN 0 ELSE Min(at)

(* The header of length n that b begins with; NoFrame if it does not parse *)
(* (or, what comes to the same, is not UTF-8).                             *)
parse_header(b, n) ==
    IF n = Len(PREFIX) + 2 /\ b[n - 1] \in DOMAIN Fields
    THEN LET f == Fields[b[n - 1]]
         IN  [header_end |-> n, data_size |-> f.data_size,
              compressed |-> f.compressed, use_hash |-> f.use_hash]
    ELSE NoFrame

(* Mutants: the first bytes are kept; one byte too few is kept.            *)
KeptFirst(b) == SubSeq(b, 1, Min({Len(b), Len(PREFIX) - 1}))
KeptLess(b) == From(b, Max({1, Len(b) - Len(PREFIX) + 3}))

(* Without a prefix, only the last bytes are kept: they may begin one.     *)
Kept(b) == From(b, Max({1, Len(b) - Len(PREFIX) + 2}))

(* With one, what precedes it is dropped.                                  *)
Skipped(b, start) == From(b, start)

(* Phase 1.  The header is awaited up to ">"; one that does not parse      *)
(* loses its first byte.                                                   *)
FindHeader(b) ==
    LET start == find_subsequence(b, PREFIX)
        c == Skipped(b, start)
        gt == find_subsequence(c, <<">">>)
        pf == parse_header(c, gt)
    IN  IF start = 0 THEN [buf |-> Kept(b), pending |-> NoFrame]
        ELSE IF gt = 0 THEN [buf |-> c, pending |-> NoFrame]
        ELSE [buf |-> IF pf = NoFrame THEN Tail(c) ELSE c, pending |-> pf]

Waits(b, pf) == [buf |-> b, pending |-> pf, got |-> "nothing", frame |-> <<>>]

(* Mutant: the digest is not compared.                                     *)
SoundIfDecodes(pf, data, digest) == Decodes(data, pf.compressed)

Sound(pf, data, digest) ==
    /\ pf.use_hash => digest = Digest(data)
    /\ Decodes(data, pf.compressed)

Wrapped(n) == n % (MaxUsize + 1)

DigestSize(pf) == IF pf.use_hash THEN HASH_SIZE ELSE 0
Total(pf) == pf.header_end + pf.data_size + DigestSize(pf)

(* Mutant: the digest is not waited for.                                   *)
NeededData(pf) == Wrapped(pf.header_end + pf.data_size)

(* The bytes to wait for.  A debug build panics when the sum overflows; a  *)
(* release build goes on with what is left of it.                          *)
Needed(pf) == Wrapped(Total(pf))

(* buf[from..to] panics otherwise.                                         *)
Sliceable(b, from, to) == from <= to /\ to <= Len(b)

(* Phases 2 to 4, in a release build.  The frame leaves the buffer before  *)
(* its payload is decompressed and parsed, and also when its digest is     *)
(* wrong.                                                                  *)
ExtractThen(b, pf, next) ==
    LET data_end == Wrapped(pf.header_end + pf.data_size)
        digest_end == Wrapped(data_end + DigestSize(pf))
        data == SubSeq(b, pf.header_end + 1, data_end)
        sound == Sound(pf, data, SubSeq(b, data_end + 1, digest_end))
    IN  IF Len(b) < Needed(pf) THEN Waits(b, pf)
        ELSE IF ~Sliceable(b, pf.header_end, data_end) \/ ~Sliceable(b, data_end, digest_end)
        THEN [buf |-> b, pending |-> next, got |-> "panic", frame |-> <<>>]
        ELSE [buf |-> From(b, Needed(pf) + 1), pending |-> next,
              got |-> IF sound THEN "frame" ELSE "error",
              frame |-> IF sound THEN data ELSE <<>>]

(* Mutant: the header is not forgotten with its frame.                     *)
ExtractKeepingPending(b, pf) == ExtractThen(b, pf, pf)

Extract(b, pf) == ExtractThen(b, pf, NoFrame)

decode(b, pf) ==
    LET h == IF pf = NoFrame THEN FindHeader(b) ELSE [buf |-> b, pending |-> pf]
    IN  IF h.pending = NoFrame THEN Waits(h.buf, NoFrame) ELSE Extract(h.buf, h.pending)

=============================================================================
