---------------------------- MODULE FrameStream ----------------------------
(***************************************************************************)
(* FrameStreamParser (frame_stream_parser.cpp): bytes that arrive in       *)
(* chunks cut anywhere become frames, and every event names the chunk its  *)
(* first byte came with.  consume() is one step: the parser belongs to one *)
(* source, and the pipeline feeds it from one thread.  The decoder of the  *)
(* Agent protocol, StreamDecoder (agent_protocol.cpp), has the same loop.  *)
(***************************************************************************)
EXTENDS ProtocolDefinition

CONSTANTS
    Definitions,   \* the protocols that may be configured
    Chunks,        \* the payloads that may arrive
    MaxBytes       \* bound, by definition: bytes between two clearings of the buffer

ASSUME DefinitionsAreValid == \A d \in Definitions : ProtocolType(d) /\ ValidProtocol(d)
ASSUME ChunksAreNotEmpty == Chunks \subseteq Seq(Nat) \ {<<>>}

VARIABLES
    definition,    \* definition_
    buffer,        \* buffer_
    segments,      \* segments_: how many bytes of the buffer came with which chunk
    events,        \* what consume() has returned so far
    arrived,       \* the sequence number of the last chunk
    stream,        \* history: <<byte, number of its chunk>> since the last clearing of the buffer
    parsedBefore   \* history: how many events are from before it

streamVars == <<definition, buffer, segments, events, arrived, stream, parsedBefore>>

----------------------------------------------------------------------------
(* The state of one call of consume(), threaded through its loop. *)

(* frontContext() *)
FrontChunk(p) == IF p.segments = <<>> THEN 0 ELSE p.segments[1].chunk

(* The sums of the first numbers of a sequence. *)
Sums(numbers) ==
    LET sum[i \in 0..Len(numbers)] == IF i = 0 THEN 0 ELSE sum[i - 1] + numbers[i]
    IN  sum

(* How many bytes the first i segments have. *)
Arriving(s) == Sums([i \in DOMAIN s |-> s[i].count])

(* A mutant: a segment that is used up stays, with no bytes. *)
UsedUpStays(s, count) == Max({0} \cup {i \in 0..Len(s) : Arriving(s)[i] < count})

(* How many segments are gone when the first `count' bytes are. *)
UsedUp(s, count) == Max({i \in 0..Len(s) : Arriving(s)[i] <= count})

(* consumeBufferedBytes(): the segments that are left, the first without its bytes that are gone. *)
DropSegments(s, count) ==
    LET gone == UsedUp(s, count)
    IN  [i \in 1..(Len(s) - gone) |->
            [s[gone + i] EXCEPT !.count = IF i = 1 THEN Arriving(s)[gone + 1] - count ELSE @]]

Taken(p, count) ==
    [p EXCEPT !.buffer = SubSeq(@, count + 1, Len(@)), !.segments = DropSegments(@, count)]

(* One event about the first `shown' bytes, of which `count' leave the buffer. *)
Reported(p, kind, shown, count) ==
    Taken([p EXCEPT !.events = Append(@, [kind |-> kind, chunk |-> FrontChunk(p), consumed |-> count,
                                          bytes |-> SubSeq(p.buffer, 1, shown)])], count)

(* discardGarbage() *)
Discarded(p, count) == IF count = 0 THEN p ELSE Reported(p, "garbage", count, count)

HeaderAt(d, b, i) == i + Len(d.header) <= Len(b) /\ SubSeq(b, i + 1, i + Len(d.header)) = d.header

(* partialHeaderSuffix() *)
PartialHeader(d, b) ==
    Max({0} \cup {n \in 1..Min({Len(b), Len(d.header) - 1}) :
                     SubSeq(b, Len(b) - n + 1, Len(b)) = SubSeq(d.header, 1, n)})

(* A mutant: a damaged frame is dropped whole. *)
WholeFrame(length) == length

(* How much of a damaged frame of this length is given up before the next header is looked for. *)
DamagedBytes(length) == 1

(* What the loop does with a buffer that starts with the header, and how many bytes it takes. *)
FrameVerdict(d, b) ==
    LET size == FrameLength(d, b)
    IN  CASE size.verdict = "more" -> [kind |-> "more", consumed |-> 0]
          [] size.verdict = "error" -> [kind |-> "length", consumed |-> 1]
          [] OTHER ->
               IF Len(b) < size.length THEN [kind |-> "more", consumed |-> 0]
               ELSE LET frame == SubSeq(b, 1, size.length)
                    IN  IF ~ChecksumMatches(d, frame) THEN [kind |-> "checksum",
                                                             consumed |-> DamagedBytes(size.length)]
                        ELSE [kind |-> IF Decodes(d, frame) THEN "frame" ELSE "decode",
                              consumed |-> size.length]

(* One turn of the loop of consume(): what it makes of the buffer, and whether it goes on. *)
Turn(d, loop) ==
    LET p == loop.at
        starts == {i \in 0..(Len(p.buffer) - 1) : HeaderAt(d, p.buffer, i)}
        v == FrameVerdict(d, p.buffer)
    IN  IF ~loop.goesOn THEN loop
        ELSE IF starts = {}
        THEN [at |-> Discarded(p, Len(p.buffer) - PartialHeader(d, p.buffer)), goesOn |-> FALSE]
        ELSE IF Min(starts) > 0 THEN [at |-> Discarded(p, Min(starts)), goesOn |-> TRUE]
        ELSE IF v.kind = "more" THEN [at |-> p, goesOn |-> FALSE]
        ELSE [at |-> Reported(p, v.kind,
                              IF v.kind = "length" THEN Min({Len(p.buffer), Len(d.header) + 8})
                              ELSE FrameLength(d, p.buffer).length,
                              v.consumed),
              goesOn |-> TRUE]

(* The loop: a turn that goes on has taken a byte, so there is one turn more than bytes. *)
Turns(d, p) ==
    LET run[k \in 0..(Len(p.buffer) + 1)] ==
            IF k = 0 THEN [at |-> p, goesOn |-> TRUE] ELSE Turn(d, run[k - 1])
    IN  run
Parsed(d, p) == Turns(d, p)[Len(p.buffer) + 1].at

----------------------------------------------------------------------------
(* Actions *)

StreamInit ==
    /\ definition \in Definitions
    /\ buffer = <<>> /\ segments = <<>> /\ events = <<>>
    /\ arrived = 0 /\ stream = <<>> /\ parsedBefore = 0

SafetyLimit == 4 * definition.maximum

Arrived(payload) == [i \in 1..Len(payload) |-> <<payload[i], arrived + 1>>]

Now == [buffer |-> buffer, segments |-> segments, events |-> events]

(* A chunk that the limit refuses: the buffer and then the chunk itself are discarded. *)
RefuseChunk(payload) ==
    /\ Len(payload) > SafetyLimit
    /\ arrived' = arrived + 1
    /\ LET cleared == Discarded(Now, Len(buffer))
       IN  events' = Append(cleared.events, [kind |-> "oversize", chunk |-> arrived + 1,
                                             consumed |-> Len(payload), bytes |-> payload])
    /\ buffer' = <<>> /\ segments' = <<>>
    /\ stream' = <<>> /\ parsedBefore' = Len(events')
    /\ UNCHANGED definition

(* A chunk that is parsed.  If it does not fit behind the buffer, that is given up before. *)
Crowded(payload) == Len(buffer) > SafetyLimit - Len(payload)
AcceptChunk(payload) ==
    /\ Len(payload) <= SafetyLimit
    /\ arrived' = arrived + 1
    /\ LET start == IF Crowded(payload) THEN Discarded(Now, Len(buffer)) ELSE Now
           next == Parsed(definition,
                          [buffer |-> start.buffer \o payload,
                           segments |-> Append(start.segments, [count |-> Len(payload),
                                                                chunk |-> arrived + 1]),
                           events |-> start.events])
       IN  /\ buffer' = next.buffer /\ segments' = next.segments /\ events' = next.events
           /\ stream' = (IF Crowded(payload) THEN <<>> ELSE stream) \o Arrived(payload)
           /\ parsedBefore' = IF Crowded(payload) THEN Len(start.events) ELSE parsedBefore
    /\ UNCHANGED definition

Consume ==
    \E payload \in Chunks :
        \/ events = <<>> /\ RefuseChunk(payload)              \* bound: before any other event
        \/ /\ \/ Len(stream) + Len(payload) <= MaxBytes[definition]
              \/ events = <<>> /\ Crowded(payload)            \* bound: the same
           /\ AcceptChunk(payload)

----------------------------------------------------------------------------
(* Properties *)

Recent == SubSeq(events, parsedBefore + 1, Len(events))
Bytes(s) == [i \in 1..Len(s) |-> s[i][1]]

(* The reference: what a parser that has the whole stream in front of it would do at an
   offset, from which on it sees the bytes `rest', whatever else is in its buffer. *)
PrefixFits(d, rest) ==
    LET n == Min({Len(d.header), Len(rest)})
    IN  SubSeq(rest, 1, n) = SubSeq(d.header, 1, n)

Judgement(d, rest) ==
    LET size == FrameLength(d, rest)
        frame == SubSeq(rest, 1, size.length)
    IN  IF ~PrefixFits(d, rest) THEN [kind |-> "garbage", consumed |-> 1]
        ELSE IF \/ Len(rest) < Len(d.header)
                \/ size.verdict = "more"
                \/ size.verdict = "known" /\ Len(rest) < size.length
        THEN [kind |-> "more", consumed |-> 0]
        ELSE IF size.verdict = "known" /\ ChecksumMatches(d, frame)
        THEN [kind |-> IF Decodes(d, frame) THEN "frame" ELSE "decode", consumed |-> size.length]
        ELSE [kind |-> IF size.verdict = "error" THEN "length" ELSE "checksum", consumed |-> 1]

JudgedAt(d, bytes, i) == Judgement(d, SubSeq(bytes, i + 1, Len(bytes)))

(* The offsets that parser comes to, from the first byte on, and those at which it has a verdict. *)
Reached(d, bytes) ==
    LET reached[i \in 0..Len(bytes)] ==
            \/ i = 0
            \/ \E j \in 0..(i - 1) : /\ reached[j]
                                     /\ JudgedAt(d, bytes, j).kind # "more"
                                     /\ j + JudgedAt(d, bytes, j).consumed = i
    IN  reached
Visited(d, bytes) ==
    {i \in 0..(Len(bytes) - 1) : Reached(d, bytes)[i] /\ JudgedAt(d, bytes, i).kind # "more"}

(* How many bytes of the stream the first n of these events took. *)
Offsets(reports) == Sums([n \in DOMAIN reports |-> reports[n].consumed])

(* However the stream is cut into chunks, the frames, decode errors and damaged frames found in
   it are those of the whole stream, each at its place: the buffer, the half header it keeps
   (frame_stream_parser.cpp:104-110) and the resynchronisation one byte after a damaged frame
   (147) lose nothing and invent nothing. *)
FramesMatchStream ==
    LET bytes == Bytes(stream)
    IN  {<<Offsets(Recent)[n - 1], Recent[n].kind>> :
            n \in {m \in DOMAIN Recent : Recent[m].kind # "garbage"}}
        = {<<i, JudgedAt(definition, bytes, i).kind>> :
            i \in {j \in Visited(definition, bytes) : JudgedAt(definition, bytes, j).kind # "garbage"}}

(* Every byte is in the buffer or left it with exactly one event, in the order of arrival; the event
   names the chunk in which its first byte arrived (consumeBufferedBytes, 296-308), so its
   timestamps are not those of the chunk that completed it; and less than a frame ever waits, so
   that the limit of consume() (70-90) clears a buffer only before a chunk of more than three. *)
EveryByteOnce ==
    LET consumed == Offsets(Recent)
    IN  /\ buffer = SubSeq(Bytes(stream), consumed[Len(Recent)] + 1, Len(stream))
        /\ \A n \in DOMAIN Recent : Recent[n].chunk = stream[consumed[n - 1] + 1][2]
        /\ Len(buffer) < definition.maximum
=============================================================================
