------------------------- MODULE ProtocolDefinition -------------------------
(***************************************************************************)
(* A frame protocol as the user configures it: header, fixed length or     *)
(* length field, fields and checksum (protocol_definition.cpp), what       *)
(* validateProtocol() accepts, and how one frame is measured, verified     *)
(* (checksum.cpp) and decoded (protocol_decoder.cpp).                      *)
(*                                                                         *)
(* Offsets count from 0 as in the code; a byte is a number below Radix,    *)
(* and a length field and a checksum are one byte wide.  Names, units,     *)
(* scaling and enumerations do not appear.                                 *)
(***************************************************************************)
EXTENDS Naturals, Integers, Sequences, FiniteSets, FiniteSetsExt, SequencesExt

CONSTANTS
    Radix,      \* how many values a byte has
    Infinite    \* the byte that a float field reads as infinity or NaN

absent == -1    \* an empty std::optional

ByteAt(bytes, offset) == bytes[offset + 1]

FieldEnd(field) == field.offset + field.width

(* The ranges that a definition gives a meaning to, each as a set of offsets. *)
Span(offset, width) == {offset + i : i \in 0..(width - 1)}
FieldSpans(d) == [f \in d.fields |-> Span(f.offset, f.width)]

ChecksumWidth(d) == IF d.checksum.kind = "none" THEN 0 ELSE 1

(* What ProtocolDefinition can hold. *)
ProtocolType(d) ==
    /\ d.header \in Seq(Nat) /\ d.maximum \in Nat
    /\ d.fixed \in Nat \cup {absent} /\ d.lengthOffset \in Nat \cup {absent}
    /\ d.adjustment \in Int

(* validateProtocol() *)
LengthIsLimited(d) ==
    /\ d.header # <<>> /\ d.maximum > 0
    /\ (d.fixed = absent) # (d.lengthOffset = absent)
    /\ d.fixed # absent => d.fixed >= Len(d.header) /\ d.fixed <= d.maximum
    /\ d.lengthOffset # absent => d.lengthOffset + 1 <= d.maximum

FieldsFit(d) ==
    \A f \in d.fields :
        /\ f.width > 0 /\ FieldEnd(f) <= d.maximum
        /\ f.offset >= Len(d.header)
        /\ d.fixed # absent => FieldEnd(f) <= d.fixed

NothingOverlaps(d) ==
    /\ \A f, g \in d.fields : f # g => FieldSpans(d)[f] \cap FieldSpans(d)[g] = {}
    /\ d.lengthOffset # absent =>
         /\ d.lengthOffset >= Len(d.header)
         /\ \A f \in d.fields : d.lengthOffset \notin FieldSpans(d)[f]
    /\ ChecksumWidth(d) > 0 /\ d.checksum.offset # absent =>
         \A f \in d.fields : d.checksum.offset \notin FieldSpans(d)[f]

ChecksumFits(d) ==
    /\ d.fixed # absent /\ d.checksum.offset # absent =>
         d.checksum.offset + ChecksumWidth(d) <= d.fixed
    /\ d.fixed # absent => ChecksumWidth(d) <= d.fixed
    /\ d.checksum.length # absent => d.checksum.start + d.checksum.length <= d.maximum

ValidProtocol(d) == LengthIsLimited(d) /\ FieldsFit(d) /\ NothingOverlaps(d) /\ ChecksumFits(d)

(* minimumFrameLength(): a checksum without an offset of its own follows what is required. *)
RequiredLength(d) ==
    LET required == Max({Len(d.header)}
                        \cup {d.lengthOffset + 1}
                        \cup {FieldEnd(f) : f \in d.fields})
    IN  IF ChecksumWidth(d) = 0 THEN required
        ELSE IF d.checksum.offset # absent
        THEN Max({required, d.checksum.offset + ChecksumWidth(d)})
        ELSE required + ChecksumWidth(d)

LengthRefused == "error"

(* determineFrameLength(): "more" while the length field has not arrived, "error" for a
   length outside the limits. *)
FrameLength(d, buffer) ==
    IF d.fixed # absent THEN [verdict |-> "known", length |-> d.fixed]
    ELSE IF Len(buffer) < d.lengthOffset + 1 THEN [verdict |-> "more", length |-> 0]
    ELSE LET length == ByteAt(buffer, d.lengthOffset) + d.adjustment
         IN  IF length <= 0 \/ length > d.maximum \/ length < RequiredLength(d)
             THEN [verdict |-> LengthRefused, length |-> 0]
             ELSE [verdict |-> "known", length |-> length]

(* verifyFrameChecksum() *)
ChecksumMatches(d, frame) ==
    LET offset == IF d.checksum.offset # absent THEN d.checksum.offset ELSE Len(frame) - 1
        length == IF d.checksum.length # absent THEN d.checksum.length
                  ELSE Max({offset - d.checksum.start, 0})
        input == SubSeq(frame, d.checksum.start + 1, d.checksum.start + length)
    IN  \/ d.checksum.kind = "none"
        \/ /\ offset < Len(frame)
           /\ d.checksum.start + length <= Len(frame)
           /\ FoldLeft(LAMBDA sum, b : (sum + b) % Radix, 0, input) = ByteAt(frame, offset)

(* decodeProtocolFrame(): only a value that is not finite, and a field outside the frame, fail. *)
Decodes(d, frame) ==
    \A f \in d.fields :
        /\ FieldEnd(f) <= Len(frame)
        /\ f.kind = "float" => \A i \in FieldSpans(d)[f] : ByteAt(frame, i) # Infinite
=============================================================================
