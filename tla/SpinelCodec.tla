------------------------------ MODULE SpinelCodec ------------------------------
(***************************************************************************)
(* The Spinel-over-HDLC client of app/spinel.py as functions on bytes: a   *)
(* request for SPINEL_PROP_NCP_VERSION is answered by a stream of bytes,   *)
(* in which the decoder looks for the frame with the answer.               *)
(*                                                                         *)
(* A byte is a number below 256; where the code works on its bits (the     *)
(* check sequence, packed integers) a number is the set of its one bits,   *)
(* so that xor is the symmetric difference.  The chunks in which the port  *)
(* hands bytes over do not matter, since the decoder takes them one by one.*)
(***************************************************************************)
EXTENDS Integers, FiniteSets, SequencesExt

CONSTANTS
  MaxFrameBytes,  \* 4096
  MaxTextChars    \* 512, of parse_ncp_version

ASSUME FrameAssumption == MaxFrameBytes \in Nat \ {0}
ASSUME CharsAssumption == MaxTextChars \in Nat

Byte == 0..255
Bits == [b \in Byte |-> {i \in 0..7 : (b \div 2^i) % 2 = 1}]
ByteOf(bits) == CHOOSE b \in Byte : Bits[b] = bits

Xor(a, b) == (a \ b) \cup (b \ a)
ShiftRight(a, n) == {i - n : i \in {j \in a : j >= n}}
Low(a) == a \cap 0..7

Flag == 126
Escape == 125
Escaped == {Flag, Escape, 17, 19}
Flipped(b) == ByteOf(Xor(Bits[b], {5}))

-----------------------------------------------------------------------------
(***************************************************************************)
(* The check sequence: the reflected CRC-16 of the polynomial 0x8408.      *)
(***************************************************************************)
ShiftOnce(fcs) == IF 0 \in fcs THEN Xor(ShiftRight(fcs, 1), {3, 10, 15}) ELSE ShiftRight(fcs, 1)

TwoShifts(fcs) == ShiftOnce(ShiftOnce(fcs))
FourShifts(fcs) == TwoShifts(TwoShifts(fcs))

\* Eight shifts move the high byte down and add what the low byte brings.
EightShifts == [low \in SUBSET (0..7) |-> FourShifts(FourShifts(low))]

AddByte(fcs, b) ==
  LET f == Xor(fcs, Bits[b]) IN Xor(ShiftRight(f, 8), EightShifts[Low(f)])

Fcs(data) ==
  LET fcs[n \in 0..Len(data)] == IF n = 0 THEN 0..15 ELSE AddByte(fcs[n - 1], data[n])
  IN fcs[Len(data)]

GoodFcs == {3, 4, 5, 7, 12, 13, 14, 15}

Encoded(b) == IF b \in Escaped THEN <<Escape, Flipped(b)>> ELSE <<b>>

\* The payload and its check sequence, the low byte first.
Checked(payload) ==
  LET fcs == (0..15) \ Fcs(payload)
  IN payload \o <<ByteOf(Low(fcs)), ByteOf(ShiftRight(fcs, 8))>>

\* hdlc_encode, and how the dongle frames its answers.
Frame(payload) ==
  LET framed == Checked(payload)
      encoded[n \in 0..Len(framed)] ==
        IF n = 0 THEN <<Flag>> ELSE encoded[n - 1] \o Encoded(framed[n])
  IN Append(encoded[Len(framed)], Flag)

-----------------------------------------------------------------------------
(***************************************************************************)
(* HdlcDecoder.  The decoder also keeps the payloads it has yielded.       *)
(***************************************************************************)
NewDecoder == [frame |-> <<>>, inFrame |-> FALSE, escaped |-> FALSE, yielded |-> <<>>]

\* MUTANT of IsWhole: a frame of any content.
IsLong(frame) == Len(frame) >= 3

IsWhole(frame) == Len(frame) >= 3 /\ Fcs(frame) = GoodFcs

Opened(d) == [d EXCEPT !.frame = <<>>, !.inFrame = TRUE, !.escaped = FALSE]

\* A flag ends a frame and begins the next one.
Ended(d) ==
  IF d.inFrame /\ IsWhole(d.frame)
  THEN [Opened(d) EXCEPT !.yielded = Append(@, SubSeq(d.frame, 1, Len(d.frame) - 2))]
  ELSE Opened(d)

Collected(d, b) ==
  IF Len(d.frame) >= MaxFrameBytes + 2
  THEN [d EXCEPT !.frame = <<>>, !.inFrame = FALSE, !.escaped = FALSE]
  ELSE [d EXCEPT !.frame = Append(@, IF d.escaped THEN Flipped(b) ELSE b), !.escaped = FALSE]

Feed(d, b) ==
  CASE b = Flag                -> Ended(d)
    [] b # Flag /\ ~d.inFrame  -> d
    [] b = Escape /\ d.inFrame -> [d EXCEPT !.escaped = TRUE]
    [] OTHER                   -> Collected(d, b)

Decode(stream) ==
  LET decoder[n \in 0..Len(stream)] ==
        IF n = 0 THEN NewDecoder ELSE Feed(decoder[n - 1], stream[n])
  IN decoder[Len(stream)].yielded

-----------------------------------------------------------------------------
(***************************************************************************)
(* Packed integers: seven bits a byte, the lowest first, at most five.     *)
(***************************************************************************)
Continues(b) == b >= 128

\* The last byte of the integer that begins at offset, or 0.
LastByte(data, offset) ==
  LET ends == {i \in offset..(offset + 4) : i <= Len(data) /\ ~Continues(data[i])}
  IN IF ends = {} THEN 0 ELSE CHOOSE i \in ends : \A j \in ends : i <= j

Unpacked(data, offset) ==
  UNION {{7 * (i - offset) + bit : bit \in Bits[data[i]] \ {7}} :
         i \in offset..LastByte(data, offset)}

Header == 129   \* SPINEL_HEADER_FLAG | 1: every request has transaction id 1
ValueIs == {1, 2}     \* 6
NcpVersion == {1}     \* 2

\* No answer, and every answer that get_ncp_version refuses.
Unread == <<>>

\* The bytes that only continue a character of UTF-8.
Continuation == 128..191

\* How many of them a first byte asks for, and which may be the first of them:
\* not those of an overlong form, a surrogate or a number beyond Unicode.
Following(b) ==
  CASE b \in 194..223 -> 1 [] b \in 224..239 -> 2 [] b \in 240..244 -> 3 [] OTHER -> 0
Second(b) ==
  CASE b = 224 -> 160..191 [] b = 237 -> 128..159
    [] b = 240 -> 144..191 [] b = 244 -> 128..143 [] OTHER -> Continuation

\* Where the characters begin.
Starts(text) == {i \in DOMAIN text : text[i] \notin Continuation}

\* What decode("utf-8", "strict") accepts.
IsUtf8(text) ==
  /\ \A i \in Starts(text) :
       /\ text[i] \in 0..127 \cup 194..244
       /\ i + Following(text[i]) <= Len(text)
       /\ \A j \in 1..Following(text[i]) :
            text[i + j] \in IF j = 1 THEN Second(text[i]) ELSE Continuation
  /\ \A i \in DOMAIN text \ Starts(text) :
       \E j \in Starts(text) : j < i /\ i <= j + Following(text[j])

\* parse_ncp_version refuses an empty text, which is Unread, and a long one.
IsVersion(text) == IsUtf8(text) /\ Cardinality(Starts(text)) <= MaxTextChars

\* get_ncp_version: the text up to the NUL.
TextOf(payload) ==
  LET command == LastByte(payload, 2)
      property == LastByte(payload, command + 1)
      ends == {i \in (property + 1)..Len(payload) : payload[i] = 0}
      text == SubSeq(payload, property + 1, (CHOOSE i \in ends : \A j \in ends : i <= j) - 1)
  IN IF /\ command # 0 /\ property # 0
        /\ Unpacked(payload, 2) = ValueIs /\ Unpacked(payload, command + 1) = NcpVersion
        /\ ends # {} /\ IsVersion(text)
     THEN text ELSE Unread

\* MUTANT of IsAnswer: the first frame is the answer.
IsFrame(payload) == payload # <<>>

\* _request: frames of other transactions are skipped.
IsAnswer(payload) == payload[1] = Header

VersionIn(stream) ==
  LET yielded == Decode(stream)
      answers == {i \in DOMAIN yielded : IsAnswer(yielded[i])}
  IN IF answers = {} THEN Unread
     ELSE TextOf(yielded[CHOOSE i \in answers : \A j \in answers : i <= j])

-----------------------------------------------------------------------------
(***************************************************************************)
(* What a serial line can do to a stream: one bit, one lost byte, or one   *)
(* byte that reads as a flag or as an escape.                              *)
(***************************************************************************)
OneFault(stream) ==
  UNION {{ReplaceAt(stream, i, ByteOf(Xor(Bits[stream[i]], {bit}))) : bit \in 0..7}
         \cup {RemoveAt(stream, i)}
         \cup {ReplaceAt(stream, i, b) : b \in {Flag, Escape}}
         \cup {InsertAt(stream, i, b) : b \in {Flag, Escape}} : i \in DOMAIN stream}

=============================================================================
