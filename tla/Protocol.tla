------------------------------ MODULE Protocol ------------------------------
(***************************************************************************)
(* pkg/protocol/protocol.go: frames and their encodings, as sequences of   *)
(* bytes.  A byte is a number below Base and a length has LenBytes digits  *)
(* (256 and 4 in the code), so that lengths wrap where the code's do.      *)
(*                                                                         *)
(* A result is a frame, an error, or an overrun: an index or a slice past  *)
(* the end of the data, where Go panics or, with spare capacity behind the *)
(* slice, yields bytes that were never received.                           *)
(***************************************************************************)
EXTENDS Integers, Sequences

CONSTANTS Base, LenBytes, MaxKeyLength, MaxValueLength

\* Base to the power of k.
Power[k \in 0 .. LenBytes] == IF k = 0 THEN 1 ELSE Base * Power[k - 1]

ASSUME ProtocolAssumption ==
  /\ Base \in Nat \ (0 .. 6)
  /\ LenBytes \in Nat \ {0}
  /\ MaxKeyLength \in 0 .. Power[LenBytes] - 1
  /\ MaxValueLength \in 0 .. Power[LenBytes] - 1

Byte == 0 .. Base - 1

CMD_GET == 1
CMD_SET == 2
CMD_DELETE == 3
CMD_INFO == 4

SUCCESS == 0
ERROR_UNKNOWN_COMMAND == 1
ERROR_INVALID_KEY == 2
ERROR_INVALID_VALUE == 3
ERROR_FRAME_TOO_SHORT == 5
ERROR_FRAME_MISMATCH == 6

FrameHeaderSize == 1 + 2 * LenBytes

Error == [result |-> "error"]
Overrun == [result |-> "overrun"]
Ok(x) == [result |-> "ok", is |-> x]

-----------------------------------------------------------------------------

\* uint32(n), and binary.BigEndian both ways.
Wrapped(n) == n % Power[LenBytes]

BigEndian(n) == [i \in 1 .. LenBytes |-> (n \div Power[LenBytes - i]) % Base]

Uint32(digits) ==
  LET value[i \in 0 .. LenBytes] == IF i = 0 THEN 0 ELSE value[i - 1] * Base + digits[i]
  IN  value[LenBytes]

\* The n bytes of data after the first i, when there are so many.
Slice(data, i, n) == SubSeq(data, i + 1, i + n)

KeyLen(data) == Uint32(Slice(data, 1, LenBytes))
ValueLen(data) == Uint32(Slice(data, 1 + LenBytes, LenBytes))

NewFrame(cmd, key, value) ==
  [Command |-> cmd, KeyLen |-> Wrapped(Len(key)), ValueLen |-> Wrapped(Len(value)),
   Key |-> key, Value |-> value]

FrameSize(f) == Wrapped(FrameHeaderSize + f.KeyLen + f.ValueLen)

\* What a frame looks like on the wire, limits or no limits.
OnWire(cmd, key, value) ==
  <<cmd>> \o BigEndian(Len(key)) \o BigEndian(Len(value)) \o key \o value

EncodeRequest(cmd, key, value) ==
  IF Len(key) > MaxKeyLength \/ Len(value) > MaxValueLength THEN Error
  ELSE Ok(OnWire(cmd, key, value))

\* Faulty variant: the value is sliced without the key before it.
DecodeRequestShifted(data) ==
  IF Len(data) < FrameHeaderSize \/ Len(data) < FrameHeaderSize + KeyLen(data) + ValueLen(data)
  THEN Error
  ELSE Ok(NewFrame(data[1], Slice(data, FrameHeaderSize, KeyLen(data)),
                   Slice(data, FrameHeaderSize, ValueLen(data))))

\* Bytes behind the frame are ignored.
DecodeRequest(data) ==
  IF Len(data) < FrameHeaderSize \/ Len(data) < FrameHeaderSize + KeyLen(data) + ValueLen(data)
  THEN Error
  ELSE Ok(NewFrame(data[1], Slice(data, FrameHeaderSize, KeyLen(data)),
                   Slice(data, FrameHeaderSize + KeyLen(data), ValueLen(data))))

\* Faulty variant: the status is counted as part of the value.
EncodeResponseCountingStatus(cmd, status, value) ==
  IF Len(value) > MaxValueLength THEN Error
  ELSE Ok(<<cmd>> \o BigEndian(0) \o BigEndian(Len(value) + 1) \o <<status>> \o value)

\* The status byte stands between the header and the value, and no length counts it.
EncodeResponse(cmd, status, value) ==
  IF Len(value) > MaxValueLength THEN Error
  ELSE Ok(<<cmd>> \o BigEndian(0) \o BigEndian(Len(value)) \o <<status>> \o value)

\* Faulty variant: the value begins at the status byte.
DecodeResponseShifted(data) ==
  IF Len(data) < FrameHeaderSize \/ Len(data) < FrameHeaderSize + KeyLen(data) + ValueLen(data)
  THEN Error
  ELSE IF Len(data) < FrameHeaderSize + 1 + ValueLen(data) THEN Overrun
  ELSE Ok([Command |-> data[1], KeyLen |-> KeyLen(data), ValueLen |-> ValueLen(data), Key |-> <<>>,
           Value |-> <<data[FrameHeaderSize + 1]>> \o Slice(data, FrameHeaderSize, ValueLen(data))])

\* The length test does not count the status byte either.  The status is returned in
\* front of the value.
DecodeResponse(data) ==
  IF Len(data) < FrameHeaderSize \/ Len(data) < FrameHeaderSize + KeyLen(data) + ValueLen(data)
  THEN Error
  ELSE IF Len(data) < FrameHeaderSize + 1 + ValueLen(data) THEN Overrun
  ELSE Ok([Command |-> data[1], KeyLen |-> KeyLen(data), ValueLen |-> ValueLen(data), Key |-> <<>>,
           Value |-> <<data[FrameHeaderSize + 1]>> \o Slice(data, FrameHeaderSize + 1, ValueLen(data))])

\* ValidateFrame and GetErrorCode: the code of the first test that fails.
ValidateFrame(f) ==
  CASE f.Command \notin {CMD_GET, CMD_SET, CMD_DELETE, CMD_INFO} -> ERROR_UNKNOWN_COMMAND
    [] OTHER ->
  CASE FrameSize(f) < FrameHeaderSize -> ERROR_FRAME_TOO_SHORT
    [] OTHER ->
  CASE f.KeyLen > MaxKeyLength -> ERROR_INVALID_KEY
    [] OTHER ->
  CASE f.ValueLen > MaxValueLength -> ERROR_INVALID_VALUE
    [] OTHER ->
  CASE Len(f.Key) # f.KeyLen \/ Len(f.Value) # f.ValueLen -> ERROR_FRAME_MISMATCH
    [] f.Command # CMD_INFO /\ f.KeyLen = 0 -> ERROR_INVALID_KEY
    [] OTHER -> SUCCESS
=============================================================================
