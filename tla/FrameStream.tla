----------------------------- MODULE FrameStream -----------------------------
(***************************************************************************)
(* One connection between cmd/test-client and pkg/server, byte by byte.    *)
(* TCP keeps the order of the bytes and not the bounds of the writes, and  *)
(* io.ReadFull waits for the bytes it was asked for, so each direction is  *)
(* a sequence of bytes that a reader takes prefixes of.                    *)
(*                                                                         *)
(* The client's commands send one request and wait for its response; its   *)
(* raw command sends any bytes and takes whatever it reads within two      *)
(* seconds for the response.  The connection stays open here; its opening  *)
(* and closing are TCPServer's.                                            *)
(***************************************************************************)
EXTENDS Protocol

CONSTANTS Request,     \* the [cmd, key, value] the client's commands ask for
          Raw,         \* the byte strings of its raw commands
          Answer,      \* the [status, value] the command handlers answer with
          Message,     \* the text of an error response
          MaxCommands  \* bound: commands the client makes

ASSUME StreamAssumption ==
  /\ Request \subseteq [cmd : Byte, key : Seq(Byte), value : Seq(Byte)]
  /\ Raw \subseteq Seq(Byte)
  /\ Answer \subseteq [status : Byte, value : Seq(Byte)]
  /\ \A a \in Answer : Len(a.value) <= MaxValueLength
  /\ Message \in Seq(Byte) /\ Len(Message) <= MaxValueLength
  /\ MaxCommands \in Nat

VARIABLES toServer,   \* bytes written by the client and not read by the server
          toClient,
          header,     \* the header the handler has read, or <<>>
          frame,      \* the frames it has built and not handled: none or one
          client,     \* where the client is, its request, the response header it has read
          sent,       \* history: all bytes the client has written
          replied,    \* history: all bytes the server has written
          answered,   \* history: the frames the server has answered, with the answers
          got,        \* history: the requests the client has made, with the responses
          raw,        \* history: a raw command has been made
          commands    \* history: the number of commands made

vars == <<toServer, toClient, header, frame, client, sent, replied, answered, got, raw, commands>>

clientVars == <<client, sent, got, raw, commands>>
serverVars == <<header, frame, replied, answered>>

Idle == [at |-> "idle"]

Init == /\ toServer = <<>> /\ toClient = <<>>
        /\ header = <<>> /\ frame = <<>>
        /\ client = Idle
        /\ sent = <<>> /\ replied = <<>>
        /\ answered = <<>> /\ got = <<>>
        /\ raw = FALSE
        /\ commands = 0

Take(s, n) == SubSeq(s, 1, n)
Drop(s, n) == SubSeq(s, n + 1, Len(s))

-----------------------------------------------------------------------------
(***************************************************************************)
(* sendTCPRequest.                                                         *)
(***************************************************************************)

Command == client.at = "idle" /\ commands < MaxCommands /\ commands' = commands + 1

Writes(bytes) == toServer' = toServer \o bytes /\ sent' = sent \o bytes

ClientRequests(r) ==
  /\ Command
  /\ LET e == EncodeRequest(r.cmd, r.key, r.value)
     IN  IF e = Error
         THEN UNCHANGED <<toServer, sent, client>>
         ELSE Writes(e.is) /\ client' = [at |-> "header", request |-> r]
  /\ UNCHANGED <<toClient, serverVars, got, raw>>

ClientReadsHeader ==
  /\ client.at = "header" /\ Len(toClient) >= FrameHeaderSize
  /\ client' = [at |-> "body", request |-> client.request,
                valueLen |-> ValueLen(Take(toClient, FrameHeaderSize))]
  /\ toClient' = Drop(toClient, FrameHeaderSize)
  /\ UNCHANGED <<toServer, serverVars, sent, got, raw, commands>>

\* Faulty variant: the status byte is read with the value and left out of the count.
ClientReadsValueOnly ==
  /\ client.at = "body" /\ Len(toClient) >= client.valueLen /\ toClient # <<>>
  /\ got' = Append(got, [request |-> client.request, status |-> toClient[1],
                         value |-> SubSeq(toClient, 2, client.valueLen)])
  /\ toClient' = Drop(toClient, client.valueLen)
  /\ client' = Idle
  /\ UNCHANGED <<toServer, serverVars, sent, raw, commands>>

ClientReadsBody ==
  /\ client.at = "body" /\ Len(toClient) >= 1 + client.valueLen
  /\ got' = Append(got, [request |-> client.request, status |-> toClient[1],
                         value |-> Slice(toClient, 1, client.valueLen)])
  /\ toClient' = Drop(toClient, 1 + client.valueLen)
  /\ client' = Idle
  /\ UNCHANGED <<toServer, serverVars, sent, raw, commands>>

-----------------------------------------------------------------------------
(***************************************************************************)
(* handleRaw.                                                              *)
(***************************************************************************)

RawWrites(bytes) ==
  /\ Command
  /\ Writes(bytes)
  /\ client' = [at |-> "raw"]
  /\ raw' = TRUE
  /\ UNCHANGED <<toClient, serverVars, got>>

\* One Read returns some of the bytes that are there, or none before the deadline.
RawReads ==
  /\ client.at = "raw"
  /\ \E n \in 0 .. Len(toClient) : toClient' = Drop(toClient, n)
  /\ client' = Idle
  /\ UNCHANGED <<toServer, serverVars, sent, got, raw, commands>>

-----------------------------------------------------------------------------
(***************************************************************************)
(* The handler of the connection.                                          *)
(***************************************************************************)

\* Faulty variant: Read in place of io.ReadFull, which returns with what is there.
HandlerReadsSomeHeader ==
  /\ header = <<>> /\ frame = <<>>
  /\ toServer # <<>>
  /\ LET n == IF Len(toServer) < FrameHeaderSize THEN Len(toServer) ELSE FrameHeaderSize
     IN  header' = Take(toServer, n) /\ toServer' = Drop(toServer, n)
  /\ UNCHANGED <<toClient, clientVars, frame, replied, answered>>

HandlerReadsHeader ==
  /\ header = <<>> /\ frame = <<>>
  /\ Len(toServer) >= FrameHeaderSize
  /\ header' = Take(toServer, FrameHeaderSize)
  /\ toServer' = Drop(toServer, FrameHeaderSize)
  /\ UNCHANGED <<toClient, clientVars, frame, replied, answered>>

\* Faulty variant: only the value's bytes are read when there is a value.
HandlerReadsTooLittle ==
  /\ header # <<>>
  /\ LET n == IF ValueLen(header) > 0 THEN ValueLen(header) ELSE KeyLen(header)
     IN  /\ Len(toServer) >= n
         /\ frame' = <<[Command |-> header[1], KeyLen |-> KeyLen(header),
                        ValueLen |-> ValueLen(header), Key |-> Take(toServer, KeyLen(header)),
                        Value |-> Slice(toServer, KeyLen(header), n - KeyLen(header))]>>
         /\ toServer' = Drop(toServer, n)
  /\ header' = <<>>
  /\ UNCHANGED <<toClient, clientVars, replied, answered>>

\* Nothing is read when both lengths are zero.
HandlerReadsData ==
  /\ header # <<>>
  /\ Len(toServer) >= KeyLen(header) + ValueLen(header)
  /\ frame' = <<[Command |-> header[1], KeyLen |-> KeyLen(header), ValueLen |-> ValueLen(header),
                 Key |-> Take(toServer, KeyLen(header)),
                 Value |-> Slice(toServer, KeyLen(header), ValueLen(header))]>>
  /\ toServer' = Drop(toServer, KeyLen(header) + ValueLen(header))
  /\ header' = <<>>
  /\ UNCHANGED <<toClient, clientVars, replied, answered>>

\* handleRequest: a frame that is not valid is answered with its error code, another one
\* with what its command handler answers.
HandleRequest ==
  /\ frame # <<>>
  /\ LET f == frame[1]
         code == ValidateFrame(f)
     IN  \E a \in IF code = SUCCESS THEN Answer ELSE {[status |-> code, value |-> Message]} :
           LET response == EncodeResponse(f.Command, a.status, a.value).is
           IN  /\ toClient' = toClient \o response
               /\ replied' = replied \o response
               /\ answered' = Append(answered, [frame |-> f, status |-> a.status, value |-> a.value])
  /\ frame' = <<>>
  /\ UNCHANGED <<toServer, clientVars, header>>

-----------------------------------------------------------------------------

Client == \/ \E r \in Request : ClientRequests(r)
          \/ ClientReadsHeader \/ ClientReadsBody
          \/ \E bytes \in Raw : RawWrites(bytes)
          \/ RawReads

Handler == HandlerReadsHeader \/ HandlerReadsData \/ HandleRequest

Next == Client \/ Handler

Spec == Init /\ [][Next]_vars

\* The handler goroutine runs, and the client reads what it is waiting for.
FairSpec == Spec /\ WF_vars(Handler) /\ WF_vars(ClientReadsHeader \/ ClientReadsBody)

-----------------------------------------------------------------------------

FrameOf(r) == NewFrame(r.cmd, r.key, r.value)

\* The type invariant.  The handler holds a header or a frame, never both.
TypeOK ==
  /\ toServer \in Seq(Byte) /\ toClient \in Seq(Byte)
  /\ header = <<>> \/ (Len(header) = FrameHeaderSize /\ frame = <<>>)
  /\ Len(frame) <= 1
  /\ client.at \in {"idle", "header", "body", "raw"}
  /\ commands \in 0 .. MaxCommands

FramesBuilt == [i \in 1 .. Len(answered) |-> answered[i].frame] \o frame

\* The bytes of some frames on the wire.
Encoded(frames) ==
  LET bytes[i \in 0 .. Len(frames)] ==
        IF i = 0 THEN <<>>
        ELSE bytes[i - 1] \o OnWire(frames[i].Command, frames[i].Key, frames[i].Value)
  IN  bytes[Len(frames)]

\* The bytes of the frames built, of the header at hand, and those not read are what was sent.
BytesKept == Encoded(FramesBuilt) \o header \o toServer = sent

Fits(keyLen, valueLen) == keyLen <= MaxKeyLength /\ valueLen <= MaxValueLength

\* No header the handler has read announced a key or a value beyond the limits.
WithinLimits ==
  /\ \A i \in 1 .. Len(FramesBuilt) : Fits(FramesBuilt[i].KeyLen, FramesBuilt[i].ValueLen)
  /\ header # <<>> => Fits(KeyLen(header), ValueLen(header))

\* Whatever bytes the client writes, and however they are cut into frames, the handler
\* (server.go:213-243) loses none and invents none: the frames it has built, encoded
\* again, and what it has not made a frame of yet, are the bytes that were sent.  What it
\* does with a frame beyond the limits is left open.
NoByteLostOrInvented == WithinLimits => BytesKept

\* The handler has too few bytes for what it reads next.
HandlerWaits ==
  Len(toServer) < IF header = <<>> THEN FrameHeaderSize ELSE KeyLen(header) + ValueLen(header)

\* The code parses requests twice, in the handler (server.go:213-243) and in
\* DecodeRequest (protocol.go:256-291).  Once the handler has built its first frame of a
\* stream, from however many writes and with whatever behind it, the decoder finds the
\* same frame in it; the decoder sees no frame where the handler still waits for bytes.
ParsersAgree ==
  /\ FramesBuilt # <<>> => DecodeRequest(sent) = Ok(FramesBuilt[1])
  /\ FramesBuilt = <<>> /\ HandlerWaits => DecodeRequest(sent) = Error

\* The bytes of the first response.
FirstResponse ==
  EncodeResponse(answered[1].frame.Command, answered[1].status, answered[1].value).is

\* The same for responses: sendTCPRequest (test_client.go:526-545) and DecodeResponse
\* (protocol.go:337-377) agree on the first response of the stream.  The decoder sees none
\* in what has arrived of it when two bytes or more are missing; when exactly the last byte
\* is, its length test is one byte off, and it reads past the end.
ResponseParsersAgree ==
  /\ ~raw /\ got # <<>> =>
       LET r == DecodeResponse(replied)
       IN  r.result = "ok" /\ r.is.Value = <<got[1].status>> \o got[1].value
  /\ answered # <<>> =>
       \A n \in 0 .. Len(FirstResponse) - 1 :
         DecodeResponse(Take(replied, n)) = IF n < Len(FirstResponse) - 1 THEN Error ELSE Overrun

\* As long as no raw command has been made, the response a command returns is the one
\* the server gave to that command's request, and the streams are in step again.
AnswersAreOwn ==
  ~raw =>
    /\ \A i \in 1 .. Len(got) :
         /\ i <= Len(answered)
         /\ answered[i].frame = FrameOf(got[i].request)
         /\ answered[i].status = got[i].status /\ answered[i].value = got[i].value
    /\ client.at = "idle" => toServer = <<>> /\ toClient = <<>> /\ header = <<>> /\ frame = <<>>

\* As long as no raw command has been made, a command gets its response.
CommandsReturn == (client.at \in {"header", "body"} /\ ~raw) ~> client.at = "idle"
=============================================================================
