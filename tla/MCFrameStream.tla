--------------------------- MODULE MCFrameStream ---------------------------
(***************************************************************************)
(* FrameStream with bytes below 8 and lengths of two bytes, keys of one    *)
(* byte and values of at most two.                                         *)
(***************************************************************************)
EXTENDS FrameStream

R(c, k, v) == [cmd |-> c, key |-> k, value |-> v]

\* Two valid requests, one with an empty key, and one with a value that is too long.
MCRequest == {R(CMD_GET, <<1>>, <<>>), R(CMD_SET, <<1>>, <<7, 3>>), R(CMD_DELETE, <<>>, <<>>),
              R(CMD_SET, <<1>>, <<4, 4, 4>>)}

\* Half a header, a header without its key, two frames in one write, the first with an
\* unknown command, a key that is too long, and lengths whose sum wraps around.
MCRaw == {<<1, 0>>, <<1, 0, 1, 0, 0>>,
          OnWire(5, <<1>>, <<2>>) \o OnWire(CMD_INFO, <<>>, <<>>),
          OnWire(CMD_GET, <<6, 6>>, <<>>),
          OnWire(CMD_SET, [i \in 1 .. 30 |-> 0], [i \in 1 .. 30 |-> 1])}

MCAnswer == {[status |-> SUCCESS, value |-> <<>>], [status |-> SUCCESS, value |-> <<7, 3>>]}

MCMessage == <<6>>
=============================================================================
