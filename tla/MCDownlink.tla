----------------------------- MODULE MCDownlink -----------------------------
(* An instance of Downlink for TLC: the frames a peer may send.            *)
EXTENDS Downlink

Chr == <<195, 169>>             \* a character of two bytes
MCClearText == Chr

Compressed_(f) == [f EXCEPT !.z = TRUE, !.bytes = Deflate(@)]

\* Audio of every size that matters, a "clear" whole, compressed and in fragments of both
\* kinds, another text, a ping, a close and two frames to refuse.
MCFrames ==
    { Frame(Binary, TRUE, <<1, 1, 1>>), Frame(Binary, TRUE, <<1, 1, 1, 1, 1>>),
      Frame(Binary, FALSE, <<1>>), Frame(Text, TRUE, Chr), Frame(Text, FALSE, <<195>>),
      Frame(0, FALSE, <<169>>), Frame(0, TRUE, <<169>>), Frame(0, TRUE, <<>>),
      Compressed_(Frame(Text, FALSE, <<195>>)), Frame(0, TRUE, Deflate(<<169>>)),
      Frame(Text, TRUE, <<65>>), Frame(9, TRUE, <<1>>), Frame(3, TRUE, <<>>),
      [Frame(9, TRUE, <<>>) EXCEPT !.long = TRUE],
      [Frame(8, TRUE, Chr) EXCEPT !.code = 3000] }
=============================================================================
