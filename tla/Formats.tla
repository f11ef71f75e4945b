------------------------------ MODULE Formats -------------------------------
(***************************************************************************)
(* The codecs side by side: a run picks a format, lets any legal parse be  *)
(* encoded in it, and decodes the stream, as the format's gap function     *)
(* does, measuring how far output may run ahead of the stream.             *)
(***************************************************************************)
EXTENDS LzStream

BA == INSTANCE ByteAligned
Z0 == INSTANCE Zx0
TS == INSTANCE Tscrunch
BB == INSTANCE Bb2
L2 == INSTANCE Lzsa2
AP == INSTANCE Apultra
X3 == INSTANCE Exo3
SB == INSTANCE Subsizer
PU == INSTANCE Pucrunch
UP == INSTANCE Upkr
SH == INSTANCE Shrinkler

Init == StreamInit

Next == BA!Next \/ Z0!Zx0Next \/ Z0!Zx02Next \/ TS!TsNext \/ BB!Bb2Next
    \/ L2!Lzsa2Next \/ AP!ApNext \/ X3!ExoNext \/ SB!SubNext \/ PU!PuNext
    \/ UP!UpkrNext \/ SH!ShrNext

\* A coder that writes its stream and a decoder that has been called run on;
\* nothing makes an encoder stop.
Spec == Init /\ [][Next]_vars /\ WF_vars(phase \in {"finish", "decode"} /\ Next)
-----------------------------------------------------------------------------
\* A range coder that has been told to finish does, and a decoder that has been
\* started returns: upkr's with the stream it has no use for.
DecoderReturns ==
    phase \in {"finish", "decode"} ~> phase = "done" /\ (trial.format = "upkr" => UP!BackToStart)
=============================================================================
