---------------------------- MODULE SampleStream ----------------------------
(***************************************************************************)
(* What the APU promises: a stream.  The chunks of a sample buffer join    *)
(* the stream together, in order, while the APU is enabled, and leave it   *)
(* one by one, in order; no chunk is lost, repeated or altered on its way. *)
(* As long as the APU is enabled a chunk that leaves the stream is heard.  *)
(* Once it is disabled the rest of the stream still runs out, but whether  *)
(* anything of it is heard, in any clock, is not promised.  A buffer is    *)
(* accepted only while at most one buffer and one chunk are ahead of it,   *)
(* which bounds the delay that apu.h describes.                            *)
(***************************************************************************)
EXTENDS Naturals, Sequences

CONSTANTS NumChunks,  \* chunks of a sample buffer
          Sample,     \* what a chunk holds
          Silence     \* what is played before anything was submitted

VARIABLES stream,     \* chunks accepted that have not left
          playing,    \* the chunk that left last, kept while stream is empty
          enabled,    \* a process has the APU enabled
          sound       \* the chunk that is heard

streamVars == <<stream, playing, enabled, sound>>

SampleBuffer == [1 .. NumChunks -> Sample]

StreamInit ==
  /\ stream = << >>
  /\ playing = Silence
  /\ enabled = FALSE
  /\ sound = Silence

\* One clock may move the stream on, accept a buffer, and find the APU enabled,
\* disabled or muted.
Move(plays, accepted) ==
  /\ plays => stream # << >>
  /\ accepted # << >> => enabled /\ Len(stream) <= NumChunks + 1
  /\ stream' = (IF plays THEN Tail(stream) ELSE stream) \o accepted
  /\ playing' = IF plays THEN Head(stream) ELSE playing
  /\ enabled' \in BOOLEAN
  /\ sound' \in IF enabled' THEN {playing'} ELSE {playing', Silence}

Submit == \E b \in SampleBuffer : Move(FALSE, b)
Play   == \E b \in SampleBuffer \cup {<< >>} : Move(TRUE, b)
Switch == Move(FALSE, << >>)

StreamNext == Submit \/ Play \/ Switch

StreamSafety == StreamInit /\ [][StreamNext]_streamVars

StreamSpec == StreamSafety /\ WF_streamVars(Play)
=============================================================================
