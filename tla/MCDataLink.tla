----------------------------- MODULE MCDataLink -----------------------------
EXTENDS DataLink

(* Two frames tell the order on the first channel.                         *)
ChannelFrames == <<{"f1", "f2"}, {"g"}>>

(* Answers of one or two frames, all of full length.                       *)
FullFrames == {<<2>>, <<2, 2>>}
=============================================================================
