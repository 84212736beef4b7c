---------------------------- MODULE MCPullBuffer ----------------------------
(***************************************************************************)
(* Instances of PullBuffer: an input buffer (overflow area, short writes,  *)
(* arbitrary consumption, discarding) and an MP3 or WAV output buffer (no  *)
(* overflow area, resized to whole frames before the first write).         *)
(***************************************************************************)
EXTENDS PullBufferProofs

NoReshapes     == {}
FrameReshapes  == {<<6, 0>>, <<8, 0>>}
=============================================================================
