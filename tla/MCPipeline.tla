----------------------------- MODULE MCPipeline -----------------------------
(***************************************************************************)
(* Instances of Pipeline: files with and without a frame that does not     *)
(* decode, and the positions the player seeks to.                          *)
(***************************************************************************)
EXTENDS Pipeline

NoneCorrupt   == {}
FirstCorrupt  == {0}
SecondCorrupt == {1}

Nowhere == {}
ToFirst == {0}

\* The second of two seeks has begun: the run goes on without the output.
Stands == MaxSeeks > 1 /\ left.seeks = 0

\* Bound: after a seek, the run ends where the first frame of the new position
\* has reached the output buffer (InOrder: nothing older can follow it).  It goes
\* on to a second seek only while the signal the first one gave the decoder is
\* not taken (a second seek is like the first otherwise), and then without the
\* output, which stands before the card is open.
UntilDecoded ==
  /\ left.seeks < MaxSeeks /\ ctl.todo = <<>> =>
       /\ \A i \in 1 .. Len(outData) : outData[i].epoch < epoch
       /\ left.seeks > 0 => pauseSem["lmc"] > 0
  /\ Stands => at["pmo"] = "top" /\ ~opened

\* What tells two states apart where no property is about the time shown and none
\* about what the player is told: no step's guard and no property of such a run
\* reads the frames' counter, the times made from it, or told; the read size is
\* chosen anew before each frame.
Seen ==
  <<unitVars, fileVars, inVars, outData, outStart, outGrant,
    IF Stands THEN <<>> ELSE [i \in 1 .. Len(events) |-> <<events[i].kind, events[i].idx>>],
    IF at["lmc"] \in {"read", "sleepRead"} THEN want ELSE 0,
    decoded, pmoVars, ctlVars>>
=============================================================================
