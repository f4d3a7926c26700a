--------------------------- MODULE MCNetEdgeProbe ---------------------------
(* NetEdgeProbe with two pools of labelled venues and one without.         *)
EXTENDS NetEdgeProbe, TLC

MCVenue == "a" :> "orca" @@ "b" :> "raydium" @@ "c" :> "none"
MCReports == {"a" :> 2 @@ "b" :> 1 @@ "c" :> 1, "a" :> 1 @@ "b" :> 2, "a" :> 1 @@ "c" :> 1}
MCFees == {{}, {1}}
MCMinEdge == {25}
=============================================================================
