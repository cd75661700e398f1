-------------------------- MODULE MCUploadLimiter --------------------------
(* Instances of UploadLimiter for TLC. *)
EXTENDS UploadLimiter, TLC

\* uploads.go:39-40: "Fail open if the limiter errors so a Redis blip never blocks
\* a legit upload": whoever is limited is let in again when the window is over.
BlipNeverBlocks ==
  \A u \in Users :
    (\E r \in Requests : req[r].pc = "limited" /\ req[r].user = u) ~> count[u] = 0
=============================================================================
