------------------------------ MODULE MCKcpMux ------------------------------
(* KcpMux with one Accept loop, one decrypt worker and one closing goroutine.
   Two entries may have any of the four stream ids; a third one is created only
   where all have id 0, and reuses the id of two earlier streams. *)
EXTENDS KcpMux

MCBound ==
  created <= 2 \/ /\ \A k \in 1 .. created : entry[k].id = 0
                  /\ \A i \in FrameWorkers : inp[i].at = "idle" \/ inp[i].id = 0

MCSpec == MuxInit /\ [][MuxNext /\ MCBound']_muxVars /\ MuxFairness
=============================================================================
