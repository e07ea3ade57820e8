---------------------------- MODULE MCPcmMixer ----------------------------
(* An instance of PcmMixer. A behaviour of MCFairSpec has either two writes or fading closes. *)
EXTENDS PcmMixer

VARIABLE focus

MCInit == MixerInit /\ focus \in {"writes", "fades"}

MCNext ==
  /\ MixerNext
  /\ focus = "writes" => \A t \in Tracks : ~track'[t].fade
  /\ focus = "fades" => writes' <= 1
  /\ UNCHANGED focus

MCFairSpec == MCInit /\ [][MCNext]_<<mixerVars, focus>> /\ MixerFairness
=============================================================================
