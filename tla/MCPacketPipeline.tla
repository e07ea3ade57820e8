-------------------------- MODULE MCPacketPipeline --------------------------
(* Small instances of PacketPipeline: queues of one packet, so that both    *)
(* overflow, and fewer packets than datagrams, so that packets are reused.  *)
EXTENDS PacketPipeline
=============================================================================
