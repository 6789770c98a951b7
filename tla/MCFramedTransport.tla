-------------------------- MODULE MCFramedTransport --------------------------
(* Bounds of FramedTransport for TLC. *)
EXTENDS FramedTransport, TLC

CONSTANTS ClientFrames, ServerFrames

MCFrameLimit == (Client :> ClientFrames) @@ (Server :> ServerFrames)
=============================================================================
