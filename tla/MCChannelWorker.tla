-------------------------- MODULE MCChannelWorker --------------------------
(* Model values and bounds for ChannelWorker are in the .cfg files. *)
EXTENDS ChannelWorker
=============================================================================
