------------------------- MODULE MCNetworkImageNode -------------------------
(* NetworkImageNode for TLC, in every setup of cache and downloader.        *)
EXTENDS NetworkImageNode

MCSetups == BOOLEAN \X BOOLEAN
=============================================================================
