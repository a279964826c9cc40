--------------------------- MODULE MC_SensorStream ---------------------------
(* Room for two frames, or three headers: the payload of a frame may find    *)
(* the socket full behind its header.                                        *)
EXTENDS SensorStream
=============================================================================
