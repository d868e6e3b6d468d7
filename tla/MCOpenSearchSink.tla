-------------------------- MODULE MCOpenSearchSink --------------------------
(* Small instances of OpenSearchSink for TLC.                               *)
EXTENDS OpenSearchSink
=============================================================================
