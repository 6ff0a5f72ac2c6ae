---------------------------- MODULE MCRemoteMedia -----------------------------
(* Instances of RemoteMedia for TLC.                                         *)
EXTENDS RemoteMedia
MCSends == [u \in Users |-> IF u = "anna" THEN {"video", "audio"} ELSE {}]
=============================================================================
