----------------------- MODULE MCSafeBucketContainer -----------------------
(* The instance of SafeBucketContainer for TLC.                            *)
EXTENDS SafeBucketContainer
=============================================================================
