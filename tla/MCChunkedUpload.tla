--------------------------- MODULE MCChunkedUpload ---------------------------
(* ChunkedUpload on a blob of three chunks, the last one short.            *)
EXTENDS ChunkedUpload

\* Answers a registry gives for a session without bytes.
BothAnswers == {"0-0", "absent"}
AbsentOnly == {"absent"}
ZeroZeroOnly == {"0-0"}
=============================================================================
