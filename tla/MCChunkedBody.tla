---------------------------- MODULE MCChunkedBody ----------------------------
EXTENDS ChunkedBody

\* Two full chunks and one that is not, read in parts that do not fit them.
FiveBytes == <<1, 2, 3, 4, 5>>
==============================================================================
