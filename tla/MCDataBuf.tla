------------------------------ MODULE MCDataBuf -----------------------------
(***************************************************************************)
(* Three buffers and buckets, slices of two blocks: slices 0, 3 and 6 meet *)
(* in one bucket, 7 and 8 follow on 6.  The commands write and read one    *)
(* block, one slice, and across the borders of two and three slices.       *)
(***************************************************************************)
EXTENDS DataBuf

MCCommands ==
  [code : {"READ"}, start : {0}, n : {1}] \cup [code : {"WRITE"}, start : {0, 1}, n : {1}]
    \cup [code : {"READ", "WRITE"}, start : {6}, n : {2}]
    \cup [code : {"WRITE"}, start : {13}, n : {1, 2}]
    \cup [code : {"READ"}, start : {13}, n : {4}]
=============================================================================
