-------------------------- MODULE MCCommentArchive --------------------------
(***************************************************************************)
(* The archive on two comments, two workers and a few runs.                *)
(***************************************************************************)
EXTENDS CommentArchive, TLC
=============================================================================
