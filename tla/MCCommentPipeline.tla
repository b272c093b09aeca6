------------------------- MODULE MCCommentPipeline -------------------------
(* TLC instances of CommentPipeline. *)
EXTENDS CommentPipeline
=============================================================================
