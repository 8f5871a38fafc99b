---------------------------- MODULE MCArticleRead ----------------------------
(* A run of four articles, the first one kept, over a window of two. *)
EXTENDS ArticleRead

MCKept == {1}
=============================================================================
