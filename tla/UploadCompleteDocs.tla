------------------------- MODULE UploadCompleteDocs -------------------------
(***************************************************************************)
(* What the documents of the repository say of POST /api/upload/complete   *)
(* and its code does not do.                                               *)
(***************************************************************************)
EXTENDS UploadComplete

\* docs/fix-plan.md:77: of concurrent requests, "only one event is
\* published".  A request that loads the log after another's VALIDATING write
\* has a fresh etag and overtakes it, also after the other's publish.
SingleEvent ==
  \A e1, e2 \in hub : e1.session = e2.session => e1 = e2
=============================================================================
