----------------------------- MODULE MCPreflight -----------------------------
(* A list of two patch files with a comment before or between them, and a  *)
(* list of one.                                                            *)
EXTENDS Preflight

CONSTANTS f1, f2

Lists == {<<Comment, f1, f2>>, <<f2, Comment, f1>>, <<f1>>}
=============================================================================
