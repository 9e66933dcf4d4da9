--------------------------- MODULE MCReplSession ----------------------------
(* An instance of ReplSession for TLC: context; df, a plain variable unless *)
(* the context is a CSV; a private name; a value dill writes, one it cannot *)
EXTENDS ReplSession

FewNames == {"context", "df", "_x"}
=============================================================================
