----------------------------- MODULE MCOpenbaoExec -----------------------------
(***************************************************************************)
(* OpenbaoExec for TLC: room for the three pipes and standard input, or    *)
(* one more file: pipe() meets the limit, and freed numbers return at once. *)
(***************************************************************************)
EXTENDS OpenbaoExec

SomeFds == {0} \cup 3..8
=============================================================================
