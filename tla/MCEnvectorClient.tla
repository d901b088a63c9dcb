-------------------------- MODULE MCEnvectorClient --------------------------
(* A small instance of EnvectorClient for TLC: a tick stands for 15 s. *)
EXTENDS EnvectorClient

CONSTANTS insert, score, warmup

\* A capture sets no deadline; a recall gives Score 30 s, as long as a replaced
\* client is kept; the warm-up of reload_pipelines takes up to 60 s.
ToolMethod  == [c \in Calls |-> CASE c = insert -> "Insert"
                                  [] c = score  -> "Score"
                                  [] OTHER      -> "GetIndexList"]
ToolTimeout == [c \in Calls |-> CASE c = insert -> 0 [] c = score -> 2 [] OTHER -> 4]
=============================================================================
