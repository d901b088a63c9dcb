-------------------------- MODULE MCEmbedderClient --------------------------
(* A small instance of EmbedderClient for TLC. *)
EXTENDS EmbedderClient, TLC

CONSTANTS capture, recall

\* capture embeds three records, recall one expansion; the second daemon takes
\* fewer texts at once than the first.
Texts  == capture :> 3 @@ recall :> 1
Limits == <<2, 1>>
=============================================================================
