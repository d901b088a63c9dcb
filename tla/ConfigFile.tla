----------------------------- MODULE ConfigFile -----------------------------
(***************************************************************************)
(* The contents of ~/.rune/config.json and the pure part of what           *)
(* internal/adapters/config and internal/lifecycle compute from it.        *)
(*                                                                         *)
(* A content is a record.  "file" tells the four situations a reader can   *)
(* meet apart: the file is missing, it was truncated by a writer that has  *)
(* not written yet ("empty"), two writers left bytes of both in it         *)
(* ("garbled"), or it parses ("json").  Vault endpoint and token are one   *)
(* value, the credentials; NoCreds stands for either of them being "".     *)
(***************************************************************************)
CONSTANTS Creds,    \* the endpoint/token pairs a user may configure
          NoCreds   \* endpoint or token is the empty string

ASSUME NoCredsAssumption == NoCreds \notin Creds

FileKind  == {"missing", "empty", "garbled", "json"}
FileState == {"active", "dormant", "", "unknown"}
Reason    == {"", "user_deactivated", "not_configured", "vault_unconfigured",
              "invalid_state"}

Config == [file : FileKind, state : FileState, reason : Reason,
           creds : Creds \union {NoCreds}]

\* Go's &Config{}: every field zero.  The "file" field is that of the bytes
\* Save would produce from it.
ZeroConfig == [file |-> "json", state |-> "", reason |-> "", creds |-> NoCreds]

Missing == [ZeroConfig EXCEPT !.file = "missing"]
Empty   == [ZeroConfig EXCEPT !.file = "empty"]
Garbled == [ZeroConfig EXCEPT !.file = "garbled"]

-----------------------------------------------------------------------------
(* Reading. *)

\* Load succeeds only on bytes that parse.  The RUNE_STATE override of
\* LoadFromPath is not set in the modelled deployments.
Loads(c) == c.file = "json"

\* Load with the fallback MarkDormant and Configure use: any error gives a
\* fresh Config.
LoadOrFresh(c) == IF Loads(c) THEN c ELSE ZeroConfig

\* The reason a boot attempt enters dormant on content c, "" when it does not.
BootReason(c) ==
    CASE c.file = "missing"                                 -> "not_configured"
      [] c.file # "missing" /\ c.state = "dormant"          ->
             IF c.reason = "" THEN "user_deactivated" ELSE c.reason
      [] c.file # "missing" /\ c.state = ""                 -> "not_configured"
      [] c.file # "missing" /\ c.state = "unknown"          -> "invalid_state"
      [] c.file # "missing" /\ c.state = "active" /\ c.creds = NoCreds ->
             "vault_unconfigured"
      [] OTHER                                              -> ""

-----------------------------------------------------------------------------
(* Writing. *)

\* The "already in this state" guard of MarkDormant.
IsMarked(c, reason) ==
    /\ LoadOrFresh(c).state = "dormant"
    /\ LoadOrFresh(c).reason = reason

\* What MarkDormant saves.
Marked(c, reason) ==
    [LoadOrFresh(c) EXCEPT !.state = "dormant", !.reason = reason]

\* The guard of ClearDormant and what it saves.  dormant_since is written and
\* cleared together with dormant_reason.
IsCleared(c) == c.state = "active" /\ c.reason = ""

Cleared(c) == [c EXCEPT !.state = "active", !.reason = ""]

\* What Configure saves: new credentials, active, no dormant markers.
Configured(k) == [ZeroConfig EXCEPT !.state = "active", !.creds = k]

\* SaveToPath is os.WriteFile: O_TRUNC, then a write at offset 0.  A writer that
\* finds bytes of another writer, put there after its own truncation, either
\* covers them or leaves their tail behind its own bytes.  When the write fails, on a
\* full disk, the file stays as it is, see WriteConfig and CallWriteFails.
WriteOutcomes(current, draft) ==
    IF current = Empty THEN {draft} ELSE {draft, Garbled}
=============================================================================
