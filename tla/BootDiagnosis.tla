--------------------------- MODULE BootDiagnosis ---------------------------
(***************************************************************************)
(* What diagnostics say of a failed boot (lifecycle/boot_classify.go,      *)
(* domain/boot_error.go): the error of an adapter, as it comes out of the  *)
(* step that failed, is turned into a kind and an advice.                  *)
(*                                                                         *)
(* An error is what the classifiers look at: the typed errors in its wrap  *)
(* chain, the code of a vault.Error and of a gRPC status in it, and the    *)
(* phrases its text contains.                                              *)
(***************************************************************************)
EXTENDS Sequences, Integers

Phases == {"config_load", "vault_dial", "vault_manifest", "key_save", "embedder_dial",
           "envector_init", "envector_index"}

Codes == {"OK", "Canceled", "Unauthenticated", "PermissionDenied", "ResourceExhausted",
          "Unavailable", "DeadlineExceeded", "NotFound", "InvalidArgument", "Internal"}

\* An error of fmt.Errorf, and what may be known of it.
Plain == [is |-> {}, vault |-> "none", grpc |-> "none", says |-> {}]

Saying(phrases)       == [Plain EXCEPT !.says = phrases]
Typed(type, phrases)  == [Plain EXCEPT !.is = {type}, !.says = phrases]
Status(code, phrases) == [Plain EXCEPT !.grpc = code, !.says = phrases]

\* Phrases of a certificate that is refused; gRPC keeps them as text only.
Handshake == {{"tls:", "unknown authority"}, {"tls:", "valid for"}, {"tls:", "expired"}, {"tls:"}}

\* MapGRPCError of the Vault client: the code of the vault.Error around a status.
VaultCode(code, phrases) ==
    CASE code = "Unauthenticated"   -> "VAULT_AUTH_FAILED"
      [] code = "PermissionDenied"  -> "VAULT_PERMISSION_DENIED"
      [] code = "InvalidArgument"   -> IF "top_k exceeds limit" \in phrases
                                       THEN "VAULT_TOPK_EXCEEDED" ELSE "VAULT_INVALID_INPUT"
      [] code = "ResourceExhausted" -> "VAULT_RATE_LIMITED"
      [] code = "NotFound"          -> "VAULT_KEY_NOT_FOUND"
      [] code = "Unavailable"       -> "VAULT_UNAVAILABLE"
      [] code = "DeadlineExceeded"  -> "VAULT_TIMEOUT"
      [] OTHER                      -> "VAULT_INTERNAL"

MapGRPCError(e) == [e EXCEPT !.vault = VaultCode(e.grpc, e.says)]

\* What an RPC ends with when it fails: any status, Unavailable also for a certificate
\* that is refused.
RPCErrors ==
    {Status(code, {}) : code \in Codes \ {"OK"}}
        \union {Status("Unavailable", phrases) : phrases \in Handshake}

\* NormalizeEndpoint, the CA file missing or without a certificate, and the options
\* refused by grpc.NewClient.
DialErrors ==
    {[Plain EXCEPT !.vault = "VAULT_BAD_ENDPOINT"], Typed("PathError", {"ca cert"}),
     Saying({"ca cert"}), Plain}

\* The errors of each phase: those of LoadFromPath but for a missing file (unreadable,
\* no JSON, JSON of another shape), of vault.NewClient, of GetAgentManifest (with an
\* error in the reply, or a manifest that cannot be parsed), of SaveEncKey and KeyDir,
\* embedder.New, envector.NewClient (its keys come from a file) and OpenIndex, whose
\* MapSDKError keeps the status in the chain.
ErrorsOf(phase) ==
    CASE phase = "config_load"    -> {Typed("PathError", {}), Plain, Saying({"unmarshal"})}
      [] phase = "vault_dial"     -> DialErrors
      [] phase = "vault_manifest" -> {MapGRPCError(e) : e \in RPCErrors}
                                         \union {[Plain EXCEPT !.vault = "VAULT_INTERNAL"],
                                                 Saying({"unmarshal"}), Plain}
      [] phase = "key_save"       -> {Typed("PathError", {}), Plain}
      [] phase = "embedder_dial"  -> {Plain}
      [] phase = "envector_init"  -> {Typed("PathError", {}), Plain}
      [] phase = "envector_index" -> RPCErrors \union {Plain}

-----------------------------------------------------------------------------
(* The classifiers, "none" for one that does not know the error. *)

ClassifyConfigErr(e, phase) ==
    IF phase # "config_load" THEN "none"
    ELSE IF "ErrNotExist" \in e.is THEN "config_missing"
    ELSE IF "unmarshal" \in e.says THEN "config_parse" ELSE "none"

\* Fault: any file that cannot be opened is taken for the CA certificate.
ClassifyTLSErrHasty(e) ==
    IF "PathError" \in e.is THEN "vault_ca_file"
    ELSE IF e.is \intersect {"UnknownAuthorityError", "CertificateInvalidError"} # {}
    THEN "vault_tls_handshake"
    ELSE IF "HostnameError" \in e.is THEN "vault_tls_hostname"
    ELSE IF "tls:" \notin e.says THEN "none"
    ELSE IF "valid for" \in e.says /\ "unknown authority" \notin e.says
    THEN "vault_tls_hostname" ELSE "vault_tls_handshake"

ClassifyTLSErr(e) ==
    IF "PathError" \in e.is /\ "ca cert" \in e.says THEN "vault_ca_file"
    ELSE IF e.is \intersect {"UnknownAuthorityError", "CertificateInvalidError"} # {}
    THEN "vault_tls_handshake"
    ELSE IF "HostnameError" \in e.is THEN "vault_tls_hostname"
    ELSE IF "tls:" \notin e.says THEN "none"
    ELSE IF "valid for" \in e.says /\ "unknown authority" \notin e.says
    THEN "vault_tls_hostname" ELSE "vault_tls_handshake"

ClassifyVaultSentinel(e) ==
    CASE e.vault = "none"                    -> "none"
      [] e.vault = "VAULT_AUTH_FAILED"       -> "vault_auth"
      [] e.vault = "VAULT_PERMISSION_DENIED" -> "vault_permission"
      [] e.vault = "VAULT_RATE_LIMITED"      -> "vault_rate_limit"
      [] e.vault = "VAULT_TIMEOUT"           -> "vault_timeout"
      [] e.vault = "VAULT_UNAVAILABLE"       -> "vault_network"
      [] e.vault = "VAULT_KEY_NOT_FOUND"     -> "vault_manifest"
      [] e.vault = "VAULT_INVALID_INPUT"     -> "vault_invalid_input"
      [] OTHER                               -> "vault_internal"

ClassifyNetErr(e) ==
    IF "DNSError" \in e.is THEN "vault_dns"
    ELSE IF "OpError" \in e.is THEN "vault_network"
    ELSE IF "url.Error" \in e.is THEN "vault_bad_endpoint" ELSE "none"

ClassifyGRPCStatus(e) ==
    CASE e.grpc \in {"none", "OK"}      -> "none"
      [] e.grpc = "Unauthenticated"     -> "vault_auth"
      [] e.grpc = "PermissionDenied"    -> "vault_permission"
      [] e.grpc = "ResourceExhausted"   -> "vault_rate_limit"
      [] e.grpc = "Unavailable"         -> "vault_network"
      [] e.grpc = "DeadlineExceeded"    -> "vault_timeout"
      [] e.grpc = "NotFound"            -> "vault_manifest"
      [] e.grpc = "InvalidArgument"     -> "vault_invalid_input"
      [] OTHER                          -> "vault_internal"

\* applyPhaseFallback.
PhaseFallback(phase) ==
    CASE phase \in {"config_load", "config_check"} -> "config_invalid"
      [] phase = "vault_dial"     -> "vault_dial_opts"
      [] phase = "vault_manifest" -> "vault_manifest"
      [] phase = "key_save"       -> "key_save"
      [] phase = "embedder_dial"  -> "embedder_unreachable"
      [] phase = "envector_init"  -> "envector_init"
      [] phase = "envector_index" -> "envector_index"
      [] OTHER                    -> "unknown"

\* The first that knows the error decides, at last the phase.
ClassifyBootError(e, phase) ==
    LET tried == <<ClassifyConfigErr(e, phase), ClassifyTLSErr(e), ClassifyVaultSentinel(e),
                   ClassifyNetErr(e), ClassifyGRPCStatus(e), PhaseFallback(phase)>>
    IN  tried[CHOOSE i \in 1 .. 6 : tried[i] # "none" /\ \A j \in 1 .. i - 1 : tried[j] = "none"]

ClassifyDormantReason(reason) ==
    CASE reason = "not_configured"     -> "config_missing"
      [] reason = "vault_unconfigured" -> "vault_not_configured"
      [] reason = "user_deactivated"   -> "user_deactivated"
      [] OTHER                         -> "config_invalid"

\* Kinds that do not go away by themselves; everything else is worth waiting for.
NeedsAction ==
    {"config_missing", "config_invalid", "config_parse", "user_deactivated",
     "vault_not_configured", "vault_bad_endpoint", "vault_ca_file", "vault_dial_opts",
     "vault_tls_handshake", "vault_tls_hostname", "vault_auth", "vault_permission",
     "vault_invalid_input", "vault_manifest"}

Retryable(kind) == kind \notin NeedsAction
=============================================================================
