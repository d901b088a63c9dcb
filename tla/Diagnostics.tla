----------------------------- MODULE Diagnostics -----------------------------
(***************************************************************************)
(* The diagnostics and vault_status tools (service/lifecycle.go).  They    *)
(* bypass the gate: they read client after client of a process that may be *)
(* booting, without a lock, and probe them.  A probe that fails as if the  *)
(* dependency was away asks for a fresh boot, like any other RPC.          *)
(*                                                                         *)
(* Clients are numbered as the boots inject them, 0 for nil.               *)
(***************************************************************************)
EXTENDS Integers

CONSTANTS Reports,   \* calls of the tools, one each
          MaxClient  \* bound: boots that get as far as the Vault's client

ASSUME ReportAssumption == MaxClient \in Nat \ {0}

VARIABLES
    gate,      \* Manager.state, the two of a running boot as "booting"
    boot,      \* what the boot injects next, "none" without a boot
    vault,     \* LifecycleService.Vault
    keyed,     \* LifecycleService.EncKeyLoaded
    embedder,  \* LifecycleService.embedder
    envector,  \* LifecycleService.Envector
    infoHeld,  \* another call keeps infoCache.mu while it asks runed for Info
    dpc,       \* program counter of each call
    checked,   \* the Vault client whose health the call asks for
    probe,     \* the goroutine of probeEnvector
    result,    \* what the call has found out so far
    sick       \* history: Vault clients found to be away behind an active gate

clients        == <<vault, keyed, embedder, envector, infoHeld>>
diagnosticVars == <<gate, boot, clients, dpc, checked, probe, result, sick>>

Steps   == <<"vault", "bundle", "embedder", "envector", "activate">>
CallPCs == {"idle", "client", "health", "status", "keys", "pipelines", "info", "embedder",
            "invalidate", "probe", "wait", "verdict", "done"}

Findings == {"configured", "healthy", "keyed", "pipelines", "reachable", "ok"}

DiagnosticsTypeOK ==
    /\ gate \in {"booting", "active", "dormant"}
    /\ boot \in {Steps[i] : i \in DOMAIN Steps} \union {"none"}
    /\ {vault, embedder, envector} \subseteq 0 .. MaxClient
    /\ keyed \in BOOLEAN
    /\ infoHeld \in BOOLEAN
    /\ dpc \in [Reports -> CallPCs]
    /\ checked \in [Reports -> 0 .. MaxClient]
    /\ probe \in [Reports -> {"none", "running", "sent"}]
    /\ result \in [Reports -> [Findings -> BOOLEAN]]
    /\ sick \subseteq 1 .. MaxClient

\* A process that starts, or one that is dormant and left alone.
DiagnosticsInit(asked) ==
    /\ IF asked THEN gate = "booting" /\ boot = "vault" ELSE gate = "dormant" /\ boot = "none"
    /\ vault = 0 /\ embedder = 0 /\ envector = 0 /\ keyed = FALSE
    /\ infoHeld = FALSE
    /\ dpc = [c \in Reports |-> IF asked THEN "idle" ELSE "done"]
    /\ checked = [c \in Reports |-> 0]
    /\ probe = [c \in Reports |-> "none"]
    /\ result = [c \in Reports |-> [f \in Findings |-> FALSE]]
    /\ sick = {}

-----------------------------------------------------------------------------
(* The boot, see BootLifecycle. *)

Retrigger ==
    IF gate = "booting" THEN UNCHANGED <<gate, boot>>
    ELSE gate' = "booting" /\ boot' = "vault"

\* One injection after the other; a bundle may come without an EncKey.
BootInjects ==
    /\ \/ /\ boot = "vault" /\ vault < MaxClient
          /\ vault' = vault + 1 /\ boot' = "bundle"
          /\ UNCHANGED <<gate, keyed, embedder, envector>>
       \/ /\ boot = "bundle"
          /\ keyed' \in BOOLEAN /\ boot' = "embedder"
          /\ UNCHANGED <<gate, vault, embedder, envector>>
       \/ /\ boot = "embedder"
          /\ embedder' = vault /\ boot' = "envector"
          /\ UNCHANGED <<gate, vault, keyed, envector>>
       \/ /\ boot = "envector"
          /\ envector' = vault /\ boot' = "activate"
          /\ UNCHANGED <<gate, vault, keyed, embedder>>
       \/ /\ boot = "activate"
          /\ gate' = "active" /\ boot' = "none"
          /\ UNCHANGED <<vault, keyed, embedder, envector>>
    /\ UNCHANGED <<infoHeld, dpc, checked, probe, result, sick>>

\* An attempt fails and another begins, or the process turns dormant.
BootFails ==
    /\ boot \in {"vault", "embedder", "envector"}
    /\ \/ boot' = "vault" /\ UNCHANGED gate
       \/ boot = "vault" /\ boot' = "none" /\ gate' = "dormant"
    /\ UNCHANGED <<clients, dpc, checked, probe, result, sick>>

\* An RPC of another call fails, or somebody asks for a reload.  Bound: while a tool
\* looks, or will.
ReloadPipelines ==
    /\ gate # "booting" /\ \E c \in Reports : dpc[c] # "done"
    /\ Retrigger
    /\ UNCHANGED <<clients, dpc, checked, probe, result, sick>>

-----------------------------------------------------------------------------
(* The tools. *)

DiagnosticsGoes(c, to) == dpc' = [dpc EXCEPT ![c] = to]

Found(c, field, value) == result' = [result EXCEPT ![c][field] = value]

\* What an RPC does to the boot: UnaryRecovery asks for another when it fails for a
\* reason that may pass.
RpcEnds == UNCHANGED <<gate, boot>> \/ Retrigger

\* vault_status: without a client the standard mode is all there is to say.
BeginVaultStatus(c) ==
    /\ dpc[c] = "idle"
    /\ Found(c, "configured", vault # 0)
    /\ checked' = [checked EXCEPT ![c] = vault]
    /\ DiagnosticsGoes(c, IF vault = 0 THEN "done" ELSE "status")
    /\ UNCHANGED <<gate, boot, clients, probe, sick>>

\* Diagnostics as far as the first look at Vault's client ...
BeginDiagnostics(c) ==
    /\ dpc[c] = "idle"
    /\ Found(c, "configured", vault # 0)
    /\ DiagnosticsGoes(c, "client")
    /\ UNCHANGED <<gate, boot, clients, checked, probe, sick>>

\* ... and the second.
PickVault(c) ==
    /\ dpc[c] = "client"
    /\ checked' = [checked EXCEPT ![c] = vault]
    /\ DiagnosticsGoes(c, IF vault = 0 THEN "keys" ELSE "health")
    /\ UNCHANGED <<gate, boot, clients, probe, result, sick>>

AfterHealth(c) == DiagnosticsGoes(c, IF dpc[c] = "status" THEN "done" ELSE "keys")

\* HealthCheck answers, serving or not, or fails for a reason that will not pass.
HealthChecked(c) ==
    /\ dpc[c] \in {"health", "status"}
    /\ \E serving \in BOOLEAN : Found(c, "healthy", serving)
    /\ AfterHealth(c)
    /\ UNCHANGED <<gate, boot, clients, checked, probe, sick>>

\* Fault: the connection has no interceptor.
HealthCheckFailsQuietly(c) ==
    /\ dpc[c] \in {"health", "status"}
    /\ sick' = IF gate = "active" THEN sick \union {checked[c]} ELSE sick
    /\ AfterHealth(c)
    /\ UNCHANGED <<gate, boot, clients, checked, probe, result>>

\* HealthCheck finds the Vault away, slow or busy; the interceptor asks for a boot
\* before the call sees the error.
HealthCheckFails(c) ==
    /\ dpc[c] \in {"health", "status"}
    /\ Retrigger
    /\ sick' = IF gate = "active" THEN sick \union {checked[c]} ELSE sick
    /\ AfterHealth(c)
    /\ UNCHANGED <<clients, checked, probe, result>>

ReadKeys(c) ==
    /\ dpc[c] = "keys"
    /\ Found(c, "keyed", keyed)
    /\ DiagnosticsGoes(c, "pipelines")
    /\ UNCHANGED <<gate, boot, clients, checked, probe, sick>>

ReadPipelines(c) ==
    /\ dpc[c] = "pipelines"
    /\ Found(c, "pipelines", gate = "active")
    /\ DiagnosticsGoes(c, IF embedder = 0 THEN "probe" ELSE "info")
    /\ UNCHANGED <<gate, boot, clients, checked, probe, sick>>

\* Info of the daemon, from the cache or by an RPC, whatever it answers.  Lock of the
\* cache's mutex comes first, and does not look at the deadline.
AskInfo(c) ==
    /\ dpc[c] = "info"
    /\ ~infoHeld
    /\ RpcEnds
    /\ DiagnosticsGoes(c, "embedder")
    /\ UNCHANGED <<clients, checked, probe, result, sick>>

\* Health of the daemon, whatever it answers.  An uptime lower than the last ...
AskHealth(c) ==
    /\ dpc[c] = "embedder"
    /\ \/ RpcEnds /\ DiagnosticsGoes(c, "probe")
       \/ DiagnosticsGoes(c, "invalidate") /\ UNCHANGED <<gate, boot>>
    /\ UNCHANGED <<clients, checked, probe, result, sick>>

\* ... clears the cache, under its mutex.
Invalidate(c) ==
    /\ dpc[c] = "invalidate"
    /\ ~infoHeld
    /\ DiagnosticsGoes(c, "probe")
    /\ UNCHANGED <<gate, boot, clients, checked, probe, result, sick>>

\* infoCache.Get of another call, a capture for one, keeps the mutex until runed has
\* answered or failed, see EmbedderClient.  Bound: while a tool needs it.
OtherAsksInfo ==
    /\ ~infoHeld
    /\ \E c \in Reports : dpc[c] \in {"info", "invalidate"}
    /\ infoHeld' = TRUE
    /\ UNCHANGED <<gate, boot, vault, keyed, embedder, envector, dpc, checked, probe, result,
                   sick>>

OtherHasInfo ==
    /\ infoHeld
    /\ infoHeld' = FALSE
    /\ UNCHANGED <<gate, boot, vault, keyed, embedder, envector, dpc, checked, probe, result,
                   sick>>

\* probeEnvector, if there is something to probe.
StartProbe(c) ==
    /\ dpc[c] = "probe"
    /\ IF envector = 0
       THEN DiagnosticsGoes(c, "verdict") /\ UNCHANGED probe
       ELSE DiagnosticsGoes(c, "wait") /\ probe' = [probe EXCEPT ![c] = "running"]
    /\ UNCHANGED <<gate, boot, clients, checked, result, sick>>

\* GetIndexList returns, maybe after the call has: the channel takes its error.
ProbeReturns(c) ==
    /\ probe[c] = "running"
    /\ RpcEnds
    /\ probe' = [probe EXCEPT ![c] = "sent"]
    /\ UNCHANGED <<clients, dpc, checked, result, sick>>

\* The probe's answer, or the end of its time; when both are there, either.
CollectProbe(c) ==
    /\ dpc[c] = "wait"
    /\ \/ probe[c] = "sent" /\ \E reachable \in BOOLEAN : Found(c, "reachable", reachable)
       \/ UNCHANGED result
    /\ DiagnosticsGoes(c, "verdict")
    /\ UNCHANGED <<gate, boot, clients, checked, probe, sick>>

\* Fault: the verdict goes by what the call found when it began.
VerdictByFirstLook(c) ==
    /\ dpc[c] = "verdict"
    /\ Found(c, "ok", ~(result[c].configured /\ ~result[c].healthy) /\ result[c].keyed)
    /\ DiagnosticsGoes(c, "done")
    /\ UNCHANGED <<gate, boot, clients, checked, probe, sick>>

\* OK, unless there is a Vault by now that was not healthy, or no EncKey.
Verdict(c) ==
    /\ dpc[c] = "verdict"
    /\ Found(c, "ok", ~(vault # 0 /\ ~result[c].healthy) /\ result[c].keyed)
    /\ DiagnosticsGoes(c, "done")
    /\ UNCHANGED <<gate, boot, clients, checked, probe, sick>>

ReportStep(c) ==
    \/ PickVault(c) \/ HealthChecked(c) \/ HealthCheckFails(c) \/ ReadKeys(c)
    \/ ReadPipelines(c) \/ AskInfo(c) \/ AskHealth(c) \/ Invalidate(c) \/ StartProbe(c)
    \/ CollectProbe(c) \/ Verdict(c)

DiagnosticsNext ==
    \/ BootInjects \/ BootFails \/ ReloadPipelines \/ OtherAsksInfo \/ OtherHasInfo
    \/ \E c \in Reports : \/ BeginVaultStatus(c) \/ BeginDiagnostics(c)
                          \/ ReportStep(c) \/ ProbeReturns(c)

DiagnosticsSpec ==
    (\E asked \in BOOLEAN : DiagnosticsInit(asked)) /\ [][DiagnosticsNext]_diagnosticVars

-----------------------------------------------------------------------------
(* Properties. *)

\* Diagnostics never says OK of a Vault it has not asked: a call that began before the
\* first client was injected and went on while a boot loaded the keys included.
OkMeansChecked ==
    \A c \in Reports : result[c].ok => result[c].healthy /\ result[c].keyed

\* A Vault client that a tool found to be away behind an active gate is never behind an
\* active gate again: the probe has claimed a boot, and whatever loop answers the claim
\* brings another client.
SickVaultIsReplaced == gate = "active" => vault \notin sick

\* The tools answer while their RPCs run into their deadlines, although the SDK may
\* never return from a probe, and although the embedder's mutex is taken again and again
\* by calls before them.  A tool may hang with the call that keeps the mutex if runed
\* never answers that one, see TimedCallsEnd of EmbedderClient.
ReportsEnd == []<>~infoHeld => \A c \in Reports : dpc[c] # "idle" ~> dpc[c] = "done"
=============================================================================
