--------------------------- MODULE EnvectorClient ---------------------------
(***************************************************************************)
(* The enVector clients of one process (internal/adapters/envector): boots *)
(* dial them, open the index and inject them into the services one by one, *)
(* tool calls use the one they read, and CloseAfter ticks after it was     *)
(* replaced a goroutine closes a client, step by step and without looking  *)
(* at who uses it.                                                         *)
(*                                                                         *)
(* Nothing synchronises the fields of a client: Insert, Score and          *)
(* GetMetadata check the index pointer and then use it, GetIndexList uses  *)
(* the SDK pointer unchecked, Close sets both to nil.  What keeps them     *)
(* apart is time alone, so time is part of the model, as timers that count *)
(* down together.  The SDK is external: a call of it ends in an answer or  *)
(* an error, at the latest when its context ends.                          *)
(***************************************************************************)
EXTENDS Naturals

CONSTANTS Calls,       \* slots for calls of the client, each for one method
          Method,      \* the method a slot calls
          Timeout,     \* the deadline its caller gives it in ticks, 0 for none
          CloseAfter,  \* staleClientCloseTime in ticks
          NoCall,
          MaxGen       \* bound: clients dialled, numbered from 1

Methods == {"Insert", "Score", "GetMetadata", "GetIndexList"}

ASSUME ClientAssumption ==
    /\ Method \in [Calls -> Methods]
    /\ Timeout \in [Calls -> Nat]
    /\ NoCall \notin Calls
    /\ CloseAfter \in Nat
    /\ MaxGen \in Nat \ {0}

VARIABLES
    gate,     \* Manager.state, the transient ones as "booting"
    stage,    \* what the running boot does next
    gen,      \* the last client dialled
    wired,    \* the client each service holds
    phase,    \* how far a client has come in its life
    delay,    \* ticks until the Close of a replaced client may begin
    doomed,   \* replaced clients, closed or to be closed
    pc,       \* program counter of each call
    using,    \* the client it read
    left,     \* ticks until its context ends, if it has a deadline
    tries,    \* calls of the SDK it made
    crashed   \* the call that dereferenced a nil pointer, which ends the process

boot == <<gate, stage, gen, wired>>
life == <<phase, delay, doomed>>
call == <<pc, using, left, tries>>
vars == <<boot, life, call, crashed>>

Gens     == 1 .. MaxGen
Services == {"capture", "recall", "lifecycle"}
Stages   == {"dial", "open", "activate"} \union Services
PCs      == {"idle", "read", "check", "use", "rpc", "wait"}

\* The fields of a client over its life: dialled, the index opened, then what
\* Close does in this order: key handle released, connection closed, SDK pointer
\* nil, index pointer nil.
Phases == {"none", "dialled", "open", "no_keys", "no_conn", "no_sdk", "closed"}

Connected == {"dialled", "open", "no_keys"}
HasSdk    == {"dialled", "open", "no_keys", "no_conn"}
HasIndex  == {"open", "no_keys", "no_conn", "no_sdk"}

\* The service a call belongs to; tools of the life cycle service list indexes only.
ServiceOf(c) ==
    CASE Method[c] = "Insert"       -> "capture"
      [] Method[c] = "GetIndexList" -> "lifecycle"
      [] OTHER                      -> "recall"

TypeOK ==
    /\ gate \in {"booting", "active", "dormant"}
    /\ stage \in Stages
    /\ gen \in Gens
    /\ wired \in [Services -> Gens]
    /\ phase \in [Gens -> Phases]
    /\ delay \in [Gens -> 0 .. CloseAfter]
    /\ doomed \subseteq Gens
    /\ pc \in [Calls -> PCs]
    /\ using \in [Calls -> Gens]
    /\ left \in [Calls -> Nat]
    /\ \A c \in Calls : left[c] <= Timeout[c]
    /\ tries \in [Calls -> 0 .. 2]
    /\ crashed \in Calls \union {NoCall}

\* The first boot has ended.
Init ==
    /\ gate = "active" /\ stage = "dial" /\ gen = 1
    /\ wired = [s \in Services |-> 1]
    /\ phase = [g \in Gens |-> IF g = 1 THEN "open" ELSE "none"]
    /\ delay = [g \in Gens |-> 0]
    /\ doomed = {}
    /\ pc = [c \in Calls |-> "idle"]
    /\ using = [c \in Calls |-> 1]
    /\ left = [c \in Calls |-> 0]
    /\ tries = [c \in Calls |-> 0]
    /\ crashed = NoCall

Alive == crashed = NoCall

Goto(c, to) == pc' = [pc EXCEPT ![c] = to]

\* The call returns to its tool, with an answer or an error.
Return(c) ==
    /\ Goto(c, "idle")
    /\ using' = [using EXCEPT ![c] = 1]
    /\ left' = [left EXCEPT ![c] = 0]
    /\ tries' = [tries EXCEPT ![c] = 0]

-----------------------------------------------------------------------------
(* Calls. *)

\* A tool comes to its call of the client and, but for captures, sets a deadline.
\* Tools of the life cycle service run in any state.
Begin(c) ==
    /\ Alive /\ pc[c] = "idle"
    /\ ServiceOf(c) # "lifecycle" => gate = "active"
    /\ left' = [left EXCEPT ![c] = Timeout[c]]
    /\ Goto(c, "read")
    /\ UNCHANGED <<boot, life, using, tries, crashed>>

\* It reads the client of its service.
ReadClient(c) ==
    /\ Alive /\ pc[c] = "read"
    /\ using' = [using EXCEPT ![c] = wired[ServiceOf(c)]]
    /\ Goto(c, IF Method[c] = "GetIndexList" THEN "use" ELSE "check")
    /\ UNCHANGED <<boot, life, left, tries, crashed>>

\* c.idx == nil ends the call with ENVECTOR_NOT_ACTIVATED, which is not retried.
CheckIndex(c) ==
    /\ Alive /\ pc[c] = "check"
    /\ IF phase[using[c]] \in HasIndex
       THEN Goto(c, "use") /\ UNCHANGED <<using, left, tries>>
       ELSE Return(c)
    /\ UNCHANGED <<boot, life, crashed>>

\* The pointer a method works with is still there.
Present(c) ==
    phase[using[c]] \in IF Method[c] = "GetIndexList" THEN HasSdk ELSE HasIndex

\* The field is read once more, unless the compiler kept what the check read, and
\* the SDK is called.
UsePointer(c) ==
    /\ Alive /\ pc[c] = "use"
    /\ Present(c) \/ Method[c] # "GetIndexList"
    /\ Goto(c, "rpc")
    /\ tries' = [tries EXCEPT ![c] = @ + 1]
    /\ UNCHANGED <<boot, life, using, left, crashed>>

\* A pointer that is nil by now ends the process.
Panic(c) ==
    /\ Alive /\ pc[c] = "use" /\ ~Present(c)
    /\ crashed' = c
    /\ UNCHANGED <<boot, life, call>>

Answers(c) ==
    /\ Alive /\ pc[c] = "rpc"
    /\ phase[using[c]] \in Connected
    /\ Return(c)
    /\ UNCHANGED <<boot, life, crashed>>

\* MapSDKError: a closed client, Unavailable, DeadlineExceeded and
\* ResourceExhausted are worth a retry, everything else is not.
Retryable(failure) ==
    failure \in {"ErrClientClosed", "Unavailable", "DeadlineExceeded", "ResourceExhausted"}

\* What the SDK says when it fails: the connection that is gone, the server, the
\* context, or anything else (authentication, keys that were released).
Failures(c) ==
    (IF phase[using[c]] \in Connected THEN {"Unavailable", "ResourceExhausted", "Other"}
     ELSE {"ErrClientClosed", "Other"})
    \union (IF left[c] = 0 /\ Timeout[c] # 0 THEN {"DeadlineExceeded"} ELSE {})

\* insertWithRecovery and scoreWithRecovery wait after a first retryable failure.
Fails(c) ==
    /\ Alive /\ pc[c] = "rpc"
    /\ \E failure \in Failures(c) :
          IF Method[c] \in {"Insert", "Score"} /\ tries[c] = 1 /\ Retryable(failure)
          THEN Goto(c, "wait") /\ UNCHANGED <<using, left, tries>>
          ELSE Return(c)
    /\ UNCHANGED <<boot, life, crashed>>

\* Fault: the second attempt gets a deadline of its own.
RecoveredAfresh(c) ==
    /\ Alive /\ pc[c] = "wait"
    /\ \/ /\ gate = "active" /\ Goto(c, "check")
          /\ left' = [left EXCEPT ![c] = Timeout[c]]
          /\ UNCHANGED <<using, tries>>
       \/ Return(c)
    /\ UNCHANGED <<boot, life, crashed>>

\* WaitForActive, then the same method on the same client; or the first error, on
\* dormant, after RecoverTimeout or when the context ends.
Recovered(c) ==
    /\ Alive /\ pc[c] = "wait"
    /\ \/ gate = "active" /\ Goto(c, "check") /\ UNCHANGED <<using, left, tries>>
       \/ Return(c)
    /\ UNCHANGED <<boot, life, crashed>>

-----------------------------------------------------------------------------
(* Boots. *)

Retrigger ==
    /\ Alive /\ gate \in {"active", "dormant"} /\ stage = "dial" /\ gen < MaxGen
    /\ gate' = "booting"
    /\ UNCHANGED <<stage, gen, wired, life, call, crashed>>

\* The boot ends dormant before it dials.
GoDormant ==
    /\ Alive /\ gate = "booting" /\ stage = "dial"
    /\ gate' = "dormant"
    /\ UNCHANGED <<stage, gen, wired, life, call, crashed>>

\* NewClient: connection, then key handle.
NewClient ==
    /\ Alive /\ gate = "booting" /\ stage = "dial" /\ gen < MaxGen
    /\ gen' = gen + 1
    /\ phase' = [phase EXCEPT ![gen + 1] = "dialled"]
    /\ stage' = "open"
    /\ UNCHANGED <<gate, wired, delay, doomed, call, crashed>>

\* Fault: the client is published before its index is open.
OpenIndexLater ==
    /\ Alive /\ stage = "open"
    /\ stage' = "capture"
    /\ UNCHANGED <<gate, gen, wired, life, call, crashed>>

OpenIndex ==
    /\ Alive /\ stage = "open"
    /\ phase' = [phase EXCEPT ![gen] = "open"]
    /\ stage' = "capture"
    /\ UNCHANGED <<gate, gen, wired, delay, doomed, call, crashed>>

\* The attempt closes the client nobody else has seen and is repeated.
OpenIndexFails ==
    /\ Alive /\ stage = "open"
    /\ phase' = [phase EXCEPT ![gen] = "closed"]
    /\ stage' = "dial"
    /\ UNCHANGED <<gate, gen, wired, delay, doomed, call, crashed>>

AfterInject ==
    CASE stage = "capture" -> "recall" [] stage = "recall" -> "lifecycle" [] OTHER -> "activate"

\* InjectEnvector switches the services one after the other, then
\* closeAfterInterval starts to wait.
InjectEnvector ==
    /\ Alive /\ stage \in Services
    /\ wired' = [wired EXCEPT ![stage] = gen]
    /\ stage' = AfterInject
    /\ IF stage = "lifecycle"
       THEN /\ doomed' = doomed \union {wired[stage]}
            /\ delay' = [delay EXCEPT ![wired[stage]] = CloseAfter]
       ELSE UNCHANGED <<doomed, delay>>
    /\ UNCHANGED <<gate, gen, phase, call, crashed>>

EnterActive ==
    /\ Alive /\ stage = "activate"
    /\ gate' = "active"
    /\ stage' = "dial"
    /\ UNCHANGED <<gen, wired, life, call, crashed>>

AfterClose ==
    [open |-> "no_keys", no_keys |-> "no_conn", no_conn |-> "no_sdk", no_sdk |-> "closed"]

\* Fault: the goroutine does not sleep.
CloseStepAtOnce(g) ==
    /\ Alive /\ g \in doomed /\ phase[g] \in DOMAIN AfterClose
    /\ phase' = [phase EXCEPT ![g] = AfterClose[@]]
    /\ UNCHANGED <<boot, delay, doomed, call, crashed>>

\* One step of client.Close in the goroutine of closeAfterInterval.
CloseStep(g) ==
    /\ Alive /\ g \in doomed /\ delay[g] = 0 /\ phase[g] \in DOMAIN AfterClose
    /\ phase' = [phase EXCEPT ![g] = AfterClose[@]]
    /\ UNCHANGED <<boot, delay, doomed, call, crashed>>

Less(n) == IF n = 0 THEN 0 ELSE n - 1

\* Time passes.  A call with a deadline has returned when its context ends.
Tick ==
    /\ Alive
    /\ \A c \in Calls : pc[c] # "idle" /\ Timeout[c] # 0 => left[c] # 0
    /\ left' = [c \in Calls |-> Less(left[c])]
    /\ delay' = [g \in Gens |-> Less(delay[g])]
    /\ UNCHANGED <<boot, phase, doomed, pc, using, tries, crashed>>

-----------------------------------------------------------------------------
CallStep(c) ==
    \/ Begin(c) \/ ReadClient(c) \/ CheckIndex(c) \/ UsePointer(c) \/ Panic(c)
    \/ Answers(c) \/ Fails(c) \/ Recovered(c)

BootStep ==
    \/ Retrigger \/ GoDormant \/ NewClient \/ OpenIndex \/ OpenIndexFails
    \/ InjectEnvector \/ EnterActive

Next ==
    \/ \E c \in Calls : CallStep(c)
    \/ BootStep
    \/ \E g \in Gens : CloseStep(g)
    \/ Tick

Spec == Init /\ [][Next]_vars

-----------------------------------------------------------------------------
(* Properties. *)

\* A call in the middle of using the client it read.
Using(c) == pc[c] \in {"check", "use", "rpc", "wait"}

\* Calls that cannot last longer than a replaced client is kept.
Brief(c) == Timeout[c] \in 1 .. CloseAfter

\* Whatever a service holds is whole, although boots that fail close clients and
\* replaced ones are closed in the background: it has its index and its keys.
InjectedIsUsable == \A s \in Services : phase[wired[s]] = "open"

\* The delayed Close drains: before its deadline a call that cannot last longer
\* than CloseAfter never finds the client it is using closed or half closed, its
\* second attempt after a recovery included.
BriefCallsAreDrained ==
    \A c \in Calls : Using(c) /\ Brief(c) /\ left[c] > 0 => phase[using[c]] = "open"

\* A nil pointer that passed its check, or is not checked, takes the process down
\* only under a call that may outlast the delay: one without a deadline or with a
\* longer one, or one that has used up its time.
OnlyOverstayersPanic ==
    crashed # NoCall => ~Brief(crashed) \/ left[crashed] = 0
=============================================================================
