--------------------------- MODULE SandboxGateway ---------------------------
(***************************************************************************)
(* forge-gateway: the sandbox pool (pool.rs) and the HTTP handlers that    *)
(* share it (routes.rs).  Handlers run on a multi-threaded runtime, so     *)
(* another handler may run between any two uses of the pool, and between   *)
(* the arrival of a request, its handler and the delivery of the reply.  A *)
(* client that hangs up has its handler dropped before it begins or at the *)
(* one await there is, or loses the reply.                                 *)
(***************************************************************************)
EXTENDS Integers, FiniteSets

CONSTANTS
    Requests,   \* HTTP requests, each made at most once
    Ids,        \* sandbox identifiers, each drawn at most once
    NoId,       \* a request without a sandbox
    Runtimes,   \* supported runtimes: "node" and "python", which are treated alike
    Names       \* runtime names a client may send

ASSUME GatewayAssumption ==
    NoId \notin Ids /\ Runtimes \subseteq Names /\ "none" \notin Runtimes

VARIABLES
    entries,    \* SandboxPool: runtime of each registered sandbox, "none" if not registered
    drawn,      \* identifiers ever returned by the pool
    heard,      \* what clients have been told of each identifier
    phase,      \* where each request is
    kind,       \* endpoint of the request
    sandbox,    \* sandbox the request names, or creates
    runtime,    \* interpreter the request's command runs under
    told,       \* what clients had been told of the sandbox when the request arrived
    child,      \* the process started for the request
    pipes,      \* requests whose handler has not read all output of its process
    reply       \* status and result of the response

poolVars == <<entries, drawn>>
requestVars == <<kind, sandbox, runtime, told>>
processVars == <<child, pipes>>
vars == <<poolVars, heard, phase, requestVars, processVars, reply>>

Kinds == {"create", "destroy", "shell", "execute"}
Heard == {"nothing", "created", "destroyed"}
Replies == [status : {"none", "200", "201", "204", "400", "404"},
            success : BOOLEAN, exitCode : {"none", "0", "nonzero", "-1"}]
NoReply == [status |-> "none", success |-> FALSE, exitCode |-> "none"]
Status(s) == [NoReply EXCEPT !.status = s]

TypeOK ==
    /\ entries \in [Ids -> Runtimes \cup {"none"}]
    /\ drawn \in SUBSET Ids /\ heard \in [Ids -> Heard]
    /\ phase \in [Requests -> {"new", "arrived", "checked", "running", "done", "answered", "hungup"}]
    /\ kind \in [Requests -> Kinds \cup {"none"}]
    /\ sandbox \in [Requests -> Ids \cup {NoId}]
    /\ runtime \in [Requests -> Names \cup {"none", "sh"}]
    /\ told \in [Requests -> Heard]
    /\ child \in [Requests -> {"none", "running", "zero", "nonzero", "signalled"}]
    /\ pipes \in SUBSET Requests
    /\ reply \in [Requests -> Replies]

Init ==
    /\ entries = [i \in Ids |-> "none"]
    /\ drawn = {} /\ heard = [i \in Ids |-> "nothing"]
    /\ phase = [r \in Requests |-> "new"]
    /\ kind = [r \in Requests |-> "none"]
    /\ sandbox = [r \in Requests |-> NoId]
    /\ runtime = [r \in Requests |-> "none"]
    /\ told = [r \in Requests |-> "nothing"]
    /\ child = [r \in Requests |-> "none"] /\ pipes = {}
    /\ reply = [r \in Requests |-> NoReply]

-----------------------------------------------------------------------------
(* pool.rs: each operation holds the lock from beginning to end.           *)

\* Mutant: the pool makes room by dropping an older sandbox.
PoolCreateEvicts(i, rt) ==
    /\ i \notin drawn
    /\ drawn' = drawn \cup {i}
    /\ entries' = [j \in Ids |-> IF j = i THEN rt ELSE "none"]

PoolCreate(i, rt) ==
    /\ i \notin drawn
    /\ drawn' = drawn \cup {i}
    /\ entries' = [entries EXCEPT ![i] = rt]

PoolContains(i) == entries[i] # "none"

\* Mutant: the entry is only looked up, and stays.
PoolRemoveKeeps(i) == UNCHANGED poolVars

PoolRemove(i) ==
    /\ entries' = [entries EXCEPT ![i] = "none"]
    /\ UNCHANGED drawn

-----------------------------------------------------------------------------
(* routes.rs                                                               *)

Goes(r, p) == phase' = [phase EXCEPT ![r] = p]

Answers(r, a) ==
    /\ Goes(r, "done")
    /\ reply' = [reply EXCEPT ![r] = a]

\* The whole request has been read and routed.  (Identifiers being finite
\* here, there are at most as many creations: ArrivesAny.)
Arrives(r, k, i, rt) ==
    /\ phase[r] = "new"
    /\ Goes(r, "arrived")
    /\ kind' = [kind EXCEPT ![r] = k]
    /\ sandbox' = [sandbox EXCEPT ![r] = i]
    /\ runtime' = [runtime EXCEPT ![r] = rt]
    /\ told' = [told EXCEPT ![r] = IF i = NoId THEN "nothing" ELSE heard[i]]
    /\ UNCHANGED <<poolVars, heard, processVars, reply>>

Handles(r, k) == phase[r] = "arrived" /\ kind[r] = k

\* Mutant: the runtime is not validated.
CreateSandboxUnchecked(r, i) ==
    /\ Handles(r, "create")
    /\ PoolCreate(i, runtime[r])
    /\ sandbox' = [sandbox EXCEPT ![r] = i]
    /\ Answers(r, Status("201"))
    /\ UNCHANGED <<heard, kind, runtime, told, processVars>>

CreateSandbox(r, i) ==
    /\ Handles(r, "create") /\ runtime[r] \in Runtimes
    /\ PoolCreate(i, runtime[r])
    /\ sandbox' = [sandbox EXCEPT ![r] = i]
    /\ Answers(r, Status("201"))
    /\ UNCHANGED <<heard, kind, runtime, told, processVars>>

CreateRefused(r) ==
    /\ Handles(r, "create") /\ runtime[r] \notin Runtimes
    /\ Answers(r, Status("400"))
    /\ UNCHANGED <<poolVars, heard, requestVars, processVars>>

DestroySandbox(r) ==
    /\ Handles(r, "destroy")
    /\ PoolRemove(sandbox[r])
    /\ Answers(r, Status(IF PoolContains(sandbox[r]) THEN "204" ELSE "404"))
    /\ UNCHANGED <<heard, requestVars, processVars>>

\* shell and execute consult the pool first.  execute runs the interpreter
\* that the request names, not the one the sandbox was created with.
LookUp(r) ==
    /\ Handles(r, "shell") \/ Handles(r, "execute")
    /\ IF PoolContains(sandbox[r])
       THEN Goes(r, "checked") /\ UNCHANGED reply
       ELSE Answers(r, Status("404"))
    /\ UNCHANGED <<poolVars, heard, requestVars, processVars>>

\* run_shell, run_code: output() starts the process, with its output in two
\* pipes.
StartChild(r) ==
    /\ phase[r] = "checked" /\ runtime[r] \in Runtimes \cup {"sh"}
    /\ child' = [child EXCEPT ![r] = "running"] /\ pipes' = pipes \cup {r}
    /\ Goes(r, "running")
    /\ UNCHANGED <<poolVars, heard, requestVars, reply>>

\* An unsupported runtime, or an interpreter that cannot be started: output()
\* fails without a process.
StartFails(r) ==
    /\ phase[r] = "checked"
    /\ Answers(r, Status("400"))
    /\ UNCHANGED <<poolVars, heard, requestVars, processVars>>

ChildEnds(r, how) ==
    /\ child[r] = "running"
    /\ child' = [child EXCEPT ![r] = how]
    /\ UNCHANGED <<poolVars, heard, phase, requestVars, pipes, reply>>

\* Both pipes have been read to their end.  The process may have closed them
\* before it ends, and what it has started may hold them open behind it.
PipesEnd(r) ==
    /\ r \in pipes
    /\ pipes' = pipes \ {r}
    /\ UNCHANGED <<poolVars, heard, phase, requestVars, child, reply>>

\* output() fails with the process started: it could not be waited for, or a
\* pipe not be read.  The answer is that of StartFails.  The pipes are closed;
\* the process, if it still runs, is not killed.
OutputFails(r) ==
    /\ phase[r] = "running"
    /\ Answers(r, Status("400"))
    /\ pipes' = pipes \ {r}
    /\ UNCHANGED <<poolVars, heard, requestVars, child>>

ShellResult(how) ==
    [status |-> "200", success |-> how = "zero",
     exitCode |-> CASE how = "zero" -> "0" [] how = "nonzero" -> "nonzero" [] OTHER -> "-1"]

\* Mutant: only a process with an exit code counts as finished.
RespondToCodes(r) ==
    /\ phase[r] = "running" /\ child[r] \in {"zero", "nonzero"} /\ r \notin pipes
    /\ Answers(r, ShellResult(child[r]))
    /\ UNCHANGED <<poolVars, heard, requestVars, processVars>>

\* Mutant: the exit of the process is answered, whatever output is to come.
RespondAtExit(r) ==
    /\ phase[r] = "running" /\ child[r] # "running"
    /\ Answers(r, ShellResult(child[r]))
    /\ UNCHANGED <<poolVars, heard, requestVars, processVars>>

\* output() is complete: the process has ended and so have both pipes.
Respond(r) ==
    /\ phase[r] = "running" /\ child[r] # "running" /\ r \notin pipes
    /\ Answers(r, ShellResult(child[r]))
    /\ UNCHANGED <<poolVars, heard, requestVars, processVars>>

\* What a client is told of a destruction is not revoked by a creation
\* whose reply was slower.
Deliver(r) ==
    /\ phase[r] = "done"
    /\ Goes(r, "answered")
    /\ heard' = CASE reply[r].status = "204" -> [heard EXCEPT ![sandbox[r]] = "destroyed"]
                 [] reply[r].status = "201" /\ heard[sandbox[r]] = "nothing" ->
                       [heard EXCEPT ![sandbox[r]] = "created"]
                 [] OTHER -> heard
    /\ UNCHANGED <<poolVars, requestVars, processVars, reply>>

\* The connection is dropped: before its handler is polled, at the await of
\* output(), which does not set kill_on_drop so that the process runs on, or
\* with the reply unsent.
HangUp(r) ==
    /\ phase[r] \in {"arrived", "running", "done"}
    /\ Goes(r, "hungup")
    /\ pipes' = pipes \ {r}
    /\ UNCHANGED <<poolVars, heard, requestVars, child, reply>>

-----------------------------------------------------------------------------
ArrivesAny(r) ==
    \/ /\ Cardinality({q \in Requests : kind[q] = "create"}) < Cardinality(Ids)
       /\ \E rt \in Names : Arrives(r, "create", NoId, rt)
    \/ \E i \in Ids :
          \/ Arrives(r, "destroy", i, "none") \/ Arrives(r, "shell", i, "sh")
          \/ \E rt \in Names : Arrives(r, "execute", i, rt)

Handler(r) ==
    \/ CreateRefused(r) \/ DestroySandbox(r) \/ LookUp(r)
    \/ StartChild(r) \/ StartFails(r) \/ Respond(r) \/ Deliver(r)
    \/ \E i \in Ids : CreateSandbox(r, i)

Next ==
    \E r \in Requests :
        \/ ArrivesAny(r) \/ Handler(r) \/ HangUp(r)
        \/ OutputFails(r) \/ PipesEnd(r)
        \/ \E how \in {"zero", "nonzero", "signalled"} : ChildEnds(r, how)

Spec == Init /\ [][Next]_vars

\* The runtime polls the handlers that can proceed, and the replies go out.
\* Nothing is assumed of commands and clients.
FairSpec == Spec /\ \A r \in Requests : WF_vars(Handler(r))

-----------------------------------------------------------------------------
Answered(r, s) == reply[r].status = s

\* A sandbox is created by one request and destroyed by at most one: of
\* several concurrent destructions one is confirmed and the others learn
\* that there is no such sandbox, also if the confirmation is lost.
OneDestroyWins ==
    \A i \in Ids :
        Cardinality({r \in Requests : sandbox[r] = i /\ Answered(r, "204")})
            <= Cardinality({r \in Requests : sandbox[r] = i /\ Answered(r, "201")})

\* Once a client has been told that a sandbox is destroyed, every request
\* that arrives for it, on any connection, is answered 404 or not at all,
\* and runs no command.
LateRequestsRefused ==
    \A r \in Requests : told[r] = "destroyed" =>
        reply[r].status \in {"none", "404"} /\ child[r] = "none"

\* A client that has been told its sandbox's identifier finds the sandbox
\* until someone destroys it: other requests, lost replies and clients that
\* went away do not make it disappear.
RefusedOnlyIfDestroyed ==
    \A r \in Requests : (told[r] = "created" /\ Answered(r, "404")) =>
        \E q \in Requests \ {r} : sandbox[q] = sandbox[r] /\ Answered(q, "204")

\* A command's result is sent only when its process has ended and all of its
\* output has been read, and reports success exactly when it reports exit code
\* 0.  A request answered 404, or for a runtime that is not supported, has
\* started no process; any other may have, also if it is answered 400.
RepliesTellTheOutcome ==
    \A r \in Requests :
        /\ Answered(r, "200") =>
              /\ child[r] \notin {"none", "running"} /\ r \notin pipes
              /\ reply[r].success <=> reply[r].exitCode = "0"
        /\ Answered(r, "404") \/ runtime[r] \notin Runtimes \cup {"sh"} => child[r] = "none"

\* Every request is answered, unless its client goes away, its command runs
\* for ever or something that the command left running holds its output open.
RequestsSettle ==
    \A r \in Requests :
        [](phase[r] = "arrived" =>
              <>(phase[r] \in {"answered", "hungup"} \/ [](child[r] = "running" \/ r \in pipes)))
=============================================================================
