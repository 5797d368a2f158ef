-------------------------- MODULE BackendPreflight --------------------------
(***************************************************************************)
(* What FirecrackerBackend looks at before it starts a process: health_check*)
(* and the heads of spawn, restore and execute_command, up to the exec     *)
(* (firecracker.rs).  Every look is a step, and the host may change between *)
(* two of them: the KVM module is loaded or unloaded, the binary installed, *)
(* moved or removed.  What follows the exec is FirecrackerBackend.         *)
(***************************************************************************)
EXTENDS Integers, FiniteSets

CONSTANTS
    Tasks,      \* callers of the backend, one call each
    MaxChanges  \* bound on changes of the host

ASSUME PreflightAssumption == MaxChanges \in Nat

\* The form of binary_path: absolute, a bare name, or relative with a slash.
Styles == {"absolute", "bare", "relative"}

\* PATH: directories; directories and an empty entry; not set.
SearchPaths == {"dirs", "empty", "unset"}

\* A file that binary_path could mean is at the absolute path ("root"), at
\* the path taken from the working directory ("cwd") or from a directory of
\* PATH ("dir"), or in the C library's default for PATH ("default").

Calls == {"health", "spawn", "restore", "execute"}
Outcomes == {"Ok", "Started", "KvmUnavailable", "BinaryNotFound", "NoEntry", "Io"}

VARIABLES
    style,      \* the form of binary_path, fixed by FirecrackerBackend::new
    searchPath, \* PATH of the process
    kvm,        \* /dev/kvm exists
    files,      \* places at which the binary is
    version,    \* number of changes of the host so far
    call,       \* the call each task makes
    pc,         \* the next look of that call
    outcome,    \* its result; NoEntry: exec finds nothing (SpawnFailed, RestoreFailed)
    began,      \* version of the host when the call began
    ended,      \* version of the host when it returned
    kept        \* places at which the binary has been ever since the call began

hostVars == <<style, searchPath, kvm, files, version>>
vars == <<hostVars, call, pc, outcome, began, ended, kept>>

-----------------------------------------------------------------------------
(* Where each of the three ways to look for the binary looks.              *)

\* Path::exists on binary_path as it is.
GivenPlaces == IF style = "absolute" THEN {"root"} ELSE {"cwd"}

\* which_binary joins every relative path to the entries of PATH.  A PATH
\* that is not set counts as one empty entry, which is the working directory.
WhichPlaces ==
    IF style = "absolute" THEN {"root"}
    ELSE CASE searchPath = "dirs" -> {"dir"}
           [] searchPath = "empty" -> {"dir", "cwd"}
           [] searchPath = "unset" -> {"cwd"}

\* Command::spawn searches only for a bare name, as execvp does.
ExecPlaces ==
    IF style # "bare" THEN GivenPlaces
    ELSE IF searchPath = "unset" THEN {"default"} ELSE WhichPlaces

Places == GivenPlaces \cup WhichPlaces \cup ExecPlaces

At(places) == files \cap places # {}

\* The looks of each call; spawn may skip which_binary.
LooksOf(c) ==
    CASE c = "health" -> {"kvm", "metadata", "which"}
      [] c = "spawn" -> {"kvm", "given", "which", "mkdir"}
      [] c = "execute" -> {"kvm", "which", "mkdir"}
      [] c = "restore" -> {"mkdir"}
      [] OTHER -> {}

TypeOK ==
    /\ style \in Styles /\ searchPath \in SearchPaths
    /\ kvm \in BOOLEAN /\ files \in SUBSET Places /\ version \in 0 .. MaxChanges
    /\ call \in [Tasks -> Calls \cup {"none"}]
    /\ \A t \in Tasks : pc[t] \in LooksOf(call[t]) \cup {"idle"}
    /\ outcome \in [Tasks -> Outcomes \cup {"none"}]
    /\ began \in [Tasks -> 0 .. MaxChanges] /\ ended \in [Tasks -> 0 .. MaxChanges]
    /\ kept \in [Tasks -> SUBSET Places]

Init ==
    /\ style \in Styles /\ searchPath \in SearchPaths
    /\ kvm \in BOOLEAN /\ files \in SUBSET Places /\ version = 0
    /\ call = [t \in Tasks |-> "none"]
    /\ pc = [t \in Tasks |-> "idle"]
    /\ outcome = [t \in Tasks |-> "none"]
    /\ began = [t \in Tasks |-> 0] /\ ended = [t \in Tasks |-> 0]
    /\ kept = [t \in Tasks |-> {}]

-----------------------------------------------------------------------------
Goto(t, p) == pc' = [pc EXCEPT ![t] = p] /\ UNCHANGED <<outcome, ended>>

Returns(t, r) ==
    /\ pc' = [pc EXCEPT ![t] = "idle"]
    /\ outcome' = [outcome EXCEPT ![t] = r]
    /\ ended' = [ended EXCEPT ![t] = version]

\* restore looks for its snapshot files, which are taken to be there, and
\* for nothing else.
Begin(t, c) ==
    /\ call[t] = "none"
    /\ call' = [call EXCEPT ![t] = c]
    /\ Goto(t, IF c = "restore" THEN "mkdir" ELSE "kvm")
    /\ began' = [began EXCEPT ![t] = version]
    /\ kept' = [kept EXCEPT ![t] = files]
    /\ UNCHANGED hostVars

\* Mutant: spawn asks which_binary at once, as execute_command does.
AfterKvmWhich(c) == IF c = "health" THEN "metadata" ELSE "which"

\* Mutant: health_check begins like spawn.
AfterKvmShared(c) == IF c = "execute" THEN "which" ELSE "given"

AfterKvm(c) ==
    CASE c = "health" -> "metadata" [] c = "spawn" -> "given" [] c = "execute" -> "which"

\* Path::new("/dev/kvm").exists()
LookForKvm(t) ==
    /\ pc[t] = "kvm"
    /\ IF kvm THEN Goto(t, AfterKvm(call[t])) ELSE Returns(t, "KvmUnavailable")
    /\ UNCHANGED <<hostVars, call, began, kept>>

\* Mutant: health_check returns without a look at the binary.
KvmMetadataOnly(t) ==
    /\ pc[t] = "metadata"
    /\ Returns(t, IF kvm THEN "Ok" ELSE "KvmUnavailable")
    /\ UNCHANGED <<hostVars, call, began, kept>>

\* tokio::fs::metadata("/dev/kvm").await
KvmMetadata(t) ==
    /\ pc[t] = "metadata"
    /\ IF kvm THEN Goto(t, "which") ELSE Returns(t, "KvmUnavailable")
    /\ UNCHANGED <<hostVars, call, began, kept>>

\* if !self.binary_path.exists()
LookAtGiven(t) ==
    /\ pc[t] = "given"
    /\ Goto(t, IF At(GivenPlaces) THEN "mkdir" ELSE "which")
    /\ UNCHANGED <<hostVars, call, began, kept>>

WhichBinary(t) ==
    /\ pc[t] = "which"
    /\ CASE ~ At(WhichPlaces) -> Returns(t, "BinaryNotFound")
         [] At(WhichPlaces) /\ call[t] = "health" -> Returns(t, "Ok")
         [] At(WhichPlaces) /\ call[t] # "health" -> Goto(t, "mkdir")
    /\ UNCHANGED <<hostVars, call, began, kept>>

\* create_dir_all(..).await? and Command::spawn().  A file that is found is
\* taken to be executable.
ExecVmm(t) ==
    /\ pc[t] = "mkdir"
    /\ \/ Returns(t, IF At(ExecPlaces) THEN "Started" ELSE "NoEntry")
       \/ Returns(t, "Io")
    /\ UNCHANGED <<hostVars, call, began, kept>>

\* KVM comes or goes, or the binary does at one place.
HostChanges ==
    /\ version < MaxChanges
    /\ version' = version + 1
    /\ \/ kvm' = ~kvm /\ UNCHANGED files
       \/ \E p \in Places :
             /\ files' = IF p \in files THEN files \ {p} ELSE files \cup {p}
             /\ UNCHANGED kvm
    /\ kept' = [t \in Tasks |-> kept[t] \cap files']
    /\ UNCHANGED <<style, searchPath, call, pc, outcome, began, ended>>

Next ==
    \/ HostChanges
    \/ \E t \in Tasks :
          \/ \E c \in Calls : Begin(t, c)
          \/ LookForKvm(t) \/ KvmMetadata(t) \/ LookAtGiven(t) \/ WhichBinary(t) \/ ExecVmm(t)

Spec == Init /\ [][Next]_vars

-----------------------------------------------------------------------------
\* which_binary and exec look in the same places.  So it is for an absolute
\* path and for a bare name, if there is a PATH; a relative path is looked up
\* in PATH by the one and in the working directory by the other.
LooksAlike == ExecPlaces = WhichPlaces

Returned(t, calls) == call[t] \in calls /\ outcome[t] # "none" /\ began[t] = ended[t]

\* health_check tells callers what they will meet: on one and the same host,
\* in whichever order the calls come, spawn and execute_command get their
\* process started if health_check returned Ok, and do not if it returned an
\* error.
HealthAgrees ==
    LooksAlike =>
        \A q, t \in Tasks :
            (/\ Returned(q, {"health"}) /\ Returned(t, {"spawn", "execute"})
             /\ began[q] = began[t] /\ outcome[t] # "Io")
            => (outcome[q] = "Ok" <=> outcome[t] = "Started")

\* Whatever the form of binary_path, and however the host changes during the
\* call, spawn does not report BinaryNotFound of a binary that was all the
\* time where exec would have found it (a bare name without a PATH aside,
\* which exec looks for in places that neither check knows).
SpawnRefusesNothingStartable ==
    \A t \in Tasks :
        (/\ call[t] = "spawn" /\ outcome[t] = "BinaryNotFound"
         /\ ExecPlaces \subseteq GivenPlaces \cup WhichPlaces)
            => kept[t] \cap ExecPlaces = {}
=============================================================================
