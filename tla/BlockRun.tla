------------------------------ MODULE BlockRun ------------------------------
(***************************************************************************)
(* What BlockRunner::execute promises its caller.  A run is given a block  *)
(* and a VM of its own and ends once, in a record, an error or because its *)
(* caller dropped it.  The VM is on only while the run lasts: an error or a *)
(* drop switches it off in the same moment, and a record is made of what a *)
(* VM that is off has printed.                                             *)
(***************************************************************************)
EXTENDS Integers, Sequences

CONSTANTS
    Vms,        \* one VM per run
    Blocks,
    NoBlock,
    Digest(_)   \* what a record keeps of a console

VARIABLES
    given,      \* the block of each run, NoBlock before it begins
    power,      \* "new", "on" or "off"
    printed,    \* the console of each VM
    verdict     \* how each run ended, and the digest in its record

runVars == <<given, power, printed, verdict>>

Silence == <<>>
Open == [end |-> "open", digest |-> Silence]

RunInit ==
    /\ given = [v \in Vms |-> NoBlock]
    /\ power = [v \in Vms |-> "new"]
    /\ printed = [v \in Vms |-> Silence]
    /\ verdict = [v \in Vms |-> Open]

Lasts(v) == given[v] # NoBlock /\ verdict[v] = Open

BeginRun(v, b) ==
    /\ given[v] = NoBlock
    /\ given' = [given EXCEPT ![v] = b]
    /\ UNCHANGED <<power, printed, verdict>>

PowerOn(v) ==
    /\ Lasts(v) /\ power[v] = "new"
    /\ power' = [power EXCEPT ![v] = "on"]
    /\ UNCHANGED <<given, printed, verdict>>

\* What has been printed stays; more comes behind it.
Prints(v) ==
    /\ power[v] = "on"
    /\ Len(printed[v]) <= Len(printed'[v]) /\ SubSeq(printed'[v], 1, Len(printed[v])) = printed[v]
    /\ printed' = [printed EXCEPT ![v] = printed'[v]]
    /\ UNCHANGED <<given, power, verdict>>

\* By itself: the command is done, or the VM crashed.
PowerOff(v) ==
    /\ power[v] = "on"
    /\ power' = [power EXCEPT ![v] = "off"]
    /\ UNCHANGED <<given, printed, verdict>>

MakeRecord(v) ==
    /\ Lasts(v) /\ power[v] = "off"
    /\ verdict' = [verdict EXCEPT ![v] = [end |-> "record", digest |-> Digest(printed[v])]]
    /\ UNCHANGED <<given, power, printed>>

EndWithout(v, end) ==
    /\ Lasts(v)
    /\ verdict' = [verdict EXCEPT ![v] = [end |-> end, digest |-> Silence]]
    /\ power' = [power EXCEPT ![v] = IF @ = "on" THEN "off" ELSE @]
    /\ UNCHANGED <<given, printed>>

RunNext ==
    \E v \in Vms :
        \/ \E b \in Blocks : BeginRun(v, b)
        \/ PowerOn(v) \/ Prints(v) \/ PowerOff(v) \/ MakeRecord(v)
        \/ EndWithout(v, "error") \/ EndWithout(v, "drop")

RunSpec == RunInit /\ [][RunNext]_runVars
=============================================================================
