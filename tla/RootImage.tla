------------------------------ MODULE RootImage ------------------------------
(***************************************************************************)
(* The root file system of the VMs of one BlockRunner.  Its vm_config names *)
(* one image file, configure_and_boot attaches it to every VM as a drive   *)
(* that is not read-only, and nothing copies or restores it.  BlockExecution *)
(* with the contents of that file: which guests have written to it.        *)
(***************************************************************************)
EXTENDS BlockExecution

VARIABLES
    image,      \* VMs whose guest has written to the image
    seen        \* what was in the image when each guest booted

imageVars == <<vars, image, seen>>

ImageInit == Init /\ image = {} /\ seen = [v \in Vms |-> {}]

\* The drive is what the boot finds in the file.
Steps ==
    /\ Next
    /\ seen' = [v \in Vms |-> IF machine[v] # "running" /\ machine'[v] = "running"
                              THEN image ELSE seen[v]]
    /\ UNCHANGED image

\* At the latest for the temporary files of the init script.
GuestWrites(v) ==
    /\ proc[v] = "serving" /\ machine[v] = "running" /\ "drives" \in conf[v]
    /\ image' = image \cup {v}
    /\ UNCHANGED <<vars, seen>>

ImageSpec == ImageInit /\ [][Steps \/ \E v \in Vms : GuestWrites(v)]_imageVars

-----------------------------------------------------------------------------
\* THREAT_MODEL.md says that the disk of a VM is ephemeral.  Then what one
\* guest writes is never there when another one boots.
DiskIsEphemeral == \A v \in Vms : seen[v] \subseteq {v}
=============================================================================
