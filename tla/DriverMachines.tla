---------------------------- MODULE DriverMachines ----------------------------
(***************************************************************************)
(* The machine of the driver: on Google beside AlloyDB, on AWS beside the  *)
(* others. AwsCloud has all that AWS does; here it is the machine that the *)
(* database must let in.                                                   *)
(***************************************************************************)
EXTENDS ManagedServices

OnGoogle == kind = "alloydb"

\* By tag AWS lists what runs, Google what there is
MachineIsRunning(c) == vm[c].st = "running" \/ (OnGoogle /\ vm[c].st = "stopped")

\* A machine has a new address after every boot
Boot(c, id) ==
    /\ boots' = boots + 1
    /\ vm' = [vm EXCEPT ![c].id = id, ![c].addr = boots', ![c].st = "running"]

\* Google refuses a second machine of the same name; on AWS a new machine takes
\* the place of a stopped one, which AwsCloud keeps track of
Launch(c) == Boot(c, boots + 1)

\* With a machine go its boot disk and the disk attached to it
Delete(c) == vm' = [vm EXCEPT ![c] = [NoMachine EXCEPT !.stray = vm[c].stray]]

WithEnv(f, env) == [f EXCEPT !.envs = Append(@, env)]

LaunchMachine ==
    /\ ses.pc = "vm"
    /\ Launch(ses.c)
    /\ Goto(IF OnGoogle THEN "disk" ELSE "save")
    /\ Only(<<svc, file>>)

\* launch_instance answers a CloudException with None, whether or not a machine
\* was started: allocate writes the file as failed and raises
LaunchReturnsNone ==
    /\ ses.pc = "vm"
    /\ UNCHANGED machines \/ Launch(ses.c)
    /\ file' = [file EXCEPT ![ses.c] = [WithEnv(@, "driver") EXCEPT !.state = "failed"]]
    /\ Over
    /\ Only(svc)

\* disks create: the disk is there but belongs to no machine
CreateDisk == [vm EXCEPT ![ses.c].stray = TRUE]

\* attach-disk: it goes when its machine goes
AttachDisk(v) == [v EXCEPT ![ses.c].stray = vm[ses.c].stray]

\* launch_storage answers a failure with None, too: the node has no storage
\* then, and a disk that was created but not attached stays (and makes the next
\* one of its name fail)
LaunchDisk ==
    /\ ses.pc = "disk"
    /\ vm' \in {vm, CreateDisk, AttachDisk(CreateDisk)}
    /\ Goto("save")
    /\ Only(<<svc, file, boots>>)

Recorded(c) == vm[c].st # "none" /\ vm[c].id = file[c].id

\* AWS is asked by tag whether the machine is there; Google's answer is an error
\* if it is not
TerminateMachine(c) ==
    /\ IF Recorded(c) THEN Delete(c) ELSE UNCHANGED vm
    /\ IF OnGoogle /\ ~Recorded(c) THEN Over ELSE NextEnv("clean")
    /\ UNCHANGED boots

StopMachine(c) ==
    /\ vm' = IF Recorded(c) THEN [vm EXCEPT ![c].st = "stopped"] ELSE vm
    /\ UNCHANGED boots

\* GcpCompute.start returns nothing, so Node(None) raises
StartMachine(c) ==
    /\ IF Recorded(c) /\ vm[c].st = "stopped" THEN Boot(c, vm[c].id) ELSE UNCHANGED machines
    /\ IF OnGoogle \/ ~Recorded(c) THEN Over ELSE Goto("start_save")

\* nuke asks for the disks by tag, too, but they have it as a label
NukeMachine(c) ==
    /\ IF MachineIsRunning(c)
       THEN Delete(c) ELSE UNCHANGED vm
    /\ UNCHANGED boots

MachineStep == LaunchMachine \/ LaunchReturnsNone \/ LaunchDisk
=============================================================================
