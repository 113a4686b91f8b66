------------------------------ MODULE QvmDisks ------------------------------
(***************************************************************************)
(* utils/qemu-vm-manager.sh, the files behind its virtual machines: the    *)
(* downloaded cloud image that every cloud machine is an overlay of, the   *)
(* cloud-init seed, the disk of the cloud machine, and the network block   *)
(* device through which mount-qcow shows a disk at /mnt.                   *)
(*                                                                         *)
(* The script runs under set -e: a command that fails ends it, through the *)
(* EXIT trap that is set at that time.  A terminal runs one command at a   *)
(* time and may be interrupted at any step.  qemu and qemu-nbd lock the    *)
(* disk that they have open; a guest installs itself, or does not.         *)
(***************************************************************************)
EXTENDS Naturals, FiniteSets

CONSTANTS
  Tty,        \* where commands are typed
  None,       \* no terminal
  Interrupts  \* bound: how often Ctrl-C is pressed

ASSUME TtyAssumption == None \notin Tty /\ Interrupts \in Nat

VARIABLES
  base,    \* the cloud image in RESOURCES_DIR
  seed,    \* the seed ISO in RESOURCES_DIR
  disk,    \* the qcow2 file of the cloud machine in VMS_DIR
  nbd,     \* whether /dev/nbd0 is connected to the disk
  mnt,     \* whether a file system of /dev/nbd0 is mounted at /mnt
  boot,    \* the terminal whose qemu has the disk open, or None
  at,      \* the step each terminal is at
  leaks,   \* exits with the device connected and no trap set (history)
  kills,   \* interrupts so far
  alone    \* no command has been started while another ran (history)

diskVars == <<base, seed, disk, nbd, mnt, boot, at, leaks, kills, alone>>
files == <<base, seed, disk, nbd, mnt>>

Step == {"idle", "image", "curl", "data", "late", "seed", "mkisofs", "iso",
         "create", "qemu", "guest", "rmseed", "connect", "fdisk", "device", "release", "disconnect"}

DiskInit ==
  /\ base = "absent" /\ seed = "absent" /\ disk = "absent"
  /\ nbd = FALSE /\ mnt = FALSE /\ boot = None
  /\ at = [t \in Tty |-> "idle"]
  /\ leaks = 0 /\ kills = 0 /\ alone = TRUE

GotoStep(t, step) == at' = [at EXCEPT ![t] = step]

\* The prompt is back, and takes a command.
Command(t) ==
  /\ at[t] = "idle"
  /\ alone' = (alone /\ \A u \in Tty : at[u] = "idle")

\* The disk cannot be opened for writing: a guest or the block device has it.
Locked == boot # None \/ nbd

----------------------------------------------------------------------------
(* install --pre ubuntu-cloud *)

InstallVm(t) ==
  /\ Command(t)
  /\ GotoStep(t, "image")
  /\ UNCHANGED <<files, boot, leaks, kills>>

\* Slip: the image is downloaded whether it is there or not.
DownloadAlways(t) ==
  /\ at[t] = "image" /\ GotoStep(t, "curl")
  /\ UNCHANGED <<files, boot, leaks, kills, alone>>

\* if [ ! -f ... ]
Download(t) ==
  /\ at[t] = "image" /\ GotoStep(t, IF base = "absent" THEN "curl" ELSE "seed")
  /\ UNCHANGED <<files, boot, leaks, kills, alone>>

\* curl empties the file at the first data, or there is none (-f, an HTTP
\* error).  Another transfer to the same file goes on where it is, and what it
\* has written before is gone.
Fetch(t) ==
  /\ at[t] = "curl"
  /\ \/ /\ base' = "partial"
        /\ at' = [u \in Tty |-> IF u = t THEN "data"
                                     ELSE IF at[u] = "data" THEN "late" ELSE at[u]]
     \/ GotoStep(t, "idle") /\ UNCHANGED base
  /\ UNCHANGED <<seed, disk, nbd, mnt, boot, leaks, kills, alone>>

\* The transfer ends, or breaks off and leaves what has arrived.
Downloaded(t) ==
  /\ at[t] \in {"data", "late"}
  /\ \/ GotoStep(t, "seed") /\ base' = IF at[t] = "data" THEN "full" ELSE base
     \/ GotoStep(t, "idle") /\ UNCHANGED base
  /\ UNCHANGED <<seed, disk, nbd, mnt, boot, leaks, kills, alone>>

\* create_cloud_init_iso: if [ ! -f ... ]
SeedMissing(t) ==
  /\ at[t] = "seed" /\ GotoStep(t, IF seed = "absent" THEN "mkisofs" ELSE "create")
  /\ UNCHANGED <<files, boot, leaks, kills, alone>>

\* mkisofs empties the file and writes it, or breaks off.
Mkisofs(t) ==
  /\ at[t] = "mkisofs"
  /\ GotoStep(t, "iso") /\ seed' = "partial"
  /\ UNCHANGED <<base, disk, nbd, mnt, boot, leaks, kills, alone>>

Seeded(t) ==
  /\ at[t] = "iso"
  /\ \/ GotoStep(t, "create") /\ seed' = IF seed = "absent" THEN seed ELSE "full"
     \/ GotoStep(t, "idle") /\ UNCHANGED seed
  /\ UNCHANGED <<base, disk, nbd, mnt, boot, leaks, kills, alone>>

\* qemu-img create: whatever disk has this name is replaced by an empty
\* overlay, unless it is locked; an image without its header is refused.
CreateDisk(t) ==
  /\ at[t] = "create"
  /\ \/ ~Locked /\ disk' = "blank" /\ GotoStep(t, "qemu")
     \/ (Locked \/ base # "full") /\ GotoStep(t, "idle") /\ UNCHANGED disk
  /\ UNCHANGED <<base, seed, nbd, mnt, boot, leaks, kills, alone>>

\* The trap is set, and qemu boots the disk, or cannot open it or the seed.
BootInstaller(t) ==
  /\ at[t] = "qemu"
  /\ IF Locked \/ seed = "absent"
     THEN GotoStep(t, "rmseed") /\ UNCHANGED <<boot, disk>>
     ELSE GotoStep(t, "guest") /\ boot' = t /\ disk' = "half"
  /\ UNCHANGED <<base, seed, nbd, mnt, leaks, kills, alone>>

\* With everything there the guest may install itself and reboot, which ends
\* qemu (-no-reboot); it may also stop without.
Installed(t) ==
  /\ at[t] = "guest"
  /\ boot' = None /\ GotoStep(t, "rmseed")
  /\ disk' \in IF base = "full" /\ seed = "full" THEN {"half", "installed"} ELSE {"half"}
  /\ UNCHANGED <<base, seed, nbd, mnt, leaks, kills, alone>>

\* The EXIT trap, whose message follows from the success of its own rm.
RemoveSeed(t) ==
  /\ at[t] = "rmseed"
  /\ GotoStep(t, "idle") /\ seed' = "absent"
  /\ UNCHANGED <<base, disk, nbd, mnt, boot, leaks, kills, alone>>

----------------------------------------------------------------------------
(* mount-qcow and umount-qcow *)

MountQcow(t) ==
  /\ Command(t) /\ disk # "absent"
  /\ GotoStep(t, "connect")
  /\ UNCHANGED <<files, boot, leaks, kills>>

\* qemu-nbd --connect fails when the device or the disk is in use.
Connect(t) ==
  /\ at[t] = "connect"
  /\ IF Locked THEN GotoStep(t, "idle") /\ UNCHANGED nbd
               ELSE GotoStep(t, "fdisk") /\ nbd' = TRUE
  /\ UNCHANGED <<base, seed, disk, mnt, boot, leaks, kills, alone>>

\* fdisk -l may fail, before the trap is set.
ListPartitions(t) ==
  /\ at[t] = "fdisk"
  /\ \/ GotoStep(t, "device") /\ UNCHANGED leaks
     \/ GotoStep(t, "idle") /\ leaks' = leaks + 1
  /\ UNCHANGED <<files, boot, kills, alone>>

\* Slip: only a successful mount goes through the trap.
MountDeviceLoose(t) ==
  /\ at[t] = "device"
  /\ \/ GotoStep(t, "release") /\ mnt' = TRUE
     \/ GotoStep(t, "idle") /\ UNCHANGED mnt
  /\ UNCHANGED <<base, seed, disk, nbd, boot, leaks, kills, alone>>

\* mount of the device typed by the user, a partition of nbd0 or not.
MountDevice(t) ==
  /\ at[t] = "device"
  /\ GotoStep(t, "release")
  /\ mnt' \in {mnt, nbd}
  /\ UNCHANGED <<base, seed, disk, nbd, boot, leaks, kills, alone>>

\* qemu-nbd --disconnect: the EXIT trap of mount_qcow, or the end of umount_qcow.
Release(t) ==
  /\ at[t] \in {"release", "disconnect"}
  /\ GotoStep(t, "idle") /\ nbd' = FALSE /\ leaks' = 0
  /\ UNCHANGED <<base, seed, disk, mnt, boot, kills, alone>>

\* When nothing is mounted umount fails and the device is not looked at.
UmountQcow(t) ==
  /\ Command(t) /\ mnt
  /\ GotoStep(t, "disconnect") /\ mnt' = FALSE
  /\ UNCHANGED <<base, seed, disk, nbd, boot, leaks, kills>>

----------------------------------------------------------------------------

\* Ctrl-C: also ends the qemu in the foreground; a trap that is set
\* still runs; that of install is set between the creation of the disk and qemu.
Interrupt(t) ==
  /\ at[t] # "idle" /\ kills < Interrupts
  /\ kills' = kills + 1
  /\ \E step \in CASE at[t] = "qemu" -> {"idle", "rmseed"}
                  [] at[t] \in {"guest", "rmseed"} -> {"rmseed"}
                  [] at[t] \in {"device", "release"} -> {"release"}
                  [] OTHER -> {"idle"} :
       GotoStep(t, step)
  /\ leaks' = IF at[t] \in {"fdisk", "disconnect"} THEN leaks + 1 ELSE leaks
  /\ boot' = IF boot = t THEN None ELSE boot
  /\ UNCHANGED <<files, alone>>

DiskNext == \E t \in Tty :
  \/ InstallVm(t) \/ Download(t) \/ Fetch(t) \/ Downloaded(t)
  \/ SeedMissing(t) \/ Mkisofs(t) \/ Seeded(t)
  \/ CreateDisk(t) \/ BootInstaller(t) \/ Installed(t) \/ RemoveSeed(t)
  \/ MountQcow(t) \/ Connect(t) \/ ListPartitions(t) \/ MountDevice(t)
  \/ Release(t) \/ UmountQcow(t)
  \/ Interrupt(t)

DiskSpec == DiskInit /\ [][DiskNext]_diskVars

----------------------------------------------------------------------------

\* The cloud image, of which the disk is an overlay, is never written again once
\* the disk exists, whichever downloads broke off and however often one installs:
\* in one terminal, or in several that wait for each other.
BaseKept == [][alone' /\ disk # "absent" => base' = base]_base

\* mount-qcow gives the device back however it ends once its trap is set: the
\* device is connected only during a command, or because a command ended
\* before its trap, or without one.  And whatever is connected, or was left so, no
\* guest has the disk open at that time, nor after the command that waits for it.
DeviceReleased ==
  /\ nbd => leaks > 0 \/ \E t \in Tty : at[t] \in {"fdisk", "device", "release", "disconnect"}
  /\ boot # None => at[boot] = "guest" /\ ~nbd /\ disk \in {"half", "installed"}

============================================================================
