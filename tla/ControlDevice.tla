--------------------------- MODULE ControlDevice ---------------------------
(***************************************************************************)
(* The control device of the kernel module: the table of the block devices *)
(* that exist, and the ioctls that change or read it.  It is external; it  *)
(* is modelled from how Kmod uses it.  An ioctl takes effect at once, or   *)
(* fails and changes nothing.  Handle ids are not used twice.              *)
(***************************************************************************)
EXTENDS Naturals, FiniteSets

CONSTANTS
  Process,       \* the programs that have the control device open
  Name,          \* device names programs ask for
  EmptyName,     \* the name of a parameter block nobody put a name in
  MaxDevices,    \* CREATE_DEVICE_MAX_ACTIVE_BLOCK_DEVICES: 50 in the code
  MaxHandles     \* bound: how many devices are ever created

ASSUME ControlDeviceAssumption ==
  /\ EmptyName \notin Name
  /\ MaxDevices \in Nat \ {0} /\ MaxHandles \in Nat

VARIABLES
  devices,   \* handle id -> the device: its name, who asked for it, and under
             \* which name it was asked for
  handles    \* how many handle ids have been given out

table == <<devices, handles>>

Device == [name : Name \union {EmptyName}, maker : Process, asked : Name]

NoDevices == [h \in {} |-> EmptyName]

Named(name) == {h \in DOMAIN devices : devices[h].name = name}

\* What an ioctl can do: the table afterwards, its errno, and what it returns.
Outcome(d, h, errno, value) ==
  [devices |-> d, handles |-> h, errno |-> errno, value |-> value]

Fails(errno) == Outcome(devices, handles, errno, 0)

\* Names are unique and not empty, and at most MaxDevices devices exist.
Full == Cardinality(DOMAIN devices) >= MaxDevices \/ handles = MaxHandles

CreateDevice(p, name, asked) ==
  IF name = EmptyName THEN Fails("EINVAL")
  ELSE IF Named(name) # {} THEN Fails("EEXIST")
  ELSE IF Full THEN Fails("ENOSPC")
  ELSE LET new == handles + 1
       IN  Outcome([h \in DOMAIN devices \union {new} |->
                      IF h = new THEN [name |-> name, maker |-> p, asked |-> asked]
                                 ELSE devices[h]],
                   new, "0", new)

Destroy(gone) ==
  IF gone = {} THEN Fails("ENOENT")
  ELSE Outcome([h \in DOMAIN devices \ gone |-> devices[h]], handles, "0", 0)

DestroyById(handle) == Destroy({handle} \intersect DOMAIN devices)

DestroyByName(name) == Destroy(Named(name))

DestroyAll == Outcome(NoDevices, handles, "0", 0)

\* The list of handle ids, and the status of one device.
StatusList == Outcome(devices, handles, "0", DOMAIN devices)

StatusDevice(handle) ==
  IF handle \in DOMAIN devices
    THEN Outcome(devices, handles, "0", [name |-> devices[handle].name, handle |-> handle])
    ELSE Fails("ENOENT")
=============================================================================
