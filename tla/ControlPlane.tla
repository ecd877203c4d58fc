---------------------------- MODULE ControlPlane ----------------------------
(***************************************************************************)
(* The control functions of Kmod (ping, create, destroy, status map) and   *)
(* the program zosbd2cmd that uses them, next to other programs that have  *)
(* the same control device open.  A function submits one ioctl, and again  *)
(* after each EINTR; the status map submits one for the list and one per   *)
(* device, and the table may change between them.  That Safe_ioctl puts    *)
(* the request back into the buffer is in BlockDeviceHandler; here every   *)
(* submission carries the request.                                         *)
(***************************************************************************)
EXTENDS ControlDevice, Sequences

CONSTANTS
  Driver,          \* the process that runs zosbd2cmd
  device_name,     \* its argument
  device_name_2,   \* the same with "2" appended
  TooLong,         \* names longer than MAX_DEVICE_NAME_LENGTH
  Lower,           \* strings.ToLower, as a function on names
  MayRefuse,       \* can the kernel refuse an ioctl, or an open, for want of memory?
  MaxInterrupts    \* bound: how many signals interrupt an ioctl

ASSUME ControlPlaneAssumption ==
  /\ Driver \in Process /\ {device_name, device_name_2} \subseteq Name
  /\ device_name # device_name_2
  /\ TooLong \subseteq Name /\ Lower \in [Name -> Name]
  /\ MayRefuse \in BOOLEAN /\ MaxInterrupts \in Nat

VARIABLES
  call,         \* process -> the function it is in, with its arguments
  listing,      \* process -> the handles of the list still to be asked for,
                \* or NoList before the list is there
  device_map,   \* process -> the status map it builds, or was given
  listed,       \* history: the table when the kernel made the list
  ret,          \* process -> errno of the last function it called
  handle_id,    \* process -> the handle id its last create returned; main
                \* does not keep that of device_name_2
  step,         \* where main stands in Program, or GaveUp
  interrupts    \* signals so far

clients == <<call, listing, device_map, listed, ret, handle_id, step>>
vars == <<table, clients, interrupts>>

Idle == [op |-> "idle", name |-> EmptyName, handle |-> 0]
Calling(op, name, handle) == [op |-> op, name |-> name, handle |-> handle]

\* Before the list has come back.
NoList == {0}

NoMap == [n \in {} |-> EmptyName]

\* What main does, in order.  Each function that fails ends it, but for the
\* last one, which is deferred once the last device is there.
Program == <<
  [op |-> "ping", name |-> EmptyName],
  [op |-> "create", name |-> device_name],
  [op |-> "destroy_by_id", name |-> EmptyName],
  [op |-> "create", name |-> device_name],
  [op |-> "destroy_by_name", name |-> device_name],
  [op |-> "create", name |-> device_name],
  [op |-> "create", name |-> device_name_2],
  [op |-> "destroy_all", name |-> EmptyName],
  [op |-> "create", name |-> device_name],
  [op |-> "open", name |-> device_name],
  [op |-> "run", name |-> EmptyName],
  [op |-> "destroy_by_name", name |-> device_name] >>

Deferred == Len(Program)
Ended    == Len(Program) + 1
GaveUp   == 0

At(op) == step \in 1 .. Len(Program) /\ Program[step].op = op

Init ==
  /\ devices = NoDevices /\ handles = 0
  /\ call = [p \in Process |-> Idle]
  /\ listing = [p \in Process |-> NoList]
  /\ device_map = [p \in Process |-> NoMap]
  /\ listed = [p \in Process |-> NoDevices]
  /\ ret = [p \in Process |-> "none"]
  /\ handle_id = [p \in Process |-> 0]
  /\ step = 1
  /\ interrupts = 0

-----------------------------------------------------------------------------
(***************************************************************************)
(* The functions of Kmod                                                   *)
(***************************************************************************)
\* Set_create_params_device_name and set_destroy_by_name_params_device_name
\* copy a name, or return ENAMETOOLONG, which their callers drop.
NameParam_Truncated(name) ==   \* mutated: what fits is copied
  IF name \in TooLong THEN CHOOSE n \in Name : n \notin TooLong ELSE name
NameParam(name) == IF name \in TooLong THEN EmptyName ELSE name

\* What the kernel makes of the ioctl of a function that submits only one.
Submitted(p) ==
  LET c == call[p]
  IN  CASE c.op = "ping" -> Outcome(devices, handles, "0", 0)
        [] c.op = "create" -> CreateDevice(p, NameParam(c.name), c.name)
        [] c.op = "destroy_by_id" -> DestroyById(c.handle)
        [] c.op = "destroy_by_name" -> DestroyByName(NameParam(c.name))
        [] c.op = "destroy_all" -> DestroyAll

Start(p, op, name, handle) ==
  /\ call[p] = Idle
  /\ call' = [call EXCEPT ![p] = Calling(op, name, handle)]
  /\ device_map' = [device_map EXCEPT ![p] = NoMap]
  /\ UNCHANGED <<table, listing, listed, ret, handle_id, step, interrupts>>

\* Where main goes when the function it called returns.
NextStep_Retries(errno) ==   \* mutated: what fails is tried again
  IF errno = "0" THEN step + 1 ELSE step
NextStep_NotDeferred(errno) ==   \* mutated: an error of Run skips the destroy
  CASE errno = "0" \/ step = Deferred -> step + 1
    [] errno # "0" /\ At("open") -> Ended
    [] OTHER -> GaveUp
NextStep_DefersEarly(errno) ==   \* mutated: the destroy is deferred from the start
  IF errno = "0" \/ step = Deferred THEN step + 1 ELSE Deferred
NextStep(errno) ==
  CASE errno = "0" \/ step = Deferred -> step + 1
    [] errno # "0" /\ At("open") -> Deferred
    [] OTHER -> GaveUp

Return(p, errno) ==
  /\ call' = [call EXCEPT ![p] = Idle]
  /\ listing' = [listing EXCEPT ![p] = NoList]
  /\ ret' = [ret EXCEPT ![p] = errno]
  /\ step' = IF p = Driver THEN NextStep(errno) ELSE step

\* Does a call that ends with this errno give the process a handle to keep?
KeepsHandle(p, errno) ==
  /\ call[p].op = "create" /\ errno = "0"
  /\ ~(p = Driver /\ call[p].name = device_name_2)

\* Safe_ioctl returns, and with it the function.
Finish_ShadowsHandle(p) ==   \* mutated: ret, handle_id := after the first create
  /\ call[p] # Idle /\ call[p].op # "status_map"
  /\ LET o == Submitted(p)
     IN  /\ devices' = o.devices /\ handles' = o.handles
         /\ Return(p, o.errno)
         /\ handle_id' = IF KeepsHandle(p, o.errno) /\ handle_id[p] = 0
                           THEN [handle_id EXCEPT ![p] = o.value] ELSE handle_id
  /\ UNCHANGED <<device_map, listed, interrupts>>
Finish(p) ==
  /\ call[p] # Idle /\ call[p].op # "status_map"
  /\ LET o == Submitted(p)
     IN  /\ devices' = o.devices /\ handles' = o.handles
         /\ Return(p, o.errno)
         /\ handle_id' = IF KeepsHandle(p, o.errno)
                           THEN [handle_id EXCEPT ![p] = o.value] ELSE handle_id
  /\ UNCHANGED <<device_map, listed, interrupts>>

Refused(p) ==
  /\ MayRefuse /\ call[p] # Idle
  /\ Return(p, "ENOMEM")
  /\ device_map' = [device_map EXCEPT ![p] = NoMap]
  /\ UNCHANGED <<table, listed, handle_id, interrupts>>

\* A signal ends the ioctl before or after it took effect, and Safe_ioctl
\* submits it again.
Interrupted(p) ==
  /\ interrupts < MaxInterrupts /\ call[p] # Idle
  /\ \/ UNCHANGED table
     \/ /\ call[p].op # "status_map"
        /\ devices' = Submitted(p).devices /\ handles' = Submitted(p).handles
  /\ interrupts' = interrupts + 1
  /\ UNCHANGED clients

-----------------------------------------------------------------------------
(***************************************************************************)
(* Get_devices_status_map                                                  *)
(***************************************************************************)
GetList(p) ==
  /\ call[p].op = "status_map" /\ listing[p] = NoList
  /\ listing' = [listing EXCEPT ![p] = StatusList.value]
  /\ listed' = [listed EXCEPT ![p] = devices]
  /\ UNCHANGED <<table, call, device_map, ret, handle_id, step, interrupts>>

\* The devices in the order of the kernel's list, whatever that is.
Add(map, key, status) ==
  [n \in DOMAIN map \union {key} |-> IF n = key THEN status ELSE map[n]]

GetStatus_SkipsVanished(p) ==   \* mutated: continue instead of return
  /\ call[p].op = "status_map" /\ listing[p] # NoList
  /\ \E h \in listing[p] :
       /\ listing' = [listing EXCEPT ![p] = @ \ {h}]
       /\ device_map' =
            IF StatusDevice(h).errno # "0" THEN device_map
            ELSE [device_map EXCEPT
                    ![p] = Add(@, Lower[StatusDevice(h).value.name], StatusDevice(h).value)]
       /\ UNCHANGED <<call, ret, step>>
  /\ UNCHANGED <<table, listed, handle_id, interrupts>>
GetStatus_AsksAgain(p) ==   \* mutated: a device that vanished is waited for
  /\ call[p].op = "status_map" /\ listing[p] # NoList
  /\ \E h \in listing[p] :
       /\ StatusDevice(h).errno = "0"
       /\ listing' = [listing EXCEPT ![p] = @ \ {h}]
       /\ device_map' = [device_map EXCEPT
                           ![p] = Add(@, Lower[StatusDevice(h).value.name], StatusDevice(h).value)]
       /\ UNCHANGED <<call, ret, step>>
  /\ UNCHANGED <<table, listed, handle_id, interrupts>>
GetStatus(p) ==
  /\ call[p].op = "status_map" /\ listing[p] # NoList
  /\ \E h \in listing[p] :
       LET o == StatusDevice(h)
       IN  \/ /\ o.errno # "0"
              /\ Return(p, o.errno)
              /\ device_map' = [device_map EXCEPT ![p] = NoMap]
           \/ /\ o.errno = "0"
              /\ listing' = [listing EXCEPT ![p] = @ \ {h}]
              /\ device_map' = [device_map EXCEPT ![p] = Add(@, Lower[o.value.name], o.value)]
              /\ UNCHANGED <<call, ret, step>>
  /\ UNCHANGED <<table, listed, handle_id, interrupts>>

MapDone(p) ==
  /\ call[p].op = "status_map" /\ listing[p] = {}
  /\ Return(p, "0")
  /\ UNCHANGED <<table, device_map, listed, handle_id, interrupts>>

-----------------------------------------------------------------------------
(***************************************************************************)
(* main of zosbd2cmd                                                       *)
(***************************************************************************)
DriverCalls ==
  /\ step \in 1 .. Len(Program) /\ Program[step].op \notin {"open", "run"}
  /\ Start(Driver, Program[step].op, Program[step].name, handle_id[Driver])

\* Run opens the device by its name; its requests carry the handle id.
DriverOpens ==
  /\ At("open")
  /\ \E errno \in (IF Named(device_name) = {} THEN {"ENOENT"} ELSE {"0"})
                    \union (IF MayRefuse THEN {"ENOMEM"} ELSE {}) :
       step' = NextStep(errno)
  /\ UNCHANGED <<table, call, listing, device_map, listed, ret, handle_id, interrupts>>

\* Run returns once its device is gone (HandlerStops in BlockDeviceHandler).
DriverRunEnds ==
  /\ At("run") /\ handle_id[Driver] \notin DOMAIN devices
  /\ step' = Deferred
  /\ UNCHANGED <<table, call, listing, device_map, listed, ret, handle_id, interrupts>>

DriverMain == DriverCalls \/ DriverOpens \/ DriverRunEnds

-----------------------------------------------------------------------------
\* A process that has called a function of Kmod.
Works(p) == Finish(p) \/ GetList(p) \/ GetStatus(p) \/ MapDone(p)

\* Another program calls any of them.
Ops == {"ping", "create", "destroy_by_id", "destroy_by_name", "destroy_all", "status_map"}

OtherCalls(p) ==
  /\ p # Driver
  /\ \/ \E op \in {"ping", "destroy_all", "status_map"} : Start(p, op, EmptyName, 0)
     \/ \E op \in {"create", "destroy_by_name"}, name \in Name : Start(p, op, name, 0)
     \/ \E handle \in 1 .. handles : Start(p, "destroy_by_id", EmptyName, handle)

Step == DriverMain \/ \E p \in Process : Works(p) \/ Refused(p) \/ Interrupted(p)

Next == Step \/ \E p \in Process : OtherCalls(p)

Spec == Init /\ [][Next]_vars

-----------------------------------------------------------------------------
(***************************************************************************)
(* Correctness                                                             *)
(***************************************************************************)
Errnos == {"none", "0", "EINVAL", "EEXIST", "ENOSPC", "ENOENT", "ENOMEM"}

\* Every variable keeps its type, and every device has the name its maker
\* asked for: the error for a name that is too long is dropped, yet no device
\* is made under another name or under none.  (That a list fits the array it
\* is copied to is the kernel's limit on devices, not a check of the code.)
TypeOK ==
  /\ handles \in 0 .. MaxHandles /\ DOMAIN devices \subseteq 1 .. handles
  /\ \A h \in DOMAIN devices :
       devices[h] \in Device /\ devices[h].name = devices[h].asked
  /\ call \in [Process -> [op : Ops \union {"idle"}, name : Name \union {EmptyName},
                           handle : 0 .. MaxHandles]]
  /\ \A p \in Process :
       /\ listing[p] \subseteq 0 .. MaxHandles /\ Cardinality(listing[p]) <= MaxDevices
       /\ call[p].op # "status_map" => listing[p] = NoList
       /\ DOMAIN device_map[p] \subseteq Name /\ DOMAIN listed[p] \subseteq 1 .. handles
  /\ ret \in [Process -> Errnos]
  /\ handle_id \in [Process -> 0 .. MaxHandles]
  /\ step \in 0 .. Ended
  /\ interrupts \in 0 .. MaxInterrupts

\* The status map is put together from many ioctls while other programs
\* create and destroy devices, yet a map that is returned is the table as it
\* was at one moment of the call: every device of that moment is in it,
\* under its name in lower case, and nothing else is.
IsSnapshot(map, then) ==
  /\ \A h \in DOMAIN then :
       LET key == Lower[then[h].name]
       IN  key \in DOMAIN map /\ map[key] = [name |-> then[h].name, handle |-> h]
  /\ \A key \in DOMAIN map : map[key].handle \in DOMAIN then

StatusMapIsSnapshot ==
  [][\A p \in Process :
       call[p].op = "status_map" /\ call'[p] = Idle /\ ret'[p] = "0" =>
         IsSnapshot(device_map'[p], listed[p])]_vars

\* A device goes only because somebody asked for its destruction, by the
\* name it was asked for under, by its id, or with all others: names that do
\* not fit never make one program's call reach a device of another name.
DestroysOnlyNamed ==
  [][\A h \in DOMAIN devices \ DOMAIN devices' :
       \E p \in Process :
         \/ call[p].op = "destroy_all"
         \/ call[p].op = "destroy_by_name" /\ call[p].name = devices[h].asked
         \/ call[p].op = "destroy_by_id" /\ call[p].handle = h]_vars

\* When main ends past its last create, and the deferred destroy was not
\* refused, no device it made is left, whatever other programs created and
\* destroyed in between and however often its calls were interrupted.
DriverLeavesNothing ==
  step = Ended /\ ret[Driver] # "ENOMEM" =>
    \A h \in DOMAIN devices : devices[h].maker # Driver

\* Main never destroys the device of another program instead of its own: what
\* its destroys take was made by main, or has the name of a device of main
\* that somebody has destroyed before, and is newer.  (Destroy by name cannot
\* tell such a device from main's, so more is not to be had.)
Destroys == {"destroy_by_id", "destroy_by_name", "destroy_all"}

MainDestroys ==
  /\ call[Driver].op \in {"destroy_by_id", "destroy_by_name"}
  /\ \/ call'[Driver] = Idle
     \/ \A p \in Process \ {Driver} : call[p].op \notin Destroys

SparesDevicesOfOthers ==
  [][MainDestroys =>
       \A h \in DOMAIN devices \ DOMAIN devices' :
         \/ devices[h].maker = Driver
         \/ /\ handle_id[Driver] # 0 /\ handle_id[Driver] \notin DOMAIN devices
            /\ h > handle_id[Driver]]_vars

\* What Safe_ioctl says of EINTR: a request that is put back and submitted
\* again does what it would have done.  So main, when it gives up, knows the
\* handle id of every device of that name it has made.
KnowsItsDevices ==
  step = GaveUp =>
    \A h \in DOMAIN devices :
      devices[h].maker = Driver /\ devices[h].name = device_name => h = handle_id[Driver]

\* The same as far as no signal is involved: however calls fail or are
\* refused, and whatever others do, no device is made behind a failed create,
\* and no handle id is lost on the way.
UninterruptedKnowsItsDevices == interrupts = 0 => KnowsItsDevices

\* Every function returns.
CallsReturn == \A p \in Process : call[p] # Idle ~> call[p] = Idle

\* Main ends, unless its handler has a device to serve.
Serving == At("run") /\ handle_id[Driver] \in DOMAIN devices

DriverEnds == []<>(step \in {Ended, GaveUp} \/ Serving)
=============================================================================
