------------------------ MODULE ControlPlane_proofs ------------------------
(***************************************************************************)
(* Theorems about ControlPlane: its type invariant, what a status map is,  *)
(* which devices go, what the driver leaves behind, what it destroys and   *)
(* what it knows, for any number of programs, names, devices, signals and  *)
(* refusals.                                                               *)
(***************************************************************************)
EXTENDS ControlPlane, FiniteSetTheorems, TLAPS

\* The table: a handle is given out once, a name belongs to one device, and
\* a device has the name it was asked for under.
DevicesInv ==
  /\ handles \in 0 .. MaxHandles
  /\ devices \in [DOMAIN devices -> Device]
  /\ DOMAIN devices \subseteq 1 .. handles
  /\ Cardinality(DOMAIN devices) <= MaxDevices
  /\ \A h \in DOMAIN devices :
       devices[h].name = devices[h].asked /\ devices[h].name \notin TooLong
  /\ \A g, h \in DOMAIN devices : devices[g].name = devices[h].name => g = h

\* The programs.
CallsInv ==
  /\ call \in [Process -> [op : Ops \union {"idle"}, name : Name \union {EmptyName},
                           handle : 0 .. MaxHandles]]
  /\ ret \in [Process -> Errnos]
  /\ handle_id \in [Process -> 0 .. MaxHandles]
  /\ step \in 0 .. Ended
  /\ interrupts \in 0 .. MaxInterrupts
  /\ \A p \in Process : call[p].op = "idle" => call[p] = Idle

\* The lists and maps a program holds, in and out of a call.
ListsInv ==
  /\ listing \in [Process -> SUBSET (0 .. MaxHandles)]
  /\ device_map = [p \in Process |-> device_map[p]]
  /\ listed = [p \in Process |-> listed[p]]
  /\ \A p \in Process :
       /\ Cardinality(listing[p]) <= MaxDevices
       /\ call[p].op # "status_map" => listing[p] = NoList
       /\ DOMAIN device_map[p] \subseteq Name
       /\ DOMAIN listed[p] \subseteq 1 .. handles

TypeInv == DevicesInv /\ CallsInv /\ ListsInv

-----------------------------------------------------------------------------
\* A status map under construction: each device of the list is still to be
\* asked for, or in the map as it was when the list was made.  It has not
\* been changed since unless it is gone, because handles are not reused.
IsEntry(map, h, device) ==
  /\ Lower[device.name] \in DOMAIN map
  /\ map[Lower[device.name]] = [name |-> device.name, handle |-> h]

MapInv(p) ==
  call[p].op = "status_map" =>
    IF listing[p] = NoList THEN device_map[p] = NoMap
    ELSE /\ listing[p] \subseteq DOMAIN listed[p]
         /\ \A h \in DOMAIN listed[p] : listed[p][h].name \in Name
         /\ \A g, h \in DOMAIN listed[p] : listed[p][g].name = listed[p][h].name => g = h
         /\ \A h \in DOMAIN listed[p] \intersect DOMAIN devices : devices[h] = listed[p][h]
         /\ \A h \in DOMAIN listed[p] \ listing[p] : IsEntry(device_map[p], h, listed[p][h])
         /\ \A key \in DOMAIN device_map[p] : device_map[p][key].handle \in DOMAIN listed[p]

\* What the driver can own at each step of main: while it has not failed,
\* only devices it is about to destroy or to serve.
Owns(names) ==
  \A h \in DOMAIN devices : devices[h].maker = Driver => devices[h].name \in names

DriverCallInv ==
  call[Driver] # Idle =>
    /\ step \in 1 .. Len(Program)
    /\ Program[step].op \notin {"open", "run"}
    /\ call[Driver] = Calling(Program[step].op, Program[step].name, handle_id[Driver])

OwnedInv ==
  /\ step = 1 => Owns({})
  /\ step \in {2, 4, 6, 9} => Owns(IF call[Driver] = Idle THEN {} ELSE {device_name})
  /\ step = 3 => \A h \in DOMAIN devices : devices[h].maker = Driver => h = handle_id[Driver]
  /\ step \in {3, 5, 10, 11, 12} => Owns({device_name})
  /\ step \in {7, 8} => Owns({device_name, device_name_2})
  /\ step = Ended /\ ret[Driver] # "ENOMEM" => Owns({})

DriverInv == DriverCallInv /\ OwnedInv

-----------------------------------------------------------------------------
(***************************************************************************)
(* What an ioctl of a call can do: add the device of a create, remove the  *)
(* devices a destroy names, or change nothing.                             *)
(***************************************************************************)
Created(p, o) ==
  /\ call[p].op = "create" /\ call[p].name \in Name \ TooLong
  /\ Named(call[p].name) = {}
  /\ Cardinality(DOMAIN devices) < MaxDevices /\ handles < MaxHandles
  /\ o.devices = [h \in DOMAIN devices \union {handles + 1} |->
                    IF h = handles + 1
                      THEN [name |-> call[p].name, maker |-> p, asked |-> call[p].name]
                      ELSE devices[h]]
  /\ o.handles = handles + 1 /\ o.errno = "0" /\ o.value = handles + 1

Removed(p, o) ==
  \E gone \in SUBSET DOMAIN devices :
    /\ o.devices = [h \in DOMAIN devices \ gone |-> devices[h]]
    /\ o.handles = handles /\ o.errno = "0"
    /\ \/ call[p].op = "destroy_all" /\ gone = DOMAIN devices
       \/ call[p].op = "destroy_by_name" /\ gone = Named(call[p].name)
       \/ call[p].op = "destroy_by_id" /\ gone = {call[p].handle} \intersect DOMAIN devices

Kept(p, o) ==
  /\ o.devices = devices /\ o.handles = handles /\ o.errno \in Errnos \ {"none", "ENOMEM"}
  /\ \/ call[p].op = "ping"
     \/ o.errno # "0" /\ call[p].op = "create"
     \/ o.errno # "0" /\ call[p].op = "destroy_by_name" /\ Named(call[p].name) = {}
     \/ o.errno # "0" /\ call[p].op = "destroy_by_id" /\ call[p].handle \notin DOMAIN devices

TableStep(p, o) == Created(p, o) \/ Removed(p, o) \/ Kept(p, o)

LEMMA SubmittedIsTableStep ==
  ASSUME TypeInv, NEW p \in Process, call[p] # Idle, call[p].op # "status_map"
  PROVE  TableStep(p, Submitted(p))
<1> DEFINE c == call[p]
<1>1. c.name \in Name \union {EmptyName} /\ c.op \in Ops \ {"status_map"}
  BY DEF TypeInv, CallsInv
<1>2. \A h \in DOMAIN devices : devices[h].name \in Name \ TooLong
  BY DEF TypeInv, DevicesInv, Device
<1>3. EmptyName \notin Name /\ TooLong \subseteq Name
  BY ControlDeviceAssumption, ControlPlaneAssumption
<1>4. CASE c.op = "ping"
  <2>1. Submitted(p) = Outcome(devices, handles, "0", 0)
    BY <1>4 DEF Submitted
  <2> QED BY <2>1, <1>4 DEF TableStep, Kept, Outcome, Errnos
<1>5. CASE c.op = "create"
  <2>1. Submitted(p) = CreateDevice(p, NameParam(c.name), c.name)
    BY <1>5 DEF Submitted
  <2>2. NameParam(c.name) = EmptyName \/ (NameParam(c.name) = c.name /\ c.name \in Name \ TooLong)
    BY <1>1 DEF NameParam
  <2>3. CASE NameParam(c.name) = EmptyName
    BY <2>1, <2>3, <1>5 DEF CreateDevice, Fails, Outcome, TableStep, Kept, Errnos
  <2>4. CASE NameParam(c.name) # EmptyName
    <3>1. NameParam(c.name) = c.name /\ c.name \in Name \ TooLong
      BY <2>2, <2>4
    <3>2. CASE Named(c.name) # {} \/ Full
      BY <2>1, <2>4, <3>1, <3>2, <1>5 DEF CreateDevice, Fails, Outcome, TableStep, Kept, Errnos
    <3>3. CASE Named(c.name) = {} /\ ~Full
      <4>1. handles < MaxHandles /\ Cardinality(DOMAIN devices) < MaxDevices
        <5>1. Cardinality(DOMAIN devices) \in Nat
          BY FS_Interval, FS_Subset, FS_CardinalityType DEF TypeInv, DevicesInv
        <5> QED BY <5>1, <3>3, ControlDeviceAssumption DEF Full, TypeInv, DevicesInv
      <4>2. Submitted(p) = Outcome([h \in DOMAIN devices \union {handles + 1} |->
                    IF h = handles + 1
                      THEN [name |-> c.name, maker |-> p, asked |-> c.name]
                      ELSE devices[h]], handles + 1, "0", handles + 1)
        BY <2>1, <2>4, <3>1, <3>3 DEF CreateDevice
      <4> QED BY <4>1, <4>2, <3>1, <3>3, <1>5 DEF Outcome, TableStep, Created
    <3> QED BY <3>2, <3>3
  <2> QED BY <2>3, <2>4
<1>6. CASE c.op = "destroy_by_id"
  <2> DEFINE gone == {c.handle} \intersect DOMAIN devices
  <2>1. Submitted(p) = Destroy(gone)
    BY <1>6 DEF Submitted, DestroyById
  <2>2. CASE gone = {}
    BY <2>1, <2>2, <1>6 DEF Destroy, Fails, Outcome, TableStep, Kept, Errnos
  <2>3. CASE gone # {}
    <3>1. /\ Submitted(p).devices = [h \in DOMAIN devices \ gone |-> devices[h]]
          /\ Submitted(p).handles = handles /\ Submitted(p).errno = "0"
      BY <2>1, <2>3 DEF Destroy, Outcome
    <3>2. gone \in SUBSET DOMAIN devices
      OBVIOUS
    <3>3. c.op = "destroy_by_id" /\ gone = {c.handle} \intersect DOMAIN devices
      BY <1>6
    <3> HIDE DEF gone
    <3> QED BY <3>1, <3>2, <3>3 DEF TableStep, Removed
  <2> QED BY <2>2, <2>3
<1>7. CASE c.op = "destroy_by_name"
  <2>1. Submitted(p) = Destroy(Named(NameParam(c.name)))
    BY <1>7 DEF Submitted, DestroyByName
  <2>2. Named(NameParam(c.name)) = Named(c.name)
    BY <1>2, <1>3 DEF NameParam, Named
  <2>3. CASE Named(c.name) = {}
    BY <2>1, <2>2, <2>3, <1>7 DEF Destroy, Fails, Outcome, TableStep, Kept, Errnos
  <2>4. CASE Named(c.name) # {}
    <3>1. Named(c.name) \subseteq DOMAIN devices
      BY DEF Named
    <3>2. /\ Submitted(p).devices = [h \in DOMAIN devices \ Named(c.name) |-> devices[h]]
          /\ Submitted(p).handles = handles /\ Submitted(p).errno = "0"
      BY <2>1, <2>2, <2>4 DEF Destroy, Outcome
    <3> QED BY <3>1, <3>2, <1>7 DEF TableStep, Removed
  <2> QED BY <2>3, <2>4
<1>8. CASE c.op = "destroy_all"
  <2>1. Submitted(p) = Outcome(NoDevices, handles, "0", 0)
    BY <1>8 DEF Submitted, DestroyAll
  <2>2. NoDevices = [h \in DOMAIN devices \ DOMAIN devices |-> devices[h]]
    BY DEF NoDevices
  <2> QED BY <2>1, <2>2, <1>8 DEF Outcome, TableStep, Removed
<1> QED BY <1>1, <1>4, <1>5, <1>6, <1>7, <1>8 DEF Ops

-----------------------------------------------------------------------------
\* What such a step leaves of the table: a device that is there afterwards
\* was there before, unchanged, or has a new handle.
Grows ==
  /\ handles <= handles'
  /\ \A h \in DOMAIN devices' :
       h > handles \/ (h \in DOMAIN devices /\ devices'[h] = devices[h])

LEMMA TableFinite ==
  ASSUME DevicesInv
  PROVE  IsFiniteSet(DOMAIN devices) /\ Cardinality(DOMAIN devices) \in Nat
BY FS_Interval, FS_Subset, FS_CardinalityType DEF DevicesInv

LEMMA TableStepKeepsInv ==
  ASSUME TypeInv, NEW p \in Process, TableStep(p, Submitted(p)),
         devices' = Submitted(p).devices, handles' = Submitted(p).handles
  PROVE  DevicesInv' /\ Grows
<1> DEFINE o == Submitted(p)
<1>0. DevicesInv
  BY DEF TypeInv
<1>1. CASE Created(p, o)
  <2> DEFINE name == call[p].name
             new  == [name |-> name, maker |-> p, asked |-> name]
  <2>1. /\ devices' = [h \in DOMAIN devices \union {handles + 1} |->
                         IF h = handles + 1 THEN new ELSE devices[h]]
        /\ handles' = handles + 1 /\ handles < MaxHandles
        /\ name \in Name \ TooLong
    BY <1>1 DEF Created
  <2>2. new \in Device /\ new.name = name /\ new.asked = name
    BY <2>1 DEF Device
  <2> HIDE DEF new
  <2>3. handles + 1 \notin DOMAIN devices /\ handles' \in 0 .. MaxHandles
    BY <1>0, <2>1, ControlDeviceAssumption DEF DevicesInv
  <2>4. \A h \in DOMAIN devices' :
          \/ h \in DOMAIN devices /\ devices'[h] = devices[h]
          \/ h = handles + 1 /\ devices'[h] = new
    BY <2>1, <2>3
  <2>5. \A h \in DOMAIN devices : devices[h].name # name
    BY <1>1 DEF Created, Named
  <2>6. devices' \in [DOMAIN devices' -> Device] /\ DOMAIN devices' \subseteq 1 .. handles'
    BY <1>0, <2>1, <2>2, <2>3 DEF DevicesInv
  <2>7. Cardinality(DOMAIN devices') <= MaxDevices
    <3>1. Cardinality(DOMAIN devices \union {handles + 1}) = Cardinality(DOMAIN devices) + 1
      BY <1>0, <2>3, TableFinite, FS_AddElement
    <3> QED BY <1>0, <1>1, <2>1, <3>1, TableFinite, ControlDeviceAssumption DEF Created
  <2>8. \A h \in DOMAIN devices' :
          devices'[h].name = devices'[h].asked /\ devices'[h].name \notin TooLong
    BY <1>0, <2>1, <2>2, <2>4 DEF DevicesInv
  <2>9. \A g, h \in DOMAIN devices' : devices'[g].name = devices'[h].name => g = h
    BY <1>0, <2>2, <2>4, <2>5 DEF DevicesInv
  <2>10. Grows
    BY <1>0, <2>1, <2>4 DEF Grows, DevicesInv
  <2> QED BY <2>3, <2>6, <2>7, <2>8, <2>9, <2>10 DEF DevicesInv
<1>2. CASE Removed(p, o)
  <2>1. PICK gone \in SUBSET DOMAIN devices :
          devices' = [h \in DOMAIN devices \ gone |-> devices[h]] /\ handles' = handles
    BY <1>2 DEF Removed
  <2>2. DOMAIN devices' \subseteq DOMAIN devices
    BY <2>1
  <2>3. \A h \in DOMAIN devices' : devices'[h] = devices[h]
    BY <2>1
  <2>4. Cardinality(DOMAIN devices') <= MaxDevices
    <3>1. /\ Cardinality(DOMAIN devices') <= Cardinality(DOMAIN devices)
          /\ Cardinality(DOMAIN devices') \in Nat
      BY <1>0, <2>2, TableFinite, FS_Subset, FS_CardinalityType
    <3> QED BY <3>1, <1>0, TableFinite, ControlDeviceAssumption DEF DevicesInv
  <2>5. devices' \in [DOMAIN devices' -> Device]
    BY <1>0, <2>1, <2>2, <2>3 DEF DevicesInv
  <2> QED BY <1>0, <2>1, <2>2, <2>3, <2>4, <2>5, ControlDeviceAssumption DEF DevicesInv, Grows
<1>3. CASE Kept(p, o)
  BY <1>0, <1>3, ControlDeviceAssumption DEF Kept, DevicesInv, Grows
<1> QED BY <1>1, <1>2, <1>3 DEF TableStep

-----------------------------------------------------------------------------
(***************************************************************************)
(* The type invariant                                                      *)
(***************************************************************************)
\* The program of main, element by element.
LEMMA ProgramElements ==
  /\ Len(Program) = 12 /\ Deferred = 12 /\ Ended = 13
  /\ Program[1] = [op |-> "ping", name |-> EmptyName]
  /\ \A i \in {2, 4, 6, 9} : Program[i] = [op |-> "create", name |-> device_name]
  /\ Program[3] = [op |-> "destroy_by_id", name |-> EmptyName]
  /\ \A i \in {5, 12} : Program[i] = [op |-> "destroy_by_name", name |-> device_name]
  /\ Program[7] = [op |-> "create", name |-> device_name_2]
  /\ Program[8] = [op |-> "destroy_all", name |-> EmptyName]
  /\ Program[10] = [op |-> "open", name |-> device_name]
  /\ Program[11] = [op |-> "run", name |-> EmptyName]
BY DEF Program, Deferred, Ended

LEMMA ProgramTypes ==
  ASSUME NEW i \in 1 .. 12
  PROVE  /\ Program[i].op \in Ops \union {"open", "run"} /\ Program[i].op # "status_map"
         /\ Program[i].name \in Name \union {EmptyName}
<1>1. i \in {1, 2, 3, 4, 5, 6, 7, 8, 9, 10, 11, 12}
  OBVIOUS
<1> QED BY <1>1, ProgramElements, ControlPlaneAssumption DEF Ops

LEMMA NextStepType ==
  ASSUME TypeInv, NEW errno, step \in 1 .. 12
  PROVE  NextStep(errno) \in 0 .. Ended
BY ProgramElements DEF NextStep, At, GaveUp

LEMMA NoListSmall == Cardinality(NoList) <= MaxDevices /\ NoList \in SUBSET (0 .. MaxHandles)
<1>1. Cardinality(NoList) = 1
  BY FS_Singleton DEF NoList
<1> QED BY <1>1, ControlDeviceAssumption DEF NoList

LEMMA StartKeepsTypes ==
  ASSUME TypeInv, NEW p \in Process, NEW op \in Ops, NEW name \in Name \union {EmptyName},
         NEW handle \in 0 .. MaxHandles, Start(p, op, name, handle)
  PROVE  TypeInv'
<1>1. DevicesInv'
  BY DEF TypeInv, Start, table, DevicesInv, Named
<1>2. Calling(op, name, handle) \in
        [op : Ops \union {"idle"}, name : Name \union {EmptyName}, handle : 0 .. MaxHandles]
  BY DEF Calling
<1>3. Calling(op, name, handle).op # "idle"
  BY DEF Calling, Ops
<1>4. CallsInv'
  BY <1>2, <1>3 DEF TypeInv, CallsInv, Start
<1>5. listing[p] = NoList
  BY DEF Start, TypeInv, ListsInv, Idle
<1>6. ListsInv'
  <2>1. /\ listing' = listing /\ listed' = listed /\ handles' = handles
        /\ device_map' = [device_map EXCEPT ![p] = NoMap]
        /\ \A q \in Process : q # p => call'[q] = call[q]
    BY DEF Start, table, TypeInv, CallsInv
  <2>2. /\ DOMAIN NoMap = {}
        /\ device_map' = [q \in Process |-> device_map'[q]]
        /\ \A q \in Process : device_map'[q] = IF q = p THEN NoMap ELSE device_map[q]
    BY <2>1 DEF TypeInv, ListsInv, NoMap
  <2> QED BY <1>5, <2>1, <2>2 DEF TypeInv, ListsInv
<1> QED BY <1>1, <1>4, <1>6 DEF TypeInv

\* A function returns: the caller is idle again and holds no list.
LEMMA ReturnKeepsTypes ==
  ASSUME TypeInv, NEW p \in Process, NEW errno \in Errnos, Return(p, errno),
         p = Driver => step \in 1 .. 12, UNCHANGED interrupts
  PROVE  /\ call' = [call EXCEPT ![p] = Idle]
         /\ listing' = [listing EXCEPT ![p] = NoList]
         /\ handle_id' \in [Process -> 0 .. MaxHandles] => CallsInv'
<1>1. step' \in 0 .. Ended
  BY NextStepType DEF Return, TypeInv, CallsInv
<1>2. Idle \in [op : Ops \union {"idle"}, name : Name \union {EmptyName}, handle : 0 .. MaxHandles]
  BY ControlDeviceAssumption DEF Idle
<1> QED BY <1>1, <1>2 DEF Return, TypeInv, CallsInv

LEMMA ReturnKeepsLists ==
  ASSUME TypeInv, NEW p \in Process, handles' \in Nat, handles <= handles',
         call' = [call EXCEPT ![p] = Idle], listing' = [listing EXCEPT ![p] = NoList],
         device_map' = device_map \/ device_map' = [device_map EXCEPT ![p] = NoMap],
         UNCHANGED listed
  PROVE  ListsInv'
<1>1. /\ DOMAIN NoMap = {}
      /\ device_map' = [q \in Process |-> device_map'[q]]
      /\ \A q \in Process : device_map'[q] \in {NoMap, device_map[q]}
  BY DEF TypeInv, ListsInv, NoMap
<1>2. \A q \in Process : DOMAIN device_map'[q] \subseteq Name
  BY <1>1 DEF TypeInv, ListsInv
<1>3. listing' \in [Process -> SUBSET (0 .. MaxHandles)]
  BY NoListSmall DEF TypeInv, ListsInv
<1>4. \A q \in Process : Cardinality(listing'[q]) <= MaxDevices
  BY NoListSmall DEF TypeInv, ListsInv
<1>5. \A q \in Process : call'[q].op # "status_map" => listing'[q] = NoList
  BY DEF TypeInv, ListsInv, CallsInv
<1>6. \A q \in Process : DOMAIN listed'[q] \subseteq 1 .. handles'
  BY DEF TypeInv, ListsInv, DevicesInv
<1> QED BY <1>1, <1>2, <1>3, <1>4, <1>5, <1>6 DEF TypeInv, ListsInv

\* One lemma per action: it keeps the types, and what it does to the table
\* is what one ioctl can do.
LEMMA FinishTypes ==
  ASSUME TypeInv, DriverCallInv, NEW p \in Process, Finish(p)
  PROVE  TypeInv' /\ Grows
<1> DEFINE o == Submitted(p)
<1>1. /\ call[p] # Idle /\ call[p].op # "status_map"
      /\ devices' = o.devices /\ handles' = o.handles /\ Return(p, o.errno)
      /\ UNCHANGED <<device_map, listed, interrupts>>
      /\ handle_id' = IF KeepsHandle(p, o.errno)
                        THEN [handle_id EXCEPT ![p] = o.value] ELSE handle_id
  BY DEF Finish
<1>2. TableStep(p, o)
  BY <1>1, SubmittedIsTableStep
<1>3. DevicesInv' /\ Grows
  BY <1>1, <1>2, TableStepKeepsInv
<1>4. o.errno \in Errnos
  BY <1>2 DEF TableStep, Created, Removed, Kept, Errnos
<1>5. handle_id' \in [Process -> 0 .. MaxHandles]
  <2>1. CASE KeepsHandle(p, o.errno)
    <3>1. o.value = handles + 1 /\ handles < MaxHandles
      BY <1>2, <2>1 DEF TableStep, Created, Removed, Kept, KeepsHandle
    <3>2. o.value \in 0 .. MaxHandles
      BY <3>1, ControlDeviceAssumption DEF TypeInv, DevicesInv
    <3> QED BY <1>1, <2>1, <3>2 DEF TypeInv, CallsInv
  <2>2. CASE ~KeepsHandle(p, o.errno)
    BY <1>1, <2>2 DEF TypeInv, CallsInv
  <2> QED BY <2>1, <2>2
<1>6. p = Driver => step \in 1 .. 12
  BY <1>1, ProgramElements DEF DriverCallInv
<1>7. PICK errno \in Errnos : Return(p, errno)
  BY <1>1, <1>4
<1>8. /\ call' = [call EXCEPT ![p] = Idle] /\ listing' = [listing EXCEPT ![p] = NoList]
      /\ CallsInv'
  BY <1>1, <1>5, <1>6, <1>7, ReturnKeepsTypes
<1>9. ListsInv'
  <2>1. handles' \in Nat /\ handles <= handles'
    BY <1>3, ControlDeviceAssumption DEF Grows, DevicesInv
  <2>2. device_map' = device_map /\ UNCHANGED listed
    BY <1>1
  <2> QED BY <1>8, <2>1, <2>2, ReturnKeepsLists
<1> QED BY <1>3, <1>8, <1>9 DEF TypeInv

LEMMA RefusedTypes ==
  ASSUME TypeInv, DriverCallInv, NEW p \in Process, Refused(p)
  PROVE  TypeInv' /\ UNCHANGED table
<1>1. /\ call[p] # Idle /\ Return(p, "ENOMEM") /\ "ENOMEM" \in Errnos
      /\ device_map' = [device_map EXCEPT ![p] = NoMap]
      /\ UNCHANGED <<table, listed, handle_id, interrupts>>
  BY DEF Refused, Errnos
<1>2. p = Driver => step \in 1 .. 12
  BY <1>1, ProgramElements DEF DriverCallInv
<1>3. /\ call' = [call EXCEPT ![p] = Idle] /\ listing' = [listing EXCEPT ![p] = NoList]
      /\ CallsInv'
  <2>1. UNCHANGED interrupts /\ handle_id' \in [Process -> 0 .. MaxHandles]
    BY <1>1 DEF TypeInv, CallsInv
  <2> QED BY <1>1, <1>2, <2>1, ReturnKeepsTypes
<1>4. DevicesInv' /\ handles' = handles /\ handles \in Nat
  BY <1>1, ControlDeviceAssumption DEF TypeInv, DevicesInv, table
<1>5. ListsInv'
  <2>1. handles' \in Nat /\ handles <= handles' /\ UNCHANGED listed
    BY <1>1, <1>4
  <2> QED BY <1>1, <1>3, <2>1, ReturnKeepsLists
<1> QED BY <1>1, <1>3, <1>4, <1>5 DEF TypeInv

LEMMA InterruptedTypes ==
  ASSUME TypeInv, NEW p \in Process, Interrupted(p)
  PROVE  TypeInv' /\ Grows /\ UNCHANGED clients
<1>1. /\ call[p] # Idle /\ UNCHANGED clients
      /\ interrupts' = interrupts + 1 /\ interrupts < MaxInterrupts
  BY DEF Interrupted
<1>2. DevicesInv' /\ Grows
  <2>1. CASE UNCHANGED table
    BY <2>1 DEF TypeInv, DevicesInv, Grows, table
  <2>2. CASE /\ call[p].op # "status_map"
             /\ devices' = Submitted(p).devices /\ handles' = Submitted(p).handles
    BY <1>1, <2>2, SubmittedIsTableStep, TableStepKeepsInv
  <2> QED BY <2>1, <2>2 DEF Interrupted
<1>3. CallsInv'
  BY <1>1, ControlPlaneAssumption DEF TypeInv, CallsInv, clients
<1>4. ListsInv'
  BY <1>1, <1>2, ControlDeviceAssumption DEF TypeInv, ListsInv, DevicesInv, Grows, clients
<1> QED BY <1>1, <1>2, <1>3, <1>4 DEF TypeInv

LEMMA GetListTypes ==
  ASSUME TypeInv, NEW p \in Process, GetList(p)
  PROVE  TypeInv' /\ UNCHANGED table
<1>1. /\ call[p].op = "status_map"
      /\ listing' = [listing EXCEPT ![p] = DOMAIN devices]
      /\ listed' = [listed EXCEPT ![p] = devices]
      /\ UNCHANGED <<devices, handles, call, device_map, ret, handle_id, step, interrupts>>
  BY DEF GetList, StatusList, Outcome, table
<1>2. /\ DOMAIN devices \in SUBSET (0 .. MaxHandles) /\ DOMAIN devices \subseteq 1 .. handles
      /\ Cardinality(DOMAIN devices) <= MaxDevices
  BY ControlDeviceAssumption DEF TypeInv, DevicesInv
<1>3. listed' = [q \in Process |-> listed'[q]]
  BY <1>1 DEF TypeInv, ListsInv
<1>4. \A q \in Process :
        /\ listing'[q] \in {DOMAIN devices, listing[q]} /\ listed'[q] \in {devices, listed[q]}
        /\ q # p => listing'[q] = listing[q]
  BY <1>1 DEF TypeInv, ListsInv
<1>5. \A q \in Process :
        /\ Cardinality(listing'[q]) <= MaxDevices
        /\ call'[q].op # "status_map" => listing'[q] = NoList
        /\ DOMAIN device_map'[q] \subseteq Name /\ DOMAIN listed'[q] \subseteq 1 .. handles'
  BY <1>1, <1>2, <1>4 DEF TypeInv, ListsInv
<1>6. listing' \in [Process -> SUBSET (0 .. MaxHandles)]
  BY <1>1, <1>2 DEF TypeInv, ListsInv
<1>7. ListsInv'
  BY <1>1, <1>3, <1>5, <1>6 DEF TypeInv, ListsInv
<1>8. DevicesInv' /\ CallsInv'
  BY <1>1 DEF TypeInv, DevicesInv, CallsInv
<1> QED BY <1>1, <1>7, <1>8 DEF TypeInv, table

\* What a turn of the loop of the status map does: an error ends the call, or
\* the device is in the map.
LEMMA GetStatusCases ==
  ASSUME TypeInv, NEW p \in Process, GetStatus(p)
  PROVE  /\ call[p].op = "status_map" /\ listing[p] # NoList
         /\ UNCHANGED <<devices, handles, listed, handle_id, interrupts>>
         /\ \E h \in listing[p] :
              \/ /\ Return(p, "ENOENT")
                 /\ device_map' = [device_map EXCEPT ![p] = NoMap]
              \/ /\ h \in DOMAIN devices
                 /\ listing' = [listing EXCEPT ![p] = listing[p] \ {h}]
                 /\ device_map' = [device_map EXCEPT ![p] =
                                     Add(device_map[p], Lower[devices[h].name],
                                         [name |-> devices[h].name, handle |-> h])]
                 /\ UNCHANGED <<call, ret, step>>
<1>1. PICK h \in listing[p] :
        \/ /\ StatusDevice(h).errno # "0"
           /\ Return(p, StatusDevice(h).errno)
           /\ device_map' = [device_map EXCEPT ![p] = NoMap]
        \/ /\ StatusDevice(h).errno = "0"
           /\ listing' = [listing EXCEPT ![p] = @ \ {h}]
           /\ device_map' = [device_map EXCEPT ![p] =
                 Add(@, Lower[StatusDevice(h).value.name], StatusDevice(h).value)]
           /\ UNCHANGED <<call, ret, step>>
  BY DEF GetStatus
<1>2. CASE h \in DOMAIN devices
  <2>1. /\ StatusDevice(h).errno = "0"
        /\ StatusDevice(h).value = [name |-> devices[h].name, handle |-> h]
        /\ StatusDevice(h).value.name = devices[h].name
    BY <1>2 DEF StatusDevice, Outcome
  <2> QED BY <1>1, <1>2, <2>1 DEF GetStatus, table, TypeInv, ListsInv
<1>3. CASE h \notin DOMAIN devices
  <2>1. StatusDevice(h).errno = "ENOENT"
    BY <1>3 DEF StatusDevice, Fails, Outcome
  <2> QED BY <1>1, <2>1 DEF GetStatus, table
<1> QED BY <1>2, <1>3

LEMMA GetStatusTypes ==
  ASSUME TypeInv, DriverCallInv, NEW p \in Process, GetStatus(p)
  PROVE  TypeInv' /\ UNCHANGED table
<1>1. /\ call[p].op = "status_map"
      /\ UNCHANGED <<devices, handles, listed, handle_id, interrupts>>
  BY GetStatusCases
<1>2. DevicesInv' /\ handles' = handles /\ handles \in Nat /\ handles <= handles' /\ UNCHANGED table
  BY <1>1, ControlDeviceAssumption DEF TypeInv, DevicesInv, table
<1>3. CASE Return(p, "ENOENT") /\ device_map' = [device_map EXCEPT ![p] = NoMap]
  <2>1. "ENOENT" \in Errnos /\ handle_id' \in [Process -> 0 .. MaxHandles] /\ UNCHANGED interrupts
    BY <1>1 DEF TypeInv, CallsInv, Errnos
  <2>2. p = Driver => step \in 1 .. 12
    BY <1>1, ProgramElements DEF DriverCallInv, Idle
  <2>3. /\ call' = [call EXCEPT ![p] = Idle] /\ listing' = [listing EXCEPT ![p] = NoList]
        /\ CallsInv'
    BY <1>3, <2>1, <2>2, ReturnKeepsTypes
  <2>4. ListsInv'
    BY <1>1, <1>2, <1>3, <2>3, ReturnKeepsLists
  <2> QED BY <1>2, <2>3, <2>4 DEF TypeInv
<1>4. ASSUME NEW h \in listing[p], h \in DOMAIN devices,
             listing' = [listing EXCEPT ![p] = listing[p] \ {h}],
             device_map' = [device_map EXCEPT ![p] =
                               Add(device_map[p], Lower[devices[h].name],
                                   [name |-> devices[h].name, handle |-> h])],
             UNCHANGED <<call, ret, step>>
      PROVE  TypeInv'
  <2> DEFINE key == Lower[devices[h].name]
             map == Add(device_map[p], key, [name |-> devices[h].name, handle |-> h])
  <2>1. key \in Name
    BY <1>4, ControlPlaneAssumption DEF TypeInv, DevicesInv, Device
  <2>2. DOMAIN map = DOMAIN device_map[p] \union {key}
    BY DEF Add
  <2> HIDE DEF map, key
  <2>3. DOMAIN map \subseteq Name
    BY <2>1, <2>2 DEF TypeInv, ListsInv
  <2>4. /\ device_map' = [q \in Process |-> device_map'[q]]
        /\ \A q \in Process : device_map'[q] \in {map, device_map[q]}
    BY <1>4 DEF TypeInv, ListsInv, map, key
  <2>5. Cardinality(listing[p] \ {h}) <= MaxDevices
    <3>1. IsFiniteSet(listing[p])
      <4>1. IsFiniteSet(0 .. MaxHandles) /\ listing[p] \subseteq 0 .. MaxHandles
        BY FS_Interval, ControlDeviceAssumption DEF TypeInv, ListsInv
      <4> QED BY <4>1, FS_Subset
    <3>2. /\ Cardinality(listing[p] \ {h}) <= Cardinality(listing[p])
          /\ Cardinality(listing[p] \ {h}) \in Nat /\ Cardinality(listing[p]) \in Nat
      BY <3>1, FS_Subset, FS_CardinalityType
    <3> QED BY <3>2, ControlDeviceAssumption DEF TypeInv, ListsInv
  <2>6. /\ listing' \in [Process -> SUBSET (0 .. MaxHandles)]
        /\ \A q \in Process :
             /\ Cardinality(listing'[q]) <= MaxDevices
             /\ call'[q].op # "status_map" => listing'[q] = NoList
    BY <1>1, <1>4, <2>5 DEF TypeInv, ListsInv
  <2>7. \A q \in Process : DOMAIN device_map'[q] \subseteq Name
    BY <2>3, <2>4 DEF TypeInv, ListsInv
  <2>8. ListsInv'
    <3>1. /\ listed' = [q \in Process |-> listed'[q]]
          /\ \A q \in Process : DOMAIN listed'[q] \subseteq 1 .. handles'
      BY <1>1 DEF TypeInv, ListsInv
    <3> QED BY <2>4, <2>6, <2>7, <3>1 DEF ListsInv
  <2>9. CallsInv'
    BY <1>1, <1>4 DEF TypeInv, CallsInv
  <2> QED BY <1>2, <2>8, <2>9 DEF TypeInv
<1> QED BY <1>2, <1>3, <1>4, GetStatusCases

LEMMA MapDoneTypes ==
  ASSUME TypeInv, DriverCallInv, NEW p \in Process, MapDone(p)
  PROVE  TypeInv' /\ UNCHANGED table
<1>1. /\ call[p].op = "status_map" /\ Return(p, "0") /\ "0" \in Errnos
      /\ UNCHANGED <<devices, handles, device_map, listed, handle_id, interrupts>>
  BY DEF MapDone, table, Errnos
<1>2. p = Driver => step \in 1 .. 12
  BY <1>1, ProgramElements DEF DriverCallInv, Idle
<1>3. /\ call' = [call EXCEPT ![p] = Idle] /\ listing' = [listing EXCEPT ![p] = NoList]
      /\ CallsInv'
  <2>1. UNCHANGED interrupts /\ handle_id' \in [Process -> 0 .. MaxHandles]
    BY <1>1 DEF TypeInv, CallsInv
  <2> QED BY <1>1, <1>2, <2>1, ReturnKeepsTypes
<1>4. /\ handles' \in Nat /\ handles <= handles'
      /\ device_map' = device_map /\ UNCHANGED listed /\ DevicesInv'
  BY <1>1, ControlDeviceAssumption DEF TypeInv, DevicesInv
<1>5. ListsInv'
  BY <1>3, <1>4, ReturnKeepsLists
<1> QED BY <1>1, <1>3, <1>4, <1>5 DEF TypeInv, table

LEMMA DriverCallsTypes ==
  ASSUME TypeInv, DriverCalls
  PROVE  TypeInv' /\ UNCHANGED table
<1>1. Driver \in Process
  BY ControlPlaneAssumption
<1>2. step \in 1 .. 12 /\ Program[step].op \notin {"open", "run"}
  BY ProgramElements DEF DriverCalls
<1>3. PICK op \in Ops, name \in Name \union {EmptyName}, handle \in 0 .. MaxHandles :
        Start(Driver, op, name, handle)
  <2>1. Program[step].op \in Ops /\ Program[step].name \in Name \union {EmptyName}
    BY <1>2, ProgramTypes
  <2>2. handle_id[Driver] \in 0 .. MaxHandles
    BY <1>1 DEF TypeInv, CallsInv
  <2> QED BY <2>1, <2>2 DEF DriverCalls
<1>4. UNCHANGED table
  BY <1>3 DEF Start
<1> QED BY <1>1, <1>3, <1>4, StartKeepsTypes

LEMMA DriverWaitsTypes ==
  ASSUME TypeInv, DriverOpens \/ DriverRunEnds
  PROVE  /\ TypeInv'
         /\ UNCHANGED <<table, call, listing, device_map, listed, ret, handle_id, interrupts>>
<1>1. UNCHANGED <<table, call, listing, device_map, listed, ret, handle_id, interrupts>>
  BY DEF DriverOpens, DriverRunEnds
<1>2. step' \in 0 .. Ended
  <2>1. CASE DriverOpens
    <3>1. step \in 1 .. 12
      BY <2>1, ProgramElements DEF DriverOpens, At
    <3>2. PICK errno : step' = NextStep(errno)
      BY <2>1 DEF DriverOpens
    <3> QED BY <3>1, <3>2, NextStepType
  <2>2. CASE DriverRunEnds
    BY <2>2, ProgramElements DEF DriverRunEnds
  <2> QED BY <2>1, <2>2
<1>3. DevicesInv' /\ ListsInv'
  BY <1>1 DEF TypeInv, DevicesInv, ListsInv, table
<1>4. CallsInv'
  BY <1>1, <1>2 DEF TypeInv, CallsInv
<1> QED BY <1>1, <1>3, <1>4 DEF TypeInv

LEMMA OtherCallsTypes ==
  ASSUME TypeInv, NEW p \in Process, OtherCalls(p)
  PROVE  TypeInv' /\ UNCHANGED table
<1>1. PICK op \in Ops, name \in Name \union {EmptyName}, handle \in 0 .. MaxHandles :
        Start(p, op, name, handle)
  <2>1. 0 \in 0 .. MaxHandles /\ 1 .. handles \subseteq 0 .. MaxHandles
    BY ControlDeviceAssumption DEF TypeInv, DevicesInv
  <2>2. {"ping", "create", "destroy_by_id", "destroy_by_name", "destroy_all", "status_map"} = Ops
    BY DEF Ops
  <2> QED BY <2>1, <2>2 DEF OtherCalls
<1>2. UNCHANGED table
  BY <1>1 DEF Start
<1> QED BY <1>1, <1>2, StartKeepsTypes

\* The driver is in a call only as its program says.
LEMMA DriverCallStep ==
  ASSUME TypeInv, DriverCallInv, [Next]_vars
  PROVE  DriverCallInv'
<1>0. Driver \in Process
  BY ControlPlaneAssumption
<1> DEFINE Same == UNCHANGED <<call, step, handle_id>>
<1>1. ASSUME Same PROVE DriverCallInv'
  BY <1>1 DEF DriverCallInv
<1>2. ASSUME NEW p \in Process, NEW errno, Return(p, errno),
             p # Driver => handle_id'[Driver] = handle_id[Driver]
      PROVE  DriverCallInv'
  <2>1. CASE p = Driver
    <3>1. call'[Driver] = Idle
      BY <1>0, <1>2, <2>1 DEF Return, TypeInv, CallsInv
    <3> QED BY <3>1 DEF DriverCallInv
  <2>2. CASE p # Driver
    <3>1. /\ call'[Driver] = call[Driver] /\ step' = step
          /\ handle_id'[Driver] = handle_id[Driver]
      BY <1>0, <1>2, <2>2 DEF Return, TypeInv, CallsInv
    <3> QED BY <3>1 DEF DriverCallInv
  <2> QED BY <2>1, <2>2
<1>3. CASE DriverCalls
  <2>1. /\ step \in 1 .. Len(Program) /\ Program[step].op \notin {"open", "run"}
        /\ call' = [call EXCEPT ![Driver] =
                      Calling(Program[step].op, Program[step].name, handle_id[Driver])]
        /\ step' = step /\ handle_id' = handle_id
    BY <1>3 DEF DriverCalls, Start
  <2>2. call'[Driver] = Calling(Program[step].op, Program[step].name, handle_id[Driver])
    BY <1>0, <2>1 DEF TypeInv, CallsInv
  <2> QED BY <2>1, <2>2 DEF DriverCallInv
<1>4. CASE DriverOpens \/ DriverRunEnds
  <2>1. At("open") \/ At("run")
    BY <1>4 DEF DriverOpens, DriverRunEnds
  <2>2. call[Driver] = Idle /\ call' = call
    BY <1>4, <2>1 DEF DriverCallInv, At, DriverOpens, DriverRunEnds
  <2> QED BY <2>2 DEF DriverCallInv
<1>5. ASSUME NEW p \in Process, Finish(p) PROVE DriverCallInv'
  <2>1. /\ Return(p, Submitted(p).errno)
        /\ \/ handle_id' = handle_id
           \/ handle_id' = [handle_id EXCEPT ![p] = Submitted(p).value]
    BY <1>5 DEF Finish
  <2>2. p # Driver => handle_id'[Driver] = handle_id[Driver]
    BY <1>0, <2>1 DEF TypeInv, CallsInv
  <2>3. PICK errno : Return(p, errno)
    BY <2>1
  <2> QED BY <1>2, <2>2, <2>3
<1>6. ASSUME NEW p \in Process, GetList(p) PROVE DriverCallInv'
  BY <1>1, <1>6 DEF GetList
<1>7. ASSUME NEW p \in Process, GetStatus(p) PROVE DriverCallInv'
  <2>1. handle_id' = handle_id /\ (Return(p, "ENOENT") \/ UNCHANGED <<call, step>>)
    BY <1>7, GetStatusCases
  <2> QED BY <1>1, <1>2, <2>1
<1>8. ASSUME NEW p \in Process, MapDone(p) \/ Refused(p) PROVE DriverCallInv'
  <2>1. handle_id' = handle_id /\ (Return(p, "0") \/ Return(p, "ENOMEM"))
    BY <1>8 DEF MapDone, Refused
  <2> QED BY <1>2, <2>1
<1>9. ASSUME NEW p \in Process, Interrupted(p) PROVE DriverCallInv'
  BY <1>1, <1>9 DEF Interrupted, clients
<1>10. ASSUME NEW p \in Process, OtherCalls(p) PROVE DriverCallInv'
  <2>1. p # Driver
    BY <1>10 DEF OtherCalls
  <2>2. PICK op, name, handle : Start(p, op, name, handle)
    BY <1>10 DEF OtherCalls
  <2>3. call'[Driver] = call[Driver] /\ step' = step /\ handle_id' = handle_id
    BY <1>0, <2>1, <2>2 DEF Start, TypeInv, CallsInv
  <2> QED BY <2>3 DEF DriverCallInv
<1>11. CASE UNCHANGED vars
  BY <1>1, <1>11 DEF vars, clients
<1> QED BY <1>3, <1>4, <1>5, <1>6, <1>7, <1>8, <1>9, <1>10, <1>11
        DEF Next, Step, DriverMain, Works

LEMMA TypesStep ==
  ASSUME TypeInv, DriverCallInv, [Next]_vars
  PROVE  TypeInv' /\ Grows
<1>1. ASSUME UNCHANGED table PROVE Grows
  BY <1>1, ControlDeviceAssumption DEF Grows, table, TypeInv, DevicesInv
<1>2. CASE DriverCalls
  BY <1>1, <1>2, DriverCallsTypes
<1>3. CASE DriverOpens \/ DriverRunEnds
  BY <1>1, <1>3, DriverWaitsTypes
<1>4. ASSUME NEW p \in Process, Finish(p) PROVE TypeInv' /\ Grows
  BY <1>4, FinishTypes
<1>5. ASSUME NEW p \in Process, GetList(p) PROVE TypeInv' /\ Grows
  BY <1>1, <1>5, GetListTypes
<1>6. ASSUME NEW p \in Process, GetStatus(p) PROVE TypeInv' /\ Grows
  BY <1>1, <1>6, GetStatusTypes
<1>7. ASSUME NEW p \in Process, MapDone(p) PROVE TypeInv' /\ Grows
  BY <1>1, <1>7, MapDoneTypes
<1>8. ASSUME NEW p \in Process, Refused(p) PROVE TypeInv' /\ Grows
  BY <1>1, <1>8, RefusedTypes
<1>9. ASSUME NEW p \in Process, Interrupted(p) PROVE TypeInv' /\ Grows
  BY <1>9, InterruptedTypes
<1>10. ASSUME NEW p \in Process, OtherCalls(p) PROVE TypeInv' /\ Grows
  BY <1>1, <1>10, OtherCallsTypes
<1>11. CASE UNCHANGED vars
  <2>1. UNCHANGED table /\ UNCHANGED clients /\ UNCHANGED interrupts
    BY <1>11 DEF vars
  <2>2. DevicesInv' /\ CallsInv' /\ ListsInv'
    BY <2>1 DEF table, clients, TypeInv, DevicesInv, CallsInv, ListsInv
  <2> QED BY <1>1, <2>1, <2>2 DEF TypeInv
<1> QED BY <1>2, <1>3, <1>4, <1>5, <1>6, <1>7, <1>8, <1>9, <1>10, <1>11
        DEF Next, Step, DriverMain, Works

LEMMA InitTypes == Init => TypeInv /\ DriverCallInv
<1> SUFFICES ASSUME Init PROVE TypeInv /\ DriverCallInv
  OBVIOUS
<1>1. DevicesInv
  <2>1. DOMAIN devices = {} /\ handles = 0
    BY DEF Init, NoDevices
  <2> QED BY <2>1, FS_EmptySet, ControlDeviceAssumption DEF Init, NoDevices, DevicesInv
<1>2. CallsInv
  BY ProgramElements, ControlDeviceAssumption, ControlPlaneAssumption
     DEF Init, CallsInv, Idle, Errnos
<1>3. ListsInv
  <2>1. DOMAIN NoMap = {} /\ DOMAIN NoDevices = {}
    BY DEF NoMap, NoDevices
  <2> HIDE DEF NoMap, NoDevices
  <2> QED BY <2>1, NoListSmall DEF Init, ListsInv
<1>4. DriverCallInv
  BY ControlPlaneAssumption DEF Init, DriverCallInv
<1> QED BY <1>1, <1>2, <1>3, <1>4 DEF TypeInv

LEMMA TypesInvariant == Spec => [](TypeInv /\ DriverCallInv)
<1>1. TypeInv /\ DriverCallInv /\ [Next]_vars => (TypeInv /\ DriverCallInv)'
  BY TypesStep, DriverCallStep
<1> QED BY InitTypes, <1>1, PTL DEF Spec

\* Every variable keeps its type, and every device has the name its maker asked
\* for, although the error for a name that is too long is dropped.
THEOREM TypeCorrect == Spec => []TypeOK
<1>1. TypeInv => TypeOK
  BY DEF TypeInv, DevicesInv, CallsInv, ListsInv, TypeOK
<1> QED BY TypesInvariant, <1>1, PTL

-----------------------------------------------------------------------------
(***************************************************************************)
(* Which devices go                                                        *)
(***************************************************************************)
\* Only an ioctl of a create or destroy changes the table, when its call
\* returns or when a signal ends it after it took effect.
Submits(p) ==
  /\ call[p] # Idle /\ call[p].op # "status_map"
  /\ TableStep(p, Submitted(p))
  /\ devices' = Submitted(p).devices /\ handles' = Submitted(p).handles

LEMMA TableChange ==
  ASSUME TypeInv, DriverCallInv, [Next]_vars
  PROVE  UNCHANGED table \/ \E p \in Process : Submits(p)
<1>1. ASSUME NEW p \in Process, Finish(p) \/ Interrupted(p)
      PROVE  UNCHANGED table \/ Submits(p)
  <2>1. \/ UNCHANGED table
        \/ /\ call[p] # Idle /\ call[p].op # "status_map"
           /\ devices' = Submitted(p).devices /\ handles' = Submitted(p).handles
    BY <1>1 DEF Finish, Interrupted
  <2> QED BY <2>1, SubmittedIsTableStep DEF Submits
<1>2. CASE DriverMain
  BY <1>2, DriverCallsTypes, DriverWaitsTypes DEF DriverMain
<1>3. ASSUME NEW p \in Process, GetList(p) \/ GetStatus(p) \/ MapDone(p) \/ Refused(p) \/ OtherCalls(p)
      PROVE  UNCHANGED table
  BY <1>3, GetListTypes, GetStatusTypes, MapDoneTypes, RefusedTypes, OtherCallsTypes
<1>4. CASE UNCHANGED vars
  BY <1>4 DEF vars
<1> QED BY <1>1, <1>2, <1>3, <1>4 DEF Next, Step, Works

\* A device goes only because somebody asked for its destruction, by the name
\* it was asked for under, by its id, or with all others.
THEOREM OnlyNamedAreDestroyed == Spec => DestroysOnlyNamed
<1>1. ASSUME TypeInv, DriverCallInv, [Next]_vars,
             NEW h \in DOMAIN devices \ DOMAIN devices'
      PROVE  \E p \in Process :
               \/ call[p].op = "destroy_all"
               \/ call[p].op = "destroy_by_name" /\ call[p].name = devices[h].asked
               \/ call[p].op = "destroy_by_id" /\ call[p].handle = h
  <2>1. PICK p \in Process : Submits(p)
    BY <1>1, TableChange DEF table
  <2>2. Removed(p, Submitted(p))
    BY <1>1, <2>1 DEF Submits, TableStep, Created, Kept
  <2>3. PICK gone \in SUBSET DOMAIN devices :
          /\ devices' = [g \in DOMAIN devices \ gone |-> devices[g]]
          /\ \/ call[p].op = "destroy_all"
             \/ call[p].op = "destroy_by_name" /\ gone = Named(call[p].name)
             \/ call[p].op = "destroy_by_id" /\ gone = {call[p].handle} \intersect DOMAIN devices
    BY <2>1, <2>2 DEF Removed, Submits
  <2>4. h \in gone
    BY <1>1, <2>3
  <2>5. h \in Named(call[p].name) => call[p].name = devices[h].asked
    BY <1>1 DEF Named, TypeInv, DevicesInv
  <2> QED BY <2>3, <2>4, <2>5
<1>2. TypeInv /\ DriverCallInv /\ [Next]_vars =>
        [\A h \in DOMAIN devices \ DOMAIN devices' :
           \E p \in Process :
             \/ call[p].op = "destroy_all"
             \/ call[p].op = "destroy_by_name" /\ call[p].name = devices[h].asked
             \/ call[p].op = "destroy_by_id" /\ call[p].handle = h]_vars
  BY <1>1
<1> QED BY TypesInvariant, <1>2, PTL DEF Spec, DestroysOnlyNamed

-----------------------------------------------------------------------------
(***************************************************************************)
(* The status map                                                          *)
(***************************************************************************)
\* No two names differ only in case.
LowerIsInjective == \A m, n \in Name : Lower[m] = Lower[n] => m = n

\* What happens to the table does not concern a list that is already made.
LEMMA GrowsKeepsMap ==
  ASSUME TypeInv, NEW p \in Process, MapInv(p), Grows,
         call'[p] = call[p], listing'[p] = listing[p],
         device_map'[p] = device_map[p], listed'[p] = listed[p]
  PROVE  MapInv(p)'
<1>1. SUFFICES ASSUME call[p].op = "status_map", listing[p] # NoList,
                      NEW h \in DOMAIN listed[p] \intersect DOMAIN devices'
               PROVE  devices'[h] = listed[p][h]
  BY DEF MapInv
<1>2. h \in 1 .. handles
  BY <1>1 DEF TypeInv, ListsInv
<1>3. h \in DOMAIN devices /\ devices'[h] = devices[h]
  BY <1>1, <1>2, ControlDeviceAssumption DEF Grows, TypeInv, DevicesInv
<1> QED BY <1>1, <1>3 DEF MapInv

LEMMA IdleKeepsMap ==
  ASSUME NEW p \in Process, call'[p].op # "status_map"
  PROVE  MapInv(p)'
BY DEF MapInv

LEMMA GetListKeepsMap ==
  ASSUME TypeInv, NEW p \in Process, MapInv(p), GetList(p)
  PROVE  MapInv(p)'
<1>1. /\ call[p].op = "status_map" /\ listing[p] = NoList /\ call' = call
      /\ listing'[p] = DOMAIN devices /\ listed'[p] = devices /\ devices' = devices
      /\ device_map' = device_map
  BY DEF GetList, StatusList, Outcome, table, TypeInv, ListsInv
<1>2. device_map[p] = NoMap /\ DOMAIN NoMap = {}
  BY <1>1 DEF MapInv, NoMap
<1>3. \A h \in DOMAIN devices : devices[h].name \in Name
  BY DEF TypeInv, DevicesInv, Device
<1>4. \A g, h \in DOMAIN devices : devices[g].name = devices[h].name => g = h
  BY DEF TypeInv, DevicesInv
<1>5. listing'[p] # NoList
  BY <1>1, ControlDeviceAssumption DEF TypeInv, DevicesInv, NoList
<1> QED BY <1>1, <1>2, <1>3, <1>4, <1>5 DEF MapInv

LEMMA GetStatusKeepsMap ==
  ASSUME TypeInv, LowerIsInjective, NEW p \in Process, MapInv(p), GetStatus(p)
  PROVE  MapInv(p)'
<1>1. /\ call[p].op = "status_map" /\ listing[p] # NoList
      /\ UNCHANGED <<devices, handles, listed>>
  BY GetStatusCases
<1>2. CASE Return(p, "ENOENT")
  <2>1. call'[p] = Idle
    BY <1>2 DEF Return, TypeInv, CallsInv
  <2> QED BY <2>1, IdleKeepsMap DEF Idle
<1>3. ASSUME NEW h \in listing[p], h \in DOMAIN devices,
             listing' = [listing EXCEPT ![p] = listing[p] \ {h}],
             device_map' = [device_map EXCEPT ![p] =
                               Add(device_map[p], Lower[devices[h].name],
                                   [name |-> devices[h].name, handle |-> h])],
             UNCHANGED <<call, ret, step>>
      PROVE  MapInv(p)'
  <2> DEFINE key == Lower[devices[h].name]
             entry == [name |-> devices[h].name, handle |-> h]
             map == Add(device_map[p], key, entry)
             then == listed[p]
  <2>1. /\ DOMAIN map = DOMAIN device_map[p] \union {key} /\ map[key] = entry
        /\ \A n \in DOMAIN device_map[p] : n # key => map[n] = device_map[p][n]
    BY DEF Add
  <2>2. entry.handle = h
    OBVIOUS
  <2>3. /\ listing'[p] = listing[p] \ {h} /\ device_map'[p] = map
        /\ listed'[p] = then /\ call'[p] = call[p]
    BY <1>1, <1>3 DEF TypeInv, ListsInv
  <2> HIDE DEF map
  <2>4. /\ listing[p] \subseteq DOMAIN then
        /\ \A g \in DOMAIN then : then[g].name \in Name
        /\ \A f, g \in DOMAIN then : then[f].name = then[g].name => f = g
        /\ \A g \in DOMAIN then \intersect DOMAIN devices : devices[g] = then[g]
        /\ \A g \in DOMAIN then \ listing[p] : IsEntry(device_map[p], g, then[g])
        /\ \A n \in DOMAIN device_map[p] : device_map[p][n].handle \in DOMAIN then
    BY <1>1 DEF MapInv
  <2>5. h \in DOMAIN then /\ devices[h] = then[h]
    BY <1>3, <2>4
  <2>6. ASSUME NEW g \in DOMAIN then \ (listing[p] \ {h})
        PROVE  IsEntry(map, g, then[g])
    <3>1. CASE g = h
      BY <2>1, <2>5, <3>1 DEF IsEntry
    <3>2. CASE g # h
      <4>1. Lower[then[g].name] # key
        BY <2>4, <2>5, <2>6, <3>2 DEF LowerIsInjective
      <4> HIDE DEF entry, key
      <4> QED BY <2>1, <2>4, <2>6, <3>2, <4>1 DEF IsEntry
    <3> QED BY <3>1, <3>2
  <2>7. ASSUME NEW n \in DOMAIN map PROVE map[n].handle \in DOMAIN then
    <3> HIDE DEF entry, key
    <3> QED BY <2>1, <2>2, <2>4, <2>5, <2>7
  <2>8. listing'[p] # NoList
    <3>1. 0 \notin listing[p]
      BY <2>4, ControlDeviceAssumption DEF TypeInv, ListsInv, DevicesInv
    <3> QED BY <2>3, <3>1 DEF NoList
  <2> HIDE DEF entry, key, then
  <2>9. listing'[p] \subseteq DOMAIN then
    BY <2>3, <2>4
  <2>10. device_map'[p] = map /\ listed'[p] = then /\ devices' = devices
    BY <1>1, <2>3
  <2> QED BY <2>3, <2>4, <2>6, <2>7, <2>8, <2>9, <2>10 DEF MapInv
<1> QED BY <1>1, <1>2, <1>3, GetStatusCases

\* Each program's map, whoever takes the step.
LEMMA MapStep ==
  ASSUME TypeInv, DriverCallInv, LowerIsInjective, [Next]_vars,
         NEW p \in Process, MapInv(p)
  PROVE  MapInv(p)'
<1>0. Grows
  BY TypesStep
<1>1. ASSUME call'[p] = call[p], listing'[p] = listing[p],
             device_map'[p] = device_map[p], listed'[p] = listed[p]
      PROVE  MapInv(p)'
  BY <1>0, <1>1, GrowsKeepsMap
<1>2. ASSUME NEW q \in Process, NEW errno, Return(q, errno),
             device_map'[p] = device_map[p] \/ q = p, listed'[p] = listed[p]
      PROVE  MapInv(p)'
  <2>1. CASE q = p
    <3>1. call'[p] = Idle
      BY <1>2, <2>1 DEF Return, TypeInv, CallsInv
    <3> QED BY <3>1, IdleKeepsMap DEF Idle
  <2>2. CASE q # p
    BY <1>1, <1>2, <2>2 DEF Return, TypeInv, CallsInv, ListsInv
  <2> QED BY <2>1, <2>2
<1>3. ASSUME NEW q \in Process, NEW op, NEW name, NEW handle, Start(q, op, name, handle)
      PROVE  MapInv(p)'
  <2>1. /\ call' = [call EXCEPT ![q] = Calling(op, name, handle)]
        /\ device_map' = [device_map EXCEPT ![q] = NoMap]
        /\ listing' = listing /\ listed' = listed /\ call[q] = Idle
    BY <1>3 DEF Start
  <2>2. CASE q = p
    <3>1. listing[p] = NoList
      BY <2>1, <2>2 DEF TypeInv, ListsInv, Idle
    <3> QED BY <2>1, <2>2, <3>1 DEF MapInv, TypeInv, ListsInv
  <2>3. CASE q # p
    BY <1>1, <2>1, <2>3 DEF TypeInv, CallsInv, ListsInv
  <2> QED BY <2>2, <2>3
<1>4. CASE DriverCalls
  BY <1>3, <1>4, ControlPlaneAssumption DEF DriverCalls
<1>5. CASE DriverOpens \/ DriverRunEnds
  BY <1>1, <1>5 DEF DriverOpens, DriverRunEnds
<1>6. ASSUME NEW q \in Process, Finish(q) PROVE MapInv(p)'
  <2>1. PICK errno : Return(q, errno)
    BY <1>6 DEF Finish
  <2> QED BY <1>2, <1>6, <2>1 DEF Finish
<1>7. ASSUME NEW q \in Process, GetList(q) PROVE MapInv(p)'
  <2>1. CASE q = p
    BY <1>7, <2>1, GetListKeepsMap
  <2>2. CASE q # p
    BY <1>1, <1>7, <2>2 DEF GetList, TypeInv, ListsInv
  <2> QED BY <2>1, <2>2
<1>8. ASSUME NEW q \in Process, GetStatus(q) PROVE MapInv(p)'
  <2>1. CASE q = p
    BY <1>8, <2>1, GetStatusKeepsMap
  <2>2. CASE q # p
    <3>1. \/ Return(q, "ENOENT")
          \/ call'[p] = call[p] /\ listing'[p] = listing[p]
      BY <1>8, <2>2, GetStatusCases DEF TypeInv, ListsInv
    <3>2. device_map'[p] = device_map[p] /\ listed'[p] = listed[p]
      BY <1>8, <2>2, GetStatusCases DEF TypeInv, ListsInv
    <3> QED BY <1>1, <1>2, <3>1, <3>2
  <2> QED BY <2>1, <2>2
<1>9. ASSUME NEW q \in Process, MapDone(q) PROVE MapInv(p)'
  BY <1>2, <1>9 DEF MapDone
<1>10. ASSUME NEW q \in Process, Refused(q) PROVE MapInv(p)'
  <2>1. /\ Return(q, "ENOMEM") /\ listed' = listed
        /\ device_map' = [device_map EXCEPT ![q] = NoMap]
    BY <1>10 DEF Refused
  <2>2. device_map'[p] = device_map[p] \/ q = p
    BY <2>1 DEF TypeInv, ListsInv
  <2> QED BY <1>2, <2>1, <2>2
<1>11. ASSUME NEW q \in Process, Interrupted(q) PROVE MapInv(p)'
  BY <1>1, <1>11 DEF Interrupted, clients
<1>12. ASSUME NEW q \in Process, OtherCalls(q) PROVE MapInv(p)'
  <2>1. PICK op, name, handle : Start(q, op, name, handle)
    BY <1>12 DEF OtherCalls
  <2> QED BY <1>3, <2>1
<1>13. CASE UNCHANGED vars
  BY <1>1, <1>13 DEF vars, clients
<1> QED BY <1>4, <1>5, <1>6, <1>7, <1>8, <1>9, <1>10, <1>11, <1>12, <1>13
        DEF Next, Step, DriverMain, Works

\* Only MapDone ends a status call with success, and then nothing of the list
\* is left to be asked for.
LEMMA SuccessIsSnapshot ==
  ASSUME TypeInv, DriverCallInv, [Next]_vars, NEW p \in Process, MapInv(p),
         call[p].op = "status_map", call'[p] = Idle, ret'[p] = "0"
  PROVE  IsSnapshot(device_map'[p], listed[p])
<1>1. call[p] # Idle
  BY DEF Idle
<1>2. ASSUME NEW q \in Process, NEW op, NEW name, NEW handle, Start(q, op, name, handle)
      PROVE  call'[p] # Idle
  <2>1. call' = [call EXCEPT ![q] = Calling(op, name, handle)] /\ call[q] = Idle
    BY <1>2 DEF Start
  <2> QED BY <1>1, <2>1 DEF TypeInv, CallsInv
<1>3. ASSUME NEW q \in Process, NEW errno, Return(q, errno), errno # "0" \/ q # p
      PROVE  FALSE
  <2>1. q = p
    BY <1>1, <1>3 DEF Return, TypeInv, CallsInv
  <2>2. ret'[p] = errno
    BY <1>3, <2>1 DEF Return, TypeInv, CallsInv
  <2> QED BY <1>3, <2>1, <2>2
<1>4. ~ UNCHANGED call
  BY <1>1
<1>5. CASE MapDone(p)
  <2>1. listing[p] = {} /\ device_map' = device_map /\ listing[p] # NoList
    BY <1>5 DEF MapDone, NoList
  <2>2. /\ \A h \in DOMAIN listed[p] : IsEntry(device_map[p], h, listed[p][h])
        /\ \A key \in DOMAIN device_map[p] : device_map[p][key].handle \in DOMAIN listed[p]
    BY <2>1 DEF MapInv
  <2> QED BY <2>1, <2>2 DEF IsSnapshot, IsEntry
<1>6. ~ DriverCalls
  BY <1>2, ControlPlaneAssumption DEF DriverCalls
<1>7. ~ DriverOpens /\ ~ DriverRunEnds
  BY <1>4 DEF DriverOpens, DriverRunEnds
<1>8. ASSUME NEW q \in Process, Finish(q) PROVE FALSE
  <2>1. q # p
    BY <1>8 DEF Finish
  <2>2. PICK errno : Return(q, errno)
    BY <1>8 DEF Finish
  <2> QED BY <1>3, <2>1, <2>2
<1>9. ASSUME NEW q \in Process, GetList(q) \/ Interrupted(q) PROVE FALSE
  BY <1>4, <1>9 DEF GetList, Interrupted, clients
<1>10. ASSUME NEW q \in Process, GetStatus(q) PROVE FALSE
  BY <1>3, <1>4, <1>10, GetStatusCases
<1>11. ASSUME NEW q \in Process, Refused(q) PROVE FALSE
  BY <1>3, <1>11 DEF Refused
<1>12. ASSUME NEW q \in Process, MapDone(q), q # p PROVE FALSE
  BY <1>3, <1>12 DEF MapDone
<1>13. ASSUME NEW q \in Process, OtherCalls(q) PROVE FALSE
  <2>1. PICK op, name, handle : Start(q, op, name, handle)
    BY <1>13 DEF OtherCalls
  <2> QED BY <1>2, <2>1
<1>14. ~ UNCHANGED vars
  BY <1>4 DEF vars, clients
<1> QED BY <1>5, <1>6, <1>7, <1>8, <1>9, <1>10, <1>11, <1>12, <1>13, <1>14
        DEF Next, Step, DriverMain, Works

\* If no two names differ only in case, a status map that is returned with
\* success is the table at the moment its list was made, whatever other
\* programs did while it was put together.
THEOREM MapsAreSnapshots ==
  ASSUME LowerIsInjective
  PROVE  Spec => StatusMapIsSnapshot
<1> DEFINE Maps == \A p \in Process : MapInv(p)
<1>1. Init => Maps
  BY DEF Init, MapInv, Idle
<1>2. TypeInv /\ DriverCallInv /\ Maps /\ [Next]_vars => Maps'
  BY MapStep
<1>3. TypeInv /\ DriverCallInv /\ Maps /\ [Next]_vars =>
        [\A p \in Process :
           call[p].op = "status_map" /\ call'[p] = Idle /\ ret'[p] = "0" =>
             IsSnapshot(device_map'[p], listed[p])]_vars
  BY SuccessIsSnapshot
<1> HIDE DEF Maps
<1> QED BY TypesInvariant, <1>1, <1>2, <1>3, PTL DEF Spec, StatusMapIsSnapshot

-----------------------------------------------------------------------------
(***************************************************************************)
(* What the driver leaves behind                                           *)
(***************************************************************************)
\* Nobody else adds to what the driver owns, and it owns no more than what
\* it creates.
LEMMA SubmitsKeepsOwns ==
  ASSUME TypeInv, NEW p \in Process, Submits(p), NEW names, Owns(names),
         p = Driver /\ call[p].op = "create" => call[p].name \in names
  PROVE  Owns(names)'
<1>1. CASE Created(p, Submitted(p))
  <2> DEFINE new == [name |-> call[p].name, maker |-> p, asked |-> call[p].name]
  <2>1. devices' = [h \in DOMAIN devices \union {handles + 1} |->
                      IF h = handles + 1 THEN new ELSE devices[h]]
    BY <1>1 DEF Created, Submits
  <2>2. new.maker = p /\ new.name = call[p].name /\ call[p].op = "create"
    BY <1>1 DEF Created
  <2> HIDE DEF new
  <2>3. \A h \in DOMAIN devices' : devices'[h] = new \/ (h \in DOMAIN devices /\ devices'[h] = devices[h])
    BY <2>1
  <2> QED BY <2>2, <2>3 DEF Owns
<1>2. CASE Removed(p, Submitted(p))
  <2>1. PICK gone \in SUBSET DOMAIN devices :
          devices' = [h \in DOMAIN devices \ gone |-> devices[h]]
    BY <1>2 DEF Removed, Submits
  <2> QED BY <2>1 DEF Owns
<1>3. CASE Kept(p, Submitted(p))
  BY <1>3 DEF Kept, Submits, Owns
<1> QED BY <1>1, <1>2, <1>3 DEF Submits, TableStep

\* The same for the device that the driver is about to destroy by its id.
OwnsOnlyHandle ==
  \A h \in DOMAIN devices : devices[h].maker = Driver => h = handle_id[Driver]

LEMMA SubmitsKeepsHandle ==
  ASSUME TypeInv, NEW p \in Process, Submits(p), OwnsOnlyHandle,
         handle_id'[Driver] = handle_id[Driver], p = Driver => call[p].op # "create"
  PROVE  OwnsOnlyHandle'
<1>1. CASE Created(p, Submitted(p))
  <2> DEFINE new == [name |-> call[p].name, maker |-> p, asked |-> call[p].name]
  <2>1. devices' = [h \in DOMAIN devices \union {handles + 1} |->
                      IF h = handles + 1 THEN new ELSE devices[h]]
    BY <1>1 DEF Created, Submits
  <2>2. new.maker = p /\ p # Driver
    BY <1>1 DEF Created
  <2> HIDE DEF new
  <2> QED BY <2>1, <2>2 DEF OwnsOnlyHandle
<1>2. CASE Removed(p, Submitted(p))
  <2>1. PICK gone \in SUBSET DOMAIN devices :
          devices' = [h \in DOMAIN devices \ gone |-> devices[h]]
    BY <1>2 DEF Removed, Submits
  <2> QED BY <2>1 DEF OwnsOnlyHandle
<1>3. CASE Kept(p, Submitted(p))
  BY <1>3 DEF Kept, Submits, OwnsOnlyHandle
<1> QED BY <1>1, <1>2, <1>3 DEF Submits, TableStep

\* What the driver is calling, at each step.
LEMMA DriverCallAt ==
  ASSUME DriverCallInv, call[Driver] # Idle
  PROVE  /\ step \in 1 .. 12 /\ step \notin {10, 11}
         /\ call[Driver].op # "status_map"
         /\ step = 1 => call[Driver].op = "ping"
         /\ step \in {2, 4, 6, 9} => call[Driver].op = "create" /\ call[Driver].name = device_name
         /\ step = 3 => /\ call[Driver].op = "destroy_by_id"
                        /\ call[Driver].handle = handle_id[Driver]
         /\ step \in {5, 12} => /\ call[Driver].op = "destroy_by_name"
                                /\ call[Driver].name = device_name
         /\ step = 7 => call[Driver].op = "create" /\ call[Driver].name = device_name_2
         /\ step = 8 => call[Driver].op = "destroy_all"
<1>1. /\ step \in 1 .. 12 /\ Program[step].op \notin {"open", "run"}
      /\ call[Driver].op = Program[step].op /\ call[Driver].name = Program[step].name
      /\ call[Driver].handle = handle_id[Driver]
  BY ProgramElements DEF DriverCallInv, Calling
<1>2. call[Driver].op # "status_map"
  BY <1>1, ProgramTypes
<1> QED BY <1>1, <1>2, ProgramElements

\* A step that leaves the driver where it is.
LEMMA OthersKeepOwned ==
  ASSUME TypeInv, DriverInv, step' = step, handle_id'[Driver] = handle_id[Driver],
         ret'[Driver] = ret[Driver],
         call'[Driver] = call[Driver] \/ (call[Driver] = Idle /\ call'[Driver] # Idle),
         UNCHANGED table \/ \E p \in Process : Submits(p)
  PROVE  OwnedInv'
<1>1. ASSUME NEW names, Owns(names),
             \A p \in Process : Submits(p) /\ p = Driver /\ call[p].op = "create" => call[p].name \in names
      PROVE  Owns(names)'
  BY <1>1, SubmitsKeepsOwns DEF table, Owns
<1>2. /\ step \in {2, 4, 6, 9} => ~(call'[Driver] = Idle /\ call[Driver] # Idle)
      /\ \A p \in Process : Submits(p) => call[p] # Idle
  BY DEF Submits
<1>3. CASE step \in {2, 4, 6, 9}
  <2>1. CASE call'[Driver] = Idle
    <3>1. call[Driver] = Idle /\ Owns({})
      BY <1>2, <1>3, <2>1 DEF DriverInv, OwnedInv
    <3>2. Owns({})'
      BY <1>1, <1>2, <3>1
    <3> QED BY <1>3, <2>1, <3>2, ProgramElements DEF OwnedInv
  <2>2. CASE call'[Driver] # Idle
    <3>1. Owns({device_name})
      BY <1>3 DEF DriverInv, OwnedInv, Owns
    <3>2. Owns({device_name})'
      BY <1>1, <1>2, <1>3, <3>1, DriverCallAt DEF DriverInv
    <3> QED BY <1>3, <2>2, <3>2, ProgramElements DEF OwnedInv
  <2> QED BY <2>1, <2>2
<1>4. CASE step = 3
  <2>1. OwnsOnlyHandle /\ Owns({device_name})
    BY <1>4 DEF DriverInv, OwnedInv, OwnsOnlyHandle
  <2>2. \A p \in Process : Submits(p) /\ p = Driver => call[p].op # "create"
    BY <1>2, <1>4, DriverCallAt DEF DriverInv
  <2>3. Owns({device_name})'
    BY <1>1, <2>1, <2>2
  <2>4. OwnsOnlyHandle'
    <3>1. CASE UNCHANGED table
      BY <2>1, <3>1 DEF table, OwnsOnlyHandle
    <3>2. CASE \E p \in Process : Submits(p)
      BY <2>1, <2>2, <3>2, SubmitsKeepsHandle
    <3> QED BY <3>1, <3>2
  <2> QED BY <1>4, <2>3, <2>4, ProgramElements DEF OwnedInv, OwnsOnlyHandle
<1>5. CASE step \in {1, 5, 8, 10, 11, 12, Ended}
  <2>1. \A p \in Process : Submits(p) /\ p = Driver => call[p].op # "create"
    BY <1>2, <1>5, DriverCallAt, ProgramElements DEF DriverInv
  <2>2. \A names : Owns(names) => Owns(names)'
    BY <1>1, <2>1
  <2> QED BY <1>5, <2>2, ProgramElements DEF DriverInv, OwnedInv
<1>6. CASE step = 7
  <2>1. Owns({device_name, device_name_2})
    BY <1>6 DEF DriverInv, OwnedInv
  <2>2. Owns({device_name, device_name_2})'
    BY <1>1, <1>2, <1>6, <2>1, DriverCallAt DEF DriverInv
  <2> QED BY <1>6, <2>2, ProgramElements DEF OwnedInv
<1>7. CASE step = 0
  BY <1>7, ProgramElements DEF OwnedInv
<1>8. step \in 0 .. 13
  BY ProgramElements DEF TypeInv, CallsInv
<1> QED BY <1>3, <1>4, <1>5, <1>6, <1>7, <1>8, ProgramElements

\* The driver's own calls return: a create that succeeds finds nothing of
\* that name, so what it made is all the driver owns under it; a destroy that
\* succeeds, or finds nothing, leaves nothing under it.
LEMMA FinishKeepsOwned ==
  ASSUME TypeInv, DriverInv, Finish(Driver)
  PROVE  OwnedInv'
<1> DEFINE o == Submitted(Driver)
           c == call[Driver]
<1>0. Driver \in Process /\ device_name \in Name
  BY ControlPlaneAssumption
<1>1. /\ c # Idle /\ c.op # "status_map" /\ Return(Driver, o.errno)
      /\ devices' = o.devices /\ handles' = o.handles
      /\ handle_id' = IF KeepsHandle(Driver, o.errno)
                        THEN [handle_id EXCEPT ![Driver] = o.value] ELSE handle_id
  BY DEF Finish
<1>2. /\ step' = NextStep(o.errno) /\ call'[Driver] = Idle /\ ret'[Driver] = o.errno
  BY <1>0, <1>1 DEF Return, TypeInv, CallsInv
<1>3. TableStep(Driver, o)
  BY <1>0, <1>1, SubmittedIsTableStep
<1>4. Submits(Driver)
  BY <1>1, <1>3 DEF Submits
<1>5. step \in 1 .. 12 /\ step \notin {10, 11}
  BY <1>1, DriverCallAt DEF DriverInv
<1>6. CASE o.errno # "0" /\ step # 12
  <2>1. step' = 0
    BY <1>2, <1>5, <1>6, ProgramElements DEF NextStep, At, GaveUp
  <2> QED BY <2>1, ProgramElements DEF OwnedInv
<1>7. o.errno = "0" \/ step = 12 => step' = step + 1
  <2>1. CASE o.errno = "0"
    BY <1>2, <2>1, ProgramElements DEF NextStep
  <2>2. CASE step = 12
    BY <1>2, <2>2, ProgramElements DEF NextStep, At
  <2> QED BY <2>1, <2>2
<1>8. ASSUME c.op = "create", c.name = device_name, o.errno = "0", Owns({device_name})
      PROVE  OwnsOnlyHandle' /\ Owns({device_name})'
  <2>1. Created(Driver, o)
    BY <1>3, <1>8 DEF TableStep, Removed, Kept
  <2>2. handle_id'[Driver] = handles + 1
    BY <1>0, <1>1, <1>8, <2>1, ControlPlaneAssumption DEF Created, TypeInv, CallsInv, KeepsHandle
  <2>3. \A h \in DOMAIN devices : devices[h].maker # Driver
    BY <1>8, <2>1 DEF Created, Named, Owns
  <2>4. \A h \in DOMAIN devices' :
          h = handles + 1 \/ (h \in DOMAIN devices /\ devices'[h] = devices[h])
    BY <1>1, <2>1 DEF Created
  <2>5. OwnsOnlyHandle'
    BY <2>2, <2>3, <2>4 DEF OwnsOnlyHandle
  <2>6. Owns({device_name})'
    BY <1>0, <1>4, <1>8, SubmitsKeepsOwns
  <2> QED BY <2>5, <2>6
<1>9. ASSUME Removed(Driver, o),
             \/ c.op = "destroy_all"
             \/ c.op = "destroy_by_id" /\ c.handle = handle_id[Driver] /\ OwnsOnlyHandle
             \/ c.op = "destroy_by_name" /\ Owns({c.name})
      PROVE  Owns({})'
  <2>1. PICK gone \in SUBSET DOMAIN devices :
          /\ devices' = [h \in DOMAIN devices \ gone |-> devices[h]]
          /\ \/ c.op = "destroy_all" /\ gone = DOMAIN devices
             \/ c.op = "destroy_by_name" /\ gone = Named(c.name)
             \/ c.op = "destroy_by_id" /\ gone = {c.handle} \intersect DOMAIN devices
    BY <1>1, <1>9 DEF Removed
  <2>2. \A h \in DOMAIN devices \ gone : devices[h].maker # Driver
    BY <1>9, <2>1 DEF Named, Owns, OwnsOnlyHandle
  <2> QED BY <2>1, <2>2 DEF Owns
<1>10. CASE o.errno = "0" /\ step = 1
  <2>1. Kept(Driver, o)
    BY <1>1, <1>3, <1>10, DriverCallAt DEF TableStep, Created, Removed, DriverInv
  <2>2. Owns({})'
    BY <1>1, <1>10, <2>1 DEF Kept, Owns, DriverInv, OwnedInv
  <2> QED BY <1>2, <1>7, <1>10, <2>2, ProgramElements DEF OwnedInv
<1>11. CASE o.errno = "0" /\ step \in {2, 4, 6, 9}
  <2>1. c.op = "create" /\ c.name = device_name /\ Owns({device_name})
    BY <1>1, <1>11, DriverCallAt DEF DriverInv, OwnedInv, Owns
  <2>2. OwnsOnlyHandle' /\ Owns({device_name})'
    BY <1>8, <1>11, <2>1
  <2>3. Owns({device_name, device_name_2})'
    BY <2>2 DEF Owns
  <2>4. step' \in {3, 5, 7, 10}
    BY <1>7, <1>11
  <2> QED BY <2>2, <2>3, <2>4, ProgramElements DEF OwnedInv, OwnsOnlyHandle
<1>12. CASE o.errno = "0" /\ step \in {3, 5, 8}
  <2>1. Removed(Driver, o)
    BY <1>1, <1>3, <1>12, DriverCallAt DEF TableStep, Created, Kept, DriverInv
  <2>2. Owns({})'
    BY <1>1, <1>9, <1>12, <2>1, DriverCallAt DEF DriverInv, OwnedInv, OwnsOnlyHandle
  <2>3. step' \in {4, 6, 9}
    BY <1>7, <1>12
  <2> QED BY <1>2, <2>2, <2>3, ProgramElements DEF OwnedInv
<1>13. CASE o.errno = "0" /\ step = 7
  <2>1. /\ c.op = "create" /\ c.name = device_name_2
        /\ Owns({device_name, device_name_2})
    BY <1>1, <1>13, DriverCallAt DEF DriverInv, OwnedInv
  <2>2. Owns({device_name, device_name_2})'
    BY <1>0, <1>4, <2>1, SubmitsKeepsOwns
  <2> QED BY <1>7, <1>13, <2>2, ProgramElements DEF OwnedInv
<1>14. CASE step = 12
  <2>1. c.op = "destroy_by_name" /\ c.name = device_name /\ Owns({device_name})
    BY <1>1, <1>14, DriverCallAt DEF DriverInv, OwnedInv
  <2>2. Owns({})'
    <3>1. CASE Removed(Driver, o)
      BY <1>9, <2>1, <3>1
    <3>2. CASE Kept(Driver, o)
      BY <1>1, <2>1, <3>2 DEF Kept, Named, Owns
    <3> QED BY <1>3, <2>1, <3>1, <3>2 DEF TableStep, Created
  <2> QED BY <1>7, <1>14, <2>2, ProgramElements DEF OwnedInv
<1> QED BY <1>5, <1>6, <1>10, <1>11, <1>12, <1>13, <1>14

\* The driver is refused, or waits for its device.
LEMMA RefusedKeepsOwned ==
  ASSUME TypeInv, DriverInv, Refused(Driver)
  PROVE  OwnedInv'
<1>0. Driver \in Process
  BY ControlPlaneAssumption
<1>1. call[Driver] # Idle /\ step' = NextStep("ENOMEM") /\ ret'[Driver] = "ENOMEM"
  BY <1>0 DEF Refused, Return, TypeInv, CallsInv
<1>2. step \in 1 .. 12 /\ step \notin {10, 11}
  BY <1>1, DriverCallAt DEF DriverInv
<1>3. step' = 0 \/ step' = 13
  BY <1>1, <1>2, ProgramElements DEF NextStep, At, GaveUp
<1> QED BY <1>1, <1>3, ProgramElements DEF OwnedInv

LEMMA WaitsKeepsOwned ==
  ASSUME TypeInv, DriverInv, DriverOpens \/ DriverRunEnds
  PROVE  OwnedInv'
<1>1. step \in {10, 11} /\ UNCHANGED table
  <2>1. step \in 1 .. 12 /\ Program[step].op \in {"open", "run"}
    BY ProgramElements DEF DriverOpens, DriverRunEnds, At
  <2>2. step \in {1, 2, 3, 4, 5, 6, 7, 8, 9, 10, 11, 12}
    BY <2>1
  <2> QED BY <2>1, <2>2, ProgramElements DEF DriverOpens, DriverRunEnds
<1>2. step' \in {11, 12}
  <2>1. CASE DriverOpens
    <3>1. Program[step].op = "open" /\ step = 10
      BY <1>1, <2>1, ProgramElements DEF DriverOpens, At
    <3>2. PICK errno : step' = NextStep(errno)
      BY <2>1 DEF DriverOpens
    <3> QED BY <3>1, <3>2, ProgramElements DEF NextStep, At
  <2>2. CASE DriverRunEnds
    BY <2>2, ProgramElements DEF DriverRunEnds
  <2> QED BY <2>1, <2>2
<1>3. Owns({device_name})'
  BY <1>1 DEF table, Owns, DriverInv, OwnedInv
<1> QED BY <1>2, <1>3, ProgramElements DEF OwnedInv

\* A step is one of main's calls that returns or is refused, a step of its
\* handler, or one that leaves main where it is.
Quiet ==
  /\ step' = step /\ handle_id'[Driver] = handle_id[Driver] /\ ret'[Driver] = ret[Driver]
  /\ call'[Driver] = call[Driver] \/ (call[Driver] = Idle /\ call'[Driver] # Idle)

LEMMA StepCases ==
  ASSUME TypeInv, DriverCallInv, [Next]_vars
  PROVE  \/ Finish(Driver) \/ Refused(Driver) \/ DriverOpens \/ DriverRunEnds
         \/ /\ Quiet
            /\ \/ UNCHANGED table
               \/ \E p \in Process \ {Driver} : Submits(p)
               \/ Interrupted(Driver)
<1> DEFINE Others == \/ UNCHANGED table
                     \/ \E p \in Process \ {Driver} : Submits(p)
                     \/ Interrupted(Driver)
           Goal == \/ Finish(Driver) \/ Refused(Driver) \/ DriverOpens \/ DriverRunEnds
                   \/ Quiet /\ Others
<1>0. Driver \in Process
  BY ControlPlaneAssumption
<1>1. ASSUME UNCHANGED <<call, ret, handle_id, step>> PROVE Quiet
  BY <1>1 DEF Quiet
<1>2. ASSUME NEW p \in Process, p # Driver, NEW errno, Return(p, errno),
             handle_id'[Driver] = handle_id[Driver]
      PROVE  Quiet
  BY <1>0, <1>2 DEF Return, TypeInv, CallsInv, Quiet
<1>3. CASE DriverCalls
  <2>1. /\ step' = step /\ handle_id' = handle_id /\ ret' = ret /\ call[Driver] = Idle
        /\ call'[Driver] = Calling(Program[step].op, Program[step].name, handle_id[Driver])
        /\ step \in 1 .. 12 /\ UNCHANGED table
    BY <1>0, <1>3, ProgramElements DEF DriverCalls, Start, TypeInv, CallsInv
  <2>2. call'[Driver] # Idle
    BY <2>1, ProgramTypes DEF Calling, Idle, Ops
  <2> QED BY <2>1, <2>2 DEF Quiet
<1>4. ASSUME NEW p \in Process, Finish(p) PROVE Goal
  <2>1. CASE p = Driver
    BY <1>4, <2>1
  <2>2. CASE p # Driver
    <3>1. /\ \E errno : Return(p, errno)
          /\ handle_id'[Driver] = handle_id[Driver]
      BY <1>0, <1>4, <2>2 DEF Finish, TypeInv, CallsInv
    <3>2. Submits(p)
      BY <1>4, SubmittedIsTableStep DEF Finish, Submits
    <3> QED BY <1>2, <2>2, <3>1, <3>2
  <2> QED BY <2>1, <2>2
<1>5. ASSUME NEW p \in Process, GetList(p) PROVE Goal
  BY <1>1, <1>5 DEF GetList
<1>6. ASSUME NEW p \in Process, Interrupted(p) PROVE Goal
  <2>1. Quiet
    BY <1>1, <1>6 DEF Interrupted, clients
  <2>2. UNCHANGED table \/ Submits(p)
    BY <1>6, SubmittedIsTableStep DEF Interrupted, Submits
  <2> QED BY <1>6, <2>1, <2>2
<1>7. ASSUME NEW p \in Process, GetStatus(p) \/ MapDone(p) PROVE Goal
  <2>1. call[p].op = "status_map"
    BY <1>7 DEF GetStatus, MapDone
  <2>2. p # Driver
    BY <1>0, <2>1, DriverCallAt DEF Idle
  <2>3. /\ handle_id' = handle_id /\ UNCHANGED table
        /\ Return(p, "ENOENT") \/ Return(p, "0") \/ UNCHANGED <<call, ret, step>>
    BY <1>7, GetStatusCases DEF MapDone, table
  <2> QED BY <1>1, <1>2, <2>2, <2>3
<1>8. ASSUME NEW p \in Process, Refused(p) PROVE Goal
  BY <1>2, <1>8 DEF Refused
<1>9. ASSUME NEW p \in Process, OtherCalls(p) PROVE Goal
  <2>1. p # Driver
    BY <1>9 DEF OtherCalls
  <2>2. PICK op, name, handle : Start(p, op, name, handle)
    BY <1>9 DEF OtherCalls
  <2>3. Quiet /\ UNCHANGED table
    BY <1>0, <2>1, <2>2 DEF Start, TypeInv, CallsInv, Quiet
  <2> QED BY <2>3
<1>10. CASE UNCHANGED vars
  BY <1>1, <1>10 DEF vars, clients
<1> QED BY <1>3, <1>4, <1>5, <1>6, <1>7, <1>8, <1>9, <1>10
        DEF Next, Step, DriverMain, Works

LEMMA OwnedStep ==
  ASSUME TypeInv, DriverInv, [Next]_vars
  PROVE  OwnedInv'
<1>1. UNCHANGED table \/ \E p \in Process : Submits(p)
  BY TableChange DEF DriverInv
<1>2. CASE Quiet
  BY <1>1, <1>2, OthersKeepOwned DEF Quiet
<1> QED BY <1>2, StepCases, FinishKeepsOwned, RefusedKeepsOwned, WaitsKeepsOwned DEF DriverInv

\* When main ends past its last create, and the deferred destroy was not
\* refused, no device it made is left, whatever other programs did in between
\* and however often its calls were interrupted.
THEOREM NothingIsLeft == Spec => []DriverLeavesNothing
<1>1. Init => OwnedInv
  BY ProgramElements DEF Init, OwnedInv, Owns, NoDevices
<1>2. TypeInv /\ DriverCallInv /\ OwnedInv /\ [Next]_vars => OwnedInv'
  BY OwnedStep DEF DriverInv
<1>3. OwnedInv => DriverLeavesNothing
  BY DEF OwnedInv, Owns, DriverLeavesNothing
<1> QED BY TypesInvariant, <1>1, <1>2, <1>3, PTL DEF Spec

-----------------------------------------------------------------------------
(***************************************************************************)
(* Which devices main destroys, and which it knows of                      *)
(***************************************************************************)
\* What an ioctl leaves in the table: devices that were there, and what it
\* creates, with a new handle.
LEMMA SubmitsLeaves ==
  ASSUME TypeInv, NEW p \in Process, Submits(p)
  PROVE  /\ handles <= handles'
         /\ \A h \in DOMAIN devices' :
              \/ h \in DOMAIN devices /\ devices'[h] = devices[h]
              \/ /\ Created(p, Submitted(p)) /\ handles' = handles + 1 /\ h = handles + 1
                 /\ devices'[h].maker = p /\ devices'[h].name = call[p].name
<1>0. handles \in Nat
  BY ControlDeviceAssumption DEF TypeInv, DevicesInv
<1>1. CASE Created(p, Submitted(p))
  <2> DEFINE new == [name |-> call[p].name, maker |-> p, asked |-> call[p].name]
  <2>1. /\ devices' = [h \in DOMAIN devices \union {handles + 1} |->
                         IF h = handles + 1 THEN new ELSE devices[h]]
        /\ handles' = handles + 1
    BY <1>1 DEF Created, Submits
  <2>2. new.maker = p /\ new.name = call[p].name
    OBVIOUS
  <2> HIDE DEF new
  <2> QED BY <1>0, <1>1, <2>1, <2>2
<1>2. CASE Removed(p, Submitted(p))
  <2>1. PICK gone \in SUBSET DOMAIN devices :
          devices' = [h \in DOMAIN devices \ gone |-> devices[h]] /\ handles' = handles
    BY <1>2 DEF Removed, Submits
  <2> QED BY <1>0, <2>1
<1>3. CASE Kept(p, Submitted(p))
  BY <1>0, <1>3 DEF Kept, Submits
<1> QED BY <1>1, <1>2, <1>3 DEF Submits, TableStep

\* The handle id main holds: as long as there is a device with it, that is
\* main's, and when main destroys, it is the oldest of its name.
HandleInv ==
  /\ handle_id[Driver] <= handles
  /\ handle_id[Driver] \in DOMAIN devices =>
       /\ devices[handle_id[Driver]].maker = Driver
       /\ devices[handle_id[Driver]].name = device_name
  /\ step \in {3, 5, 10, 11, 12} =>
       /\ handle_id[Driver] # 0
       /\ \A h \in DOMAIN devices : devices[h].name = device_name => handle_id[Driver] <= h

LEMMA HandleKept ==
  ASSUME TypeInv, HandleInv, handle_id'[Driver] = handle_id[Driver],
         UNCHANGED table \/ \E p \in Process : Submits(p),
         step' = step \/ step' \notin {3, 5, 10, 11, 12} \/ step \in {10, 11}
  PROVE  HandleInv'
<1> DEFINE id == handle_id[Driver]
<1>0. Driver \in Process /\ handles \in Nat /\ id \in Nat /\ DOMAIN devices \subseteq 1 .. handles
  BY ControlDeviceAssumption, ControlPlaneAssumption DEF TypeInv, DevicesInv, CallsInv
<1>1. /\ handles <= handles'
      /\ \A h \in DOMAIN devices' :
           h = handles + 1 \/ (h \in DOMAIN devices /\ devices'[h] = devices[h])
  <2>1. CASE UNCHANGED table
    BY <1>0, <2>1 DEF table
  <2>2. CASE \E p \in Process : Submits(p)
    BY <2>2, SubmitsLeaves
  <2> QED BY <2>1, <2>2
<1>2. handles' \in Nat
  <2>1. CASE UNCHANGED table
    BY <1>0, <2>1 DEF table
  <2>2. CASE \E p \in Process : Submits(p)
    BY <2>2, TableStepKeepsInv, ControlDeviceAssumption DEF Submits, DevicesInv
  <2> QED BY <2>1, <2>2
<1> QED BY <1>0, <1>1, <1>2 DEF HandleInv

LEMMA HandleStep ==
  ASSUME TypeInv, DriverCallInv, HandleInv, [Next]_vars
  PROVE  HandleInv'
<1>0. Driver \in Process /\ handles \in Nat /\ DOMAIN devices \subseteq 1 .. handles
  BY ControlDeviceAssumption, ControlPlaneAssumption DEF TypeInv, DevicesInv
<1>1. UNCHANGED table \/ \E p \in Process : Submits(p)
  BY TableChange
<1>2. CASE Quiet
  BY <1>1, <1>2, HandleKept DEF Quiet
<1>3. CASE DriverOpens \/ DriverRunEnds
  <2>1. handle_id'[Driver] = handle_id[Driver]
    BY <1>3 DEF DriverOpens, DriverRunEnds
  <2>2. step \in {10, 11}
    <3>1. step \in 1 .. 12 /\ Program[step].op \in {"open", "run"}
      BY <1>3, ProgramElements DEF DriverOpens, DriverRunEnds, At
    <3>2. step \in {1, 2, 3, 4, 5, 6, 7, 8, 9, 10, 11, 12}
      BY <3>1
    <3> QED BY <3>1, <3>2, ProgramElements
  <2> QED BY <1>1, <2>1, <2>2, HandleKept
<1>4. CASE Refused(Driver)
  <2>1. call[Driver] # Idle /\ step' = NextStep("ENOMEM") /\ handle_id' = handle_id
    BY <1>0, <1>4 DEF Refused, Return
  <2>2. step \in 1 .. 12 /\ step \notin {10, 11}
    BY <2>1, DriverCallAt
  <2>3. step' = 0 \/ step' = 13
    BY <2>1, <2>2, ProgramElements DEF NextStep, At, GaveUp
  <2> QED BY <1>1, <2>1, <2>3, HandleKept
<1>5. CASE Finish(Driver)
  <2> DEFINE o == Submitted(Driver)
  <2>1. /\ call[Driver] # Idle /\ step' = NextStep(o.errno)
        /\ devices' = o.devices /\ handles' = o.handles
        /\ handle_id' = IF KeepsHandle(Driver, o.errno)
                          THEN [handle_id EXCEPT ![Driver] = o.value] ELSE handle_id
    BY <1>0, <1>5 DEF Finish, Return
  <2>2. step \in 1 .. 12 /\ step \notin {10, 11}
    BY <2>1, DriverCallAt
  <2>3. TableStep(Driver, o)
    BY <1>0, <1>5, SubmittedIsTableStep DEF Finish
  <2>4. CASE KeepsHandle(Driver, o.errno)
    <3>1. Created(Driver, o) /\ call[Driver].name # device_name_2
      BY <2>3, <2>4 DEF KeepsHandle, TableStep, Removed, Kept
    <3>2. call[Driver].name = device_name
      <4>1. call[Driver].op = "create"
        BY <3>1 DEF Created
      <4> QED BY <2>1, <2>2, <3>1, <4>1, DriverCallAt
    <3> DEFINE new == [name |-> device_name, maker |-> Driver, asked |-> device_name]
    <3>3. /\ devices' = [h \in DOMAIN devices \union {handles + 1} |->
                           IF h = handles + 1 THEN new ELSE devices[h]]
          /\ handles' = handles + 1 /\ o.value = handles + 1
      BY <2>1, <3>1, <3>2 DEF Created
    <3>4. handle_id'[Driver] = handles + 1
      BY <1>0, <2>1, <2>4, <3>3 DEF TypeInv, CallsInv
    <3>5. \A h \in DOMAIN devices : devices[h].name # device_name
      BY <3>1, <3>2 DEF Created, Named
    <3>6. new.name = device_name /\ new.maker = Driver
      OBVIOUS
    <3> HIDE DEF new
    <3>7. \A h \in DOMAIN devices' : devices'[h].name = device_name => h = handles + 1
      BY <3>3, <3>5
    <3> QED BY <1>0, <3>3, <3>4, <3>6, <3>7 DEF HandleInv
  <2>5. CASE ~KeepsHandle(Driver, o.errno)
    <3>1. step' \notin {3, 5, 10, 11, 12}
      <4>1. CASE o.errno = "0"
        <5>1. step \notin {2, 4, 6, 9}
          BY <2>1, <2>5, <4>1, DriverCallAt, ControlPlaneAssumption DEF KeepsHandle
        <5> QED BY <2>1, <2>2, <4>1, <5>1, ProgramElements DEF NextStep
      <4>2. CASE o.errno # "0"
        BY <2>1, <2>2, <4>2, ProgramElements DEF NextStep, At, GaveUp
      <4> QED BY <4>1, <4>2
    <3> QED BY <1>1, <2>1, <2>5, <3>1, HandleKept
  <2> QED BY <2>4, <2>5
<1> QED BY <1>2, <1>3, <1>4, <1>5, StepCases

\* What a destroy of main takes.
LEMMA DestroyTakes ==
  ASSUME TypeInv, DriverCallInv, HandleInv, Submits(Driver),
         call[Driver].op \in {"destroy_by_id", "destroy_by_name"},
         NEW h \in DOMAIN devices \ DOMAIN devices'
  PROVE  \/ devices[h].maker = Driver
         \/ /\ handle_id[Driver] # 0 /\ handle_id[Driver] \notin DOMAIN devices
            /\ h > handle_id[Driver]
<1> DEFINE id == handle_id[Driver]
<1>0. /\ Driver \in Process /\ id \in Nat /\ h \in Nat
      /\ \A f, g \in DOMAIN devices : devices[f].name = devices[g].name => f = g
  BY ControlDeviceAssumption, ControlPlaneAssumption DEF TypeInv, DevicesInv, CallsInv
<1>1. /\ step = 3 /\ call[Driver].op = "destroy_by_id" /\ call[Driver].handle = id
      \/ /\ step \in {5, 12} /\ call[Driver].op = "destroy_by_name"
         /\ call[Driver].name = device_name
  BY DriverCallAt DEF Submits
<1>2. Removed(Driver, Submitted(Driver))
  BY DEF Submits, TableStep, Created, Kept
<1>3. PICK gone \in SUBSET DOMAIN devices :
        /\ devices' = [g \in DOMAIN devices \ gone |-> devices[g]]
        /\ \/ call[Driver].op = "destroy_by_name" /\ gone = Named(call[Driver].name)
           \/ call[Driver].op = "destroy_by_id" /\ gone = {call[Driver].handle} \intersect DOMAIN devices
  BY <1>2 DEF Removed, Submits
<1>4. h \in gone
  BY <1>3
<1>5. CASE call[Driver].op = "destroy_by_id"
  BY <1>1, <1>3, <1>4, <1>5 DEF HandleInv
<1>6. CASE call[Driver].op = "destroy_by_name"
  <2>1. /\ devices[h].name = device_name /\ id # 0 /\ id <= h
    BY <1>1, <1>3, <1>4, <1>6 DEF Named, HandleInv
  <2>2. CASE h = id
    BY <2>2 DEF HandleInv
  <2>3. CASE h # id
    <3>1. id \notin DOMAIN devices
      BY <1>0, <2>1, <2>3 DEF HandleInv
    <3> QED BY <1>0, <2>1, <2>3, <3>1
  <2> QED BY <2>2, <2>3
<1> QED BY <1>5, <1>6

\* Main never destroys the device of another program instead of its own: what
\* its destroys take was made by main, or has the name of a device of main
\* that somebody has destroyed before, and is newer.
THEOREM OthersAreSpared == Spec => SparesDevicesOfOthers
<1> DEFINE Spared(h) == \/ devices[h].maker = Driver
                        \/ /\ handle_id[Driver] # 0 /\ handle_id[Driver] \notin DOMAIN devices
                           /\ h > handle_id[Driver]
<1>1. Init => HandleInv
  BY ControlPlaneAssumption DEF Init, HandleInv, NoDevices
<1>2. TypeInv /\ DriverCallInv /\ HandleInv /\ [Next]_vars => HandleInv'
  BY HandleStep
<1>3. ASSUME TypeInv, DriverCallInv, HandleInv, [Next]_vars, MainDestroys,
             NEW h \in DOMAIN devices \ DOMAIN devices'
      PROVE  Spared(h)
  <2>1. /\ call[Driver].op \in {"destroy_by_id", "destroy_by_name"}
        /\ call[Driver] # Idle /\ Driver \in Process
    BY <1>3, ControlPlaneAssumption DEF MainDestroys, Idle
  <2>2. PICK p \in Process : Submits(p)
    BY <1>3, TableChange DEF table
  <2>3. call[p].op \in Destroys
    BY <1>3, <2>2 DEF Submits, TableStep, Created, Removed, Kept, Destroys
  <2>4. CASE p = Driver
    BY <1>3, <2>1, <2>2, <2>4, DestroyTakes
  <2>5. CASE p # Driver
    <3>1. call'[Driver] = Idle
      BY <1>3, <2>3, <2>5 DEF MainDestroys
    <3>2. ~Quiet /\ ~UNCHANGED table
      BY <1>3, <2>1, <3>1 DEF Quiet, table
    <3>3. Finish(Driver)
      BY <1>3, <3>2, StepCases DEF Refused, DriverOpens, DriverRunEnds
    <3>4. Submits(Driver)
      BY <1>3, <2>1, <3>3, SubmittedIsTableStep DEF Finish, Submits
    <3> QED BY <1>3, <2>1, <3>4, DestroyTakes
  <2> QED BY <2>4, <2>5
<1>4. TypeInv /\ DriverCallInv /\ HandleInv /\ [Next]_vars =>
        [MainDestroys => \A h \in DOMAIN devices \ DOMAIN devices' : Spared(h)]_vars
  BY <1>3
<1> QED BY TypesInvariant, <1>1, <1>2, <1>4, PTL DEF Spec, SparesDevicesOfOthers

\* Without a signal, the devices of that name main has made are none while it
\* is about to create one, and afterwards the one whose handle id it holds.
KnowsInv ==
  interrupts = 0 =>
    /\ step \in {2, 4, 6, 9} => Owns({})
    /\ step \in {0, 3, 5, 7, 8, 10, 11, 12} =>
         \A h \in DOMAIN devices :
           devices[h].maker = Driver /\ devices[h].name = device_name => h = handle_id[Driver]

LEMMA SignalsAreCounted ==
  ASSUME TypeInv, [Next]_vars
  PROVE  interrupts' = interrupts \/ (interrupts' # 0 /\ \E p \in Process : Interrupted(p))
<1>1. interrupts \in Nat
  BY ControlPlaneAssumption DEF TypeInv, CallsInv
<1>2. ASSUME NEW p \in Process, Interrupted(p) PROVE interrupts' # 0
  BY <1>1, <1>2 DEF Interrupted
<1>3. ASSUME NEW p \in Process, Works(p) \/ Refused(p) \/ OtherCalls(p) PROVE UNCHANGED interrupts
  BY <1>3 DEF Works, Finish, GetList, GetStatus, MapDone, Refused, OtherCalls, Start
<1>4. CASE DriverMain
  BY <1>4 DEF DriverMain, DriverCalls, DriverOpens, DriverRunEnds, Start
<1>5. CASE UNCHANGED vars
  BY <1>5 DEF vars
<1> QED BY <1>2, <1>3, <1>4, <1>5 DEF Next, Step

LEMMA KnowsStep ==
  ASSUME TypeInv, DriverInv, KnowsInv, [Next]_vars
  PROVE  KnowsInv'
<1> SUFFICES ASSUME interrupts' = 0 PROVE KnowsInv'
  BY DEF KnowsInv
<1> DEFINE Known == \A h \in DOMAIN devices :
                      devices[h].maker = Driver /\ devices[h].name = device_name =>
                        h = handle_id[Driver]
<1>0. interrupts = 0 /\ DriverCallInv /\ Driver \in Process
  BY SignalsAreCounted, ControlPlaneAssumption DEF DriverInv
<1>1. /\ step \in {2, 4, 6, 9} => Owns({})
      /\ step \in {0, 3, 5, 7, 8, 10, 11, 12} => Known
  BY <1>0 DEF KnowsInv
<1>2. ~Interrupted(Driver)
  BY <1>0 DEF Interrupted
<1>3. CASE Quiet
  <2>1. UNCHANGED table \/ \E p \in Process \ {Driver} : Submits(p)
    <3>1. CASE Finish(Driver) \/ Refused(Driver)
      <4>1. call[Driver] # Idle /\ call'[Driver] = Idle
        BY <1>0, <3>1 DEF Finish, Refused, Return, TypeInv, CallsInv
      <4> QED BY <1>3, <4>1 DEF Quiet
    <3>2. CASE DriverOpens \/ DriverRunEnds
      BY <3>2 DEF DriverOpens, DriverRunEnds
    <3> QED BY <1>0, <1>2, <3>1, <3>2, StepCases
  <2>2. \A h \in DOMAIN devices' : devices'[h].maker = Driver =>
          h \in DOMAIN devices /\ devices'[h] = devices[h]
    <3>1. CASE UNCHANGED table
      BY <3>1 DEF table
    <3>2. CASE \E p \in Process \ {Driver} : Submits(p)
      BY <3>2, SubmitsLeaves
    <3> QED BY <2>1, <3>1, <3>2
  <2>3. Owns({}) => Owns({})'
    BY <2>2 DEF Owns
  <2>4. Known => Known'
    BY <1>3, <2>2 DEF Quiet
  <2> HIDE DEF Known
  <2>5. /\ step' \in {2, 4, 6, 9} => Owns({})'
        /\ step' \in {0, 3, 5, 7, 8, 10, 11, 12} => Known'
    BY <1>1, <1>3, <2>3, <2>4 DEF Quiet
  <2> QED BY <2>5 DEF KnowsInv, Known
<1>4. CASE DriverOpens \/ DriverRunEnds
  <2>1. UNCHANGED <<devices, handle_id>> /\ step \in {10, 11} /\ step' \in {11, 12}
    <3>1. step \in 1 .. 12 /\ Program[step].op \in {"open", "run"}
      BY <1>4, ProgramElements DEF DriverOpens, DriverRunEnds, At
    <3>2. step \in {1, 2, 3, 4, 5, 6, 7, 8, 9, 10, 11, 12}
      BY <3>1
    <3>3. step \in {10, 11}
      BY <3>1, <3>2, ProgramElements
    <3>4. CASE DriverOpens
      <4>1. Program[step].op = "open" /\ step = 10
        BY <3>3, <3>4, ProgramElements DEF DriverOpens, At
      <4>2. PICK errno : step' = NextStep(errno)
        BY <3>4 DEF DriverOpens
      <4> QED BY <3>4, <4>1, <4>2, ProgramElements DEF NextStep, At, DriverOpens, table
    <3>5. CASE DriverRunEnds
      BY <3>3, <3>5, ProgramElements DEF DriverRunEnds, table
    <3> QED BY <1>4, <3>4, <3>5
  <2> QED BY <1>1, <2>1 DEF KnowsInv
<1>5. CASE Refused(Driver)
  <2>1. /\ call[Driver] # Idle /\ step' = NextStep("ENOMEM") /\ handle_id' = handle_id
        /\ devices' = devices
    BY <1>0, <1>5 DEF Refused, Return, table
  <2>2. step \in 1 .. 12 /\ step \notin {10, 11}
    BY <1>0, <2>1, DriverCallAt
  <2>3. step' = 0 \/ step' = 13
    BY <2>1, <2>2, ProgramElements DEF NextStep, At, GaveUp
  <2>4. Known
    BY <1>1, <2>2 DEF DriverInv, OwnedInv, Owns
  <2> QED BY <2>1, <2>3, <2>4 DEF KnowsInv
<1>6. CASE Finish(Driver)
  <2> DEFINE o == Submitted(Driver)
  <2>1. /\ call[Driver] # Idle /\ step' = NextStep(o.errno) /\ call'[Driver] = Idle
        /\ devices' = o.devices /\ handles' = o.handles
        /\ handle_id' = IF KeepsHandle(Driver, o.errno)
                          THEN [handle_id EXCEPT ![Driver] = o.value] ELSE handle_id
    BY <1>0, <1>6 DEF Finish, Return, TypeInv, CallsInv
  <2>2. step \in 1 .. 12 /\ step \notin {10, 11}
    BY <1>0, <2>1, DriverCallAt
  <2>3. TableStep(Driver, o) /\ Submits(Driver)
    BY <1>0, <1>6, SubmittedIsTableStep DEF Finish, Submits
  <2>4. Known
    BY <1>1, <2>2 DEF DriverInv, OwnedInv, Owns
  <2>5. step' \in {2, 4, 6, 9} => Owns({})'
    <3>1. OwnedInv'
      BY OwnedStep
    <3> QED BY <2>1, <3>1 DEF OwnedInv
  <2>6. step' \in {0, 3, 5, 7, 8, 10, 11, 12} => Known'
    <3>1. CASE Created(Driver, o) /\ call[Driver].name = device_name
      <4>1. /\ \A h \in DOMAIN devices : devices[h].name # device_name
            /\ o.errno = "0" /\ o.value = handles + 1 /\ call[Driver].op = "create"
        BY <3>1 DEF Created, Named
      <4>2. handle_id'[Driver] = handles + 1
        BY <1>0, <2>1, <3>1, <4>1, ControlPlaneAssumption DEF KeepsHandle, TypeInv, CallsInv
      <4>3. \A h \in DOMAIN devices' :
              h = handles + 1 \/ (h \in DOMAIN devices /\ devices'[h] = devices[h])
        BY <1>0, <2>3, SubmitsLeaves
      <4> QED BY <4>1, <4>2, <4>3
    <3>2. CASE ~(Created(Driver, o) /\ call[Driver].name = device_name)
      <4>1. \A h \in DOMAIN devices' :
              \/ h \in DOMAIN devices /\ devices'[h] = devices[h]
              \/ devices'[h].name # device_name
        BY <1>0, <2>3, <3>2, SubmitsLeaves
      <4>2. handle_id' = handle_id
        <5>1. ~KeepsHandle(Driver, o.errno)
          <6>1. SUFFICES ASSUME KeepsHandle(Driver, o.errno) PROVE FALSE
            OBVIOUS
          <6>2. Created(Driver, o) /\ call[Driver].name # device_name_2
            BY <2>3, <6>1 DEF KeepsHandle, TableStep, Removed, Kept
          <6>3. call[Driver].op = "create"
            BY <6>2 DEF Created
          <6> QED BY <1>0, <2>1, <2>2, <3>2, <6>2, <6>3, DriverCallAt
        <5> QED BY <2>1, <5>1
      <4> QED BY <2>4, <4>1, <4>2
    <3> QED BY <3>1, <3>2
  <2> QED BY <2>5, <2>6 DEF KnowsInv
<1> QED BY <1>0, <1>3, <1>4, <1>5, <1>6, StepCases

\* As far as no signal is involved, main knows, when it gives up, the handle
\* id of every device of that name it has made: no device is made behind a
\* create that fails, and no handle id is lost on the way.
THEOREM DevicesAreKnown == Spec => []UninterruptedKnowsItsDevices
<1>1. Init => OwnedInv /\ KnowsInv
  BY ProgramElements DEF Init, OwnedInv, Owns, NoDevices, KnowsInv
<1>2. TypeInv /\ DriverCallInv /\ OwnedInv /\ KnowsInv /\ [Next]_vars => (OwnedInv /\ KnowsInv)'
  BY OwnedStep, KnowsStep DEF DriverInv
<1>3. KnowsInv => UninterruptedKnowsItsDevices
  BY DEF KnowsInv, UninterruptedKnowsItsDevices, KnowsItsDevices, GaveUp
<1> QED BY TypesInvariant, <1>1, <1>2, <1>3, PTL DEF Spec
=============================================================================
