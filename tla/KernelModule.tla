---------------------------- MODULE KernelModule ----------------------------
(***************************************************************************)
(* The zosbd2 kernel module, as the client relies on it.  It is external:  *)
(* its actions are what the client's code and comments say of it.  It      *)
(* queues the bios of the block layer, and talks to the one userspace      *)
(* process that serves the device through a single ioctl.  A call of that  *)
(* ioctl brings in the answer to the last request, blocks, and goes back   *)
(* with the next request in the caller's buffer.                           *)
(***************************************************************************)
EXTENDS Integers, FiniteSets

CONSTANTS
  Bio,           \* the bios the block layer may issue
  Zero,          \* the contents of a device nobody wrote to
  Shapes,        \* kind and segments of the bios it may issue
  NoBio,         \* the Operation_id of a message about no bio
  MaxSignals,    \* bound: how many times a signal interrupts the ioctl
  MaxRefusals    \* bound: how many times the kernel fails in another way

Kinds == {"read", "write", "discard"}

\* Segments follow each other ("adjacent"), do not ("gaps"), or there are none.
Segments == {"adjacent", "gaps", "none"}

ASSUME ShapesAssumption == Shapes \subseteq Kinds \X Segments
ASSUME NoBioAssumption == NoBio \notin Bio
ASSUME BoundAssumption == MaxSignals \in Nat /\ MaxRefusals \in Nat

VARIABLES
  device,         \* "up", "closing" (destruction was requested) or "gone"
  bio,            \* the kernel's record of each bio
  after,          \* history: the bios that were done when it was issued
  ioctl,          \* where the ioctl stands, and the errno it returned
  kernelbuffer,   \* the message in the buffer shared with userspace
  signals, refusals

kvars == <<device, bio, after, ioctl, kernelbuffer, signals, refusals>>

Values == Bio \union {Zero}

RequestOp  == [read |-> "KERNEL_READ_REQUEST", write |-> "KERNEL_WRITE_REQUEST",
               discard |-> "KERNEL_DISCARD_REQUEST"]
ResponseOp == [read |-> "READ_RESPONSE", write |-> "WRITE_RESPONSE",
               discard |-> "DISCARD_RESPONSE"]

UserOps == {"NO_RESPONSE_BLOCK_FOR_REQUEST"} \union {ResponseOp[k] : k \in Kinds}
KernelOps == {"KERNEL_BLOCK_FOR_REQUEST", "KERNEL_USERSPACE_EXIT"}
               \union {RequestOp[k] : k \in Kinds}

Message == [Operation : UserOps \union KernelOps \union {"UNKNOWN"},
            Operation_id : Bio \union {NoBio}, Error : BOOLEAN,
            segments : Segments, value : Values]

\* A message that is not about a bio.
Notice(op) == [Operation |-> op, Operation_id |-> NoBio, Error |-> FALSE,
               segments |-> "none", value |-> Zero]

Request(b) == [Operation |-> RequestOp[bio[b].kind], Operation_id |-> b,
               Error |-> FALSE, segments |-> bio[b].segments,
               value |-> IF bio[b].kind = "write" THEN b ELSE Zero]

Entering == [state |-> "entering", errno |-> "0"]
Blocked  == [state |-> "blocked",  errno |-> "0"]
NotInIoctl == [state |-> "none", errno |-> "0"]
Returned(errno) == [state |-> "returned", errno |-> errno]

Unfinished(b) == bio[b].status \in {"queued", "taken"}
Finished == {b \in Bio : bio[b].status = "done"}

KernelInit ==
  /\ device = "up"
  /\ bio = [b \in Bio |-> [status |-> "new", kind |-> "read", segments |-> "none",
                           result |-> "none", data |-> Zero]]
  /\ after = [b \in Bio |-> {}]
  /\ ioctl = NotInIoctl
  /\ kernelbuffer = Notice("NO_RESPONSE_BLOCK_FOR_REQUEST")
  /\ signals = 0 /\ refusals = 0

-----------------------------------------------------------------------------
(***************************************************************************)
(* The block layer, and whoever creates and destroys devices.              *)
(***************************************************************************)
IssueBio(b) ==
  /\ device = "up" /\ bio[b].status = "new"
  /\ \E shape \in Shapes :
       bio' = [bio EXCEPT ![b].status = "queued", ![b].kind = shape[1],
                          ![b].segments = shape[2]]
  /\ after' = [after EXCEPT ![b] = Finished]
  /\ UNCHANGED <<device, ioctl, kernelbuffer, signals, refusals>>

\* Userspace has Device_timeout_seconds to answer.
TimeoutBio(b) ==
  /\ Unfinished(b)
  /\ bio' = [bio EXCEPT ![b].status = "done", ![b].result = "error"]
  /\ UNCHANGED <<device, after, ioctl, kernelbuffer, signals, refusals>>

RequestDestroy ==
  /\ device = "up" /\ device' = "closing"
  /\ UNCHANGED <<bio, after, ioctl, kernelbuffer, signals, refusals>>

\* The kernel does not wait for userspace for ever: the exit request it
\* queued is cancelled, and with it every bio.
Destroy ==
  /\ device = "closing" /\ device' = "gone"
  /\ bio' = [b \in Bio |-> IF Unfinished(b)
                             THEN [bio[b] EXCEPT !.status = "done", !.result = "error"]
                             ELSE bio[b]]
  /\ UNCHANGED <<after, ioctl, kernelbuffer, signals, refusals>>

-----------------------------------------------------------------------------
(***************************************************************************)
(* The ioctl.                                                              *)
(***************************************************************************)
\* The answer in the buffer completes its bio.  The kernel does not check
\* that the answer is of the kind it asked for; it ignores the answer to a
\* bio that is not waiting for one.
Complete(msg) ==
  LET b == msg.Operation_id
  IN  IF b \in Bio /\ bio[b].status = "taken"
        THEN bio' = [bio EXCEPT ![b].status = "done",
                                ![b].result = IF msg.Error THEN "error" ELSE "ok",
                                ![b].data = IF msg.Error THEN Zero ELSE msg.value]
        ELSE bio' = bio

Accept ==
  /\ ioctl = Entering
  /\ \/ /\ device = "gone"
        /\ ioctl' = Returned("ENOENT") /\ UNCHANGED bio
     \/ /\ device # "gone" /\ kernelbuffer.Operation \notin UserOps
        /\ ioctl' = Returned("EINVAL") /\ UNCHANGED bio
     \/ /\ device # "gone" /\ kernelbuffer.Operation \in UserOps
        /\ ioctl' = Blocked /\ Complete(kernelbuffer)
  /\ UNCHANGED <<device, after, kernelbuffer, signals, refusals>>

\* The call fails before the kernel looks at the answer.
Refuse ==
  /\ ioctl = Entering /\ refusals < MaxRefusals
  /\ refusals' = refusals + 1
  /\ ioctl' = Returned("EINVAL")
  /\ UNCHANGED <<device, bio, after, kernelbuffer, signals>>

Deliver(b) ==
  /\ ioctl = Blocked /\ device # "gone" /\ bio[b].status = "queued"
  /\ bio' = [bio EXCEPT ![b].status = "taken"]
  /\ kernelbuffer' = Request(b)
  /\ ioctl' = Returned("0")
  /\ UNCHANGED <<device, after, signals, refusals>>

DeliverExit ==
  /\ ioctl = Blocked /\ device = "closing"
  /\ kernelbuffer' = Notice("KERNEL_USERSPACE_EXIT")
  /\ ioctl' = Returned("0")
  /\ UNCHANGED <<device, bio, after, signals, refusals>>

\* "Only used in error cases to ask userspace to call us back to block"; a
\* newer kernel module may also ask for what this client does not know.
DeliverOther ==
  /\ ioctl = Blocked /\ refusals < MaxRefusals
  /\ refusals' = refusals + 1
  /\ \E op \in {"KERNEL_BLOCK_FOR_REQUEST", "UNKNOWN"} : kernelbuffer' = Notice(op)
  /\ ioctl' = Returned("0")
  /\ UNCHANGED <<device, bio, after, signals>>

FindGone ==
  /\ ioctl = Blocked /\ device = "gone"
  /\ ioctl' = Returned("ENOENT")
  /\ UNCHANGED <<device, bio, after, kernelbuffer, signals, refusals>>

\* A signal interrupts the caller before or after its answer was taken, and
\* maybe when the next request was already being copied to the buffer; that
\* request stays queued.
Interrupt ==
  /\ ioctl \in {Entering, Blocked} /\ signals < MaxSignals
  /\ signals' = signals + 1
  /\ ioctl' = Returned("EINTR")
  /\ \/ UNCHANGED kernelbuffer
     \/ /\ ioctl = Blocked
        /\ \E b \in Bio : bio[b].status = "queued" /\ kernelbuffer' = Request(b)
  /\ UNCHANGED <<device, bio, after, refusals>>

KernelIoctl ==
  Accept \/ Refuse \/ (\E b \in Bio : Deliver(b)) \/ DeliverExit \/ DeliverOther
    \/ FindGone \/ Interrupt

KernelNext ==
  \/ \E b \in Bio : IssueBio(b) \/ TimeoutBio(b)
  \/ RequestDestroy \/ Destroy
  \/ KernelIoctl
=============================================================================
