------------------------- MODULE BlockDeviceHandler -------------------------
(***************************************************************************)
(* Block_device_handler.Run, and what it calls of Kmod: the loop that      *)
(* serves the requests of one block device.  Every ioctl both answers the  *)
(* last request and fetches the next one; signals, errors of the ioctl,    *)
(* errors of the storage, requests it rejects and the destruction of the   *)
(* device all end in some branch that blocks for the next request again.   *)
(* The storage is one register here; StreeStorage models what is below.    *)
(***************************************************************************)
EXTENDS KernelModule

CONSTANT StorageMayFail   \* can a call of the storage return an error?

ASSUME StorageAssumption == StorageMayFail \in BOOLEAN

VARIABLES
  pc,        \* "open", "ioctl", "dispatch", "storage", "exited" or "panicked"
  site,      \* which call of the ioctl was made last: the "first" block for
             \* request, the one in the "switch", the one at the "bottom" of
             \* the loop, or an answer to a read, write or discard
  backup,    \* Safe_ioctl's copy of the buffer it submitted
  disk,      \* what the storage holds
  applied,   \* history: did the storage execute this bio?
  value      \* history: what a read found in the storage

hvars == <<pc, site, backup, disk, applied, value>>
vars == <<kvars, hvars>>

Init ==
  /\ KernelInit
  /\ pc = "open" /\ site = "first"
  /\ backup = Notice("NO_RESPONSE_BLOCK_FOR_REQUEST")
  /\ disk = Zero
  /\ applied = [b \in Bio |-> FALSE]
  /\ value = [b \in Bio |-> Zero]

-----------------------------------------------------------------------------
(***************************************************************************)
(* Safe_ioctl                                                              *)
(***************************************************************************)
\* Serialize the operation into the kernel buffer, back it up, make the call.
Submit(msg, from) ==
  /\ kernelbuffer' = msg /\ backup' = msg
  /\ ioctl' = Entering
  /\ pc' = "ioctl" /\ site' = from
  /\ UNCHANGED <<device, bio, after, signals, refusals>>

\* The operation struct of the last request is used again; what it leaves in
\* the id, the error and the metadata, the kernel does not read in this call.
Block_for_request(from) == Submit(Notice("NO_RESPONSE_BLOCK_FOR_REQUEST"), from)

Stop(how) ==
  /\ pc' = how /\ ioctl' = NotInIoctl
  /\ UNCHANGED <<device, bio, after, kernelbuffer, signals, refusals, site, backup>>

storage_unchanged == UNCHANGED <<disk, applied, value>>

Restored_Not == kernelbuffer   \* mutated: the kernel's changes are sent back
Restored_Blocks == Notice("NO_RESPONSE_BLOCK_FOR_REQUEST")   \* mutated: not the answer
Restored == backup

\* EINTR: put the original request back and call again.
RetryIoctl ==
  /\ pc = "ioctl" /\ ioctl = Returned("EINTR")
  /\ kernelbuffer' = Restored
  /\ ioctl' = Entering
  /\ UNCHANGED <<device, bio, after, signals, refusals, pc, site, backup>>
  /\ storage_unchanged

Returns(errnos) ==
  pc = "ioctl" /\ ioctl.state = "returned" /\ ioctl.errno \in errnos

\* The next request is in the buffer.
GotRequest_BlocksAgain ==   \* mutated: the loop blocks twice after an error
  /\ Returns({"0"})
  /\ IF site = "bottom" THEN Block_for_request("first")
     ELSE /\ pc' = "dispatch" /\ ioctl' = NotInIoctl
          /\ UNCHANGED <<device, bio, after, kernelbuffer, signals, refusals, site, backup>>
  /\ storage_unchanged

GotRequest ==
  /\ Returns({"0"})
  /\ pc' = "dispatch" /\ ioctl' = NotInIoctl
  /\ UNCHANGED <<device, bio, after, kernelbuffer, signals, refusals, site, backup>>
  /\ storage_unchanged

-----------------------------------------------------------------------------
(***************************************************************************)
(* Run_block_for_request: ENOENT is the one permanent failure.             *)
(***************************************************************************)
Blocking == site \in {"first", "switch", "bottom"}

RetryBlock ==
  /\ Blocking /\ Returns({"EINVAL"})
  /\ Block_for_request(site)
  /\ storage_unchanged

\* Run returns when the first or the bottom call fails.  An error of the call
\* in the switch goes to the bottom of the loop first.
DeviceGone_KeepsTrying ==   \* mutated: as before ENOENT was checked
  /\ Blocking /\ Returns({"ENOENT"})
  /\ Block_for_request(site)
  /\ storage_unchanged

DeviceGone ==
  /\ Blocking /\ Returns({"ENOENT"})
  /\ IF site = "switch" THEN Block_for_request("bottom") ELSE Stop("exited")
  /\ storage_unchanged

-----------------------------------------------------------------------------
(***************************************************************************)
(* The end of the Respond functions: what they do when the ioctl failed.   *)
(***************************************************************************)
\* Respond_to_read_request asks the error code of ret2, which is nil here.
ReadResponseFails ==
  /\ site = "read" /\ Returns({"ENOENT", "EINVAL"})
  /\ Stop("panicked")
  /\ storage_unchanged

\* The others return the error, and Run blocks for another request.
OtherResponseFails ==
  /\ site \in {"write", "discard"} /\ Returns({"ENOENT", "EINVAL"})
  /\ Block_for_request("bottom")
  /\ storage_unchanged

-----------------------------------------------------------------------------
(***************************************************************************)
(* Run                                                                     *)
(***************************************************************************)
Open ==
  /\ pc = "open" /\ device # "gone"
  /\ Block_for_request("first")
  /\ storage_unchanged

OpenFails ==
  /\ pc = "open"
  /\ \/ device = "gone" /\ UNCHANGED refusals
     \/ refusals < MaxRefusals /\ refusals' = refusals + 1
  /\ pc' = "exited"
  /\ UNCHANGED <<device, bio, after, ioctl, kernelbuffer, signals, site, backup>>
  /\ storage_unchanged

\* The kind of request in the buffer, and whether it is one the Respond
\* functions serve.  A read must have segments; all segments must adjoin.
Asks(kind) == pc = "dispatch" /\ kernelbuffer.Operation = RequestOp[kind]

Serves(kind, segments) ==
  segments \in IF kind = "read" THEN {"adjacent"} ELSE {"adjacent", "none"}

SwitchBlocks ==
  /\ pc = "dispatch" /\ kernelbuffer.Operation = "KERNEL_BLOCK_FOR_REQUEST"
  /\ Block_for_request("switch")
  /\ storage_unchanged

SwitchExits ==
  /\ pc = "dispatch" /\ kernelbuffer.Operation = "KERNEL_USERSPACE_EXIT"
  /\ Stop("exited")
  /\ storage_unchanged

\* A request it does not know or does not accept is not answered at all.
SwitchRejects ==
  /\ \/ pc = "dispatch" /\ kernelbuffer.Operation \notin KernelOps
     \/ \E kind \in Kinds : Asks(kind) /\ ~Serves(kind, kernelbuffer.segments)
  /\ Block_for_request("bottom")
  /\ storage_unchanged

SwitchServes(kind) ==
  /\ Asks(kind) /\ Serves(kind, kernelbuffer.segments)
  /\ pc' = "storage"
  /\ UNCHANGED <<kvars, site, backup>>
  /\ storage_unchanged

\* The answer is built in the request's own operation struct.
Response_KeepsOperation(kind, failed, read) ==   \* mutated: Header.Operation not set
  [kernelbuffer EXCEPT !.Error = failed, !.value = read]
Response_DropsError(kind, failed, read) ==   \* mutated: Error not set
  [kernelbuffer EXCEPT !.Operation = ResponseOp[kind], !.Error = FALSE, !.value = read]

Response(kind, failed, read) ==
  [kernelbuffer EXCEPT !.Operation = ResponseOp[kind], !.Error = failed,
                       !.value = read]

\* What the storage does with it: a request without segments has length 0.
Apply_IgnoresLength(kind, b) ==   \* mutated: length 0 is not a special case
  /\ applied' = [applied EXCEPT ![b] = TRUE]
  /\ disk' = IF kind = "read" THEN disk
             ELSE IF kind = "write" THEN kernelbuffer.value ELSE Zero
  /\ value' = IF kind = "read" THEN [value EXCEPT ![b] = disk] ELSE value

Apply(kind, b) ==
  /\ applied' = [applied EXCEPT ![b] = TRUE]
  /\ disk' = IF kernelbuffer.segments = "none" \/ kind = "read" THEN disk
             ELSE IF kind = "write" THEN kernelbuffer.value ELSE Zero
  /\ value' = IF kind = "read" THEN [value EXCEPT ![b] = disk] ELSE value

\* Call the storage and answer with its result.  A call that fails may have
\* done its work or not.
Serve(kind) ==
  /\ pc = "storage" /\ kernelbuffer.Operation = RequestOp[kind]
  /\ LET b == kernelbuffer.Operation_id
         read == IF kind = "read" THEN disk ELSE Zero
     IN  \/ Apply(kind, b) /\ Submit(Response(kind, FALSE, read), kind)
         \/ /\ StorageMayFail
            /\ Apply(kind, b) \/ storage_unchanged
            /\ Submit(Response(kind, TRUE, Zero), kind)

-----------------------------------------------------------------------------
HandlerNext ==
  \/ Open \/ OpenFails \/ RetryIoctl \/ GotRequest
  \/ RetryBlock \/ DeviceGone
  \/ ReadResponseFails \/ OtherResponseFails
  \/ SwitchBlocks \/ SwitchExits \/ SwitchRejects
  \/ \E kind \in Kinds : SwitchServes(kind) \/ Serve(kind)

Next == HandlerNext \/ (KernelNext /\ UNCHANGED hvars)

Spec == Init /\ [][Next]_vars

\* The handler runs whenever it can: it sleeps at most a second at a time.
\* The kernel answers a call it has accepted as soon as it has something to
\* say, and does not wait for ever for userspace to let go of a device that
\* is to be destroyed.  Nothing makes a bio time out, a signal arrive or the
\* kernel refuse a call.
KernelAnswers == Accept \/ (\E b \in Bio : Deliver(b)) \/ DeliverExit \/ FindGone

FairSpec ==
  /\ Spec
  /\ WF_vars(HandlerNext)
  /\ WF_vars(KernelAnswers /\ UNCHANGED hvars)
  /\ WF_vars(Destroy /\ UNCHANGED hvars)

-----------------------------------------------------------------------------
(***************************************************************************)
(* Correctness                                                             *)
(***************************************************************************)
BioRecord ==
  [status : {"new", "queued", "taken", "done"}, kind : Kinds, segments : Segments,
   result : {"none", "ok", "error"}, data : Values]

\* Types; what the handler submits is always an operation of userspace.
TypeOK ==
  /\ device \in {"up", "closing", "gone"}
  /\ bio \in [Bio -> BioRecord]
  /\ after \in [Bio -> SUBSET Bio]
  /\ ioctl \in [state : {"none", "entering", "blocked", "returned"},
                errno : {"0", "EINTR", "ENOENT", "EINVAL"}]
  /\ kernelbuffer \in Message
  /\ signals \in 0 .. MaxSignals /\ refusals \in 0 .. MaxRefusals
  /\ pc \in {"open", "ioctl", "dispatch", "storage", "exited", "panicked"}
  /\ site \in {"first", "switch", "bottom"} \union Kinds
  /\ backup \in Message /\ backup.Operation \in UserOps
  /\ disk \in Values
  /\ applied \in [Bio -> BOOLEAN]
  /\ value \in [Bio -> Values]

Answers(msg, b) == msg.Operation = ResponseOp[bio[b].kind] /\ msg.Operation_id = b

\* Whatever the ioctl carries into the kernel, on the first call and on every
\* retry after a signal, is what the handler submitted; and when it answers a
\* bio, the bio is one the kernel handed over, the answer is of its kind, it
\* reports success only of what the storage did, and a read brings what the
\* storage held.  The kernel checks none of this.
AnswersMatchRequests ==
  ioctl = Entering =>
    /\ kernelbuffer = backup
    /\ kernelbuffer.Operation \in UserOps
    /\ kernelbuffer.Operation # "NO_RESPONSE_BLOCK_FOR_REQUEST" =>
         \E b \in Bio :
           /\ Answers(kernelbuffer, b)
           /\ bio[b].status \in {"taken", "done"}
           /\ ~kernelbuffer.Error => applied[b] /\ kernelbuffer.value = value[b]

\* The bio the handler works on: its request or its answer is in the buffer
\* (or in the copy of the buffer, while the kernel may scribble on it).
InHand(b) ==
  \/ pc \in {"dispatch", "storage"} /\ kernelbuffer.Operation_id = b
  \/ pc = "ioctl" /\ ioctl = Returned("0") /\ kernelbuffer.Operation_id = b
  \/ pc = "ioctl" /\ ioctl \in {Entering, Returned("EINTR")} /\ Answers(backup, b)

\* A request the kernel handed over and the handler serves, but that it no
\* longer works on: only the kernel's timeout ends it.
Lost(b) ==
  /\ bio[b].status = "taken" /\ Serves(bio[b].kind, bio[b].segments)
  /\ ~InHand(b)

\* No branch of the loop drops a request it could serve, nor its answer, but
\* when the kernel fails; and each failure of the kernel costs one at most,
\* however long the handler goes on after it.
NothingForgotten == Cardinality({b \in Bio : Lost(b)}) <= refusals

\* Once somebody destroys the device the handler ends, by the exit request or
\* by the ENOENT that replaces it when it comes too late.  A panic counts as
\* an end here; that there is none is what NeverPanics says.
HandlerStops == device # "up" ~> pc \in {"exited", "panicked"}

\* As long as the kernel does not fail, every request that the handler can
\* serve is answered, signals or not, without the help of the kernel's timeout.
RequestsAnswered ==
  \A b \in Bio :
    bio[b].status = "queued" /\ Serves(bio[b].kind, bio[b].segments) ~>
      bio[b].status = "done" \/ refusals > 0

\* No ioctl error ends the process; the handler keeps trying, or exits.
NeverPanics == pc # "panicked"

\* To its users the device is a BlockDevice: requests complete once, success
\* means they took effect, and no request that was given up resurfaces after
\* a later one.
Device == INSTANCE BlockDevice WITH
  status <- [b \in Bio |-> CASE bio[b].status = "new" -> "new"
                             [] bio[b].status = "done" -> "done"
                             [] OTHER -> "pending"],
  effect <- [b \in Bio |-> IF bio[b].segments = "none" THEN "none" ELSE bio[b].kind],
  data <- [b \in Bio |-> bio[b].data],
  result <- [b \in Bio |-> bio[b].result]

ImplementsBlockDevice == Device!Spec
=============================================================================
