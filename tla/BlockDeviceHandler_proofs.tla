---------------------- MODULE BlockDeviceHandler_proofs ----------------------
(***************************************************************************)
(* The safety invariants of BlockDeviceHandler, for any bios and any       *)
(* number of signals and refusals.                                         *)
(***************************************************************************)
EXTENDS BlockDeviceHandler, FiniteSetTheorems, TLAPS

Errnos == {"0", "EINTR", "ENOENT", "EINVAL"}

HandedOver(b) == bio[b].status \in {"taken", "done"}

\* The handler is in the ioctl or not; what it enters with is what it backed
\* up; a device that is gone has no bio left to answer.
WhereInv ==
  /\ ioctl \in {NotInIoctl, Entering, Blocked} \union {Returned(e) : e \in Errnos}
  /\ pc = "ioctl" <=> ioctl # NotInIoctl
  /\ ioctl = Entering => kernelbuffer = backup
  /\ device = "gone" => \A b \in Bio : ~Unfinished(b)

\* An answer that waits to be taken, or may be sent again after a signal.
Reports(msg, b) ==
  /\ Answers(msg, b) /\ HandedOver(b)
  /\ ~msg.Error => applied[b] /\ msg.value = value[b]

BackupInv ==
  pc = "ioctl" /\ backup.Operation # "NO_RESPONSE_BLOCK_FOR_REQUEST" =>
    \E b \in Bio : Reports(backup, b)

\* What the ioctl came back with: the request of a bio, or a notice.
NoticeOps == {"KERNEL_BLOCK_FOR_REQUEST", "KERNEL_USERSPACE_EXIT", "UNKNOWN"}

BufferInv ==
  pc \in {"dispatch", "storage"} \/ ioctl = Returned("0") =>
    \/ \E b \in Bio : HandedOver(b) /\ kernelbuffer = Request(b)
    \/ /\ kernelbuffer.Operation \in NoticeOps
       /\ kernelbuffer.Operation_id = NoBio

\* Only reads that were handed over have found anything.
ValueInv ==
  \A b \in Bio : value[b] # Zero => HandedOver(b) /\ bio[b].kind = "read"

IInv == TypeOK /\ WhereInv /\ BackupInv /\ BufferInv /\ ValueInv

-----------------------------------------------------------------------------
(***************************************************************************)
(* Messages                                                                *)
(***************************************************************************)
\* The operations of requests, of answers and of notices are all different,
\* and those of different kinds are.
LEMMA OpsDiffer ==
  /\ \A k \in Kinds : RequestOp[k] \in KernelOps /\ RequestOp[k] \notin NoticeOps
  /\ \A k \in Kinds : ResponseOp[k] \in UserOps
  /\ \A k \in Kinds : ResponseOp[k] # "NO_RESPONSE_BLOCK_FOR_REQUEST"
  /\ \A k, l \in Kinds : RequestOp[k] = RequestOp[l] => k = l
  /\ UserOps \intersect (KernelOps \union NoticeOps) = {}
  /\ "NO_RESPONSE_BLOCK_FOR_REQUEST" \in UserOps
BY DEF Kinds, RequestOp, ResponseOp, UserOps, KernelOps, NoticeOps

\* What the kernel and the handler put into the buffer is a message.
LEMMA NoticeType ==
  \A op \in UserOps \union NoticeOps : Notice(op) \in Message
BY DEF Notice, Message, UserOps, KernelOps, NoticeOps, Values, Segments

LEMMA RequestType ==
  ASSUME TypeOK, NEW b \in Bio
  PROVE  Request(b) \in Message
<1>1. bio[b].kind \in Kinds /\ bio[b].segments \in Segments
  BY DEF TypeOK, BioRecord
<1>2. RequestOp[bio[b].kind] \in KernelOps
  BY <1>1, OpsDiffer
<1> QED
  BY <1>1, <1>2 DEF Request, Message, Values

-----------------------------------------------------------------------------
(***************************************************************************)
(* Steps of the handler that do not touch the storage                      *)
(***************************************************************************)
\* A call to block for a request keeps the invariant wherever it is made.
LEMMA BlockKeepsInv ==
  ASSUME IInv, NEW from \in {"first", "switch", "bottom"},
         Block_for_request(from), storage_unchanged
  PROVE  IInv'
<1> DEFINE op == "NO_RESPONSE_BLOCK_FOR_REQUEST"
<1>1. /\ kernelbuffer' = Notice(op) /\ backup' = Notice(op)
      /\ ioctl' = Entering /\ pc' = "ioctl" /\ site' = from
      /\ UNCHANGED <<device, bio, after, signals, refusals, disk, applied, value>>
  BY DEF Block_for_request, Submit, storage_unchanged
<1>2. Notice(op) \in Message /\ Notice(op).Operation = op
  BY NoticeType, OpsDiffer DEF Notice
<1>3. Entering # NotInIoctl /\ Entering # Returned("0")
  BY DEF Entering, NotInIoctl, Returned
<1>4. TypeOK'
  BY <1>1, <1>2, OpsDiffer DEF IInv, TypeOK, Entering
<1>5. WhereInv'
  BY <1>1, <1>3 DEF IInv, WhereInv, Unfinished
<1>6. BackupInv'
  BY <1>1, <1>2 DEF BackupInv
<1>7. BufferInv'
  BY <1>1, <1>3 DEF BufferInv
<1>8. ValueInv'
  BY <1>1 DEF IInv, ValueInv, HandedOver
<1> QED
  BY <1>4, <1>5, <1>6, <1>7, <1>8 DEF IInv

\* So does the end of Run.
LEMMA StopKeepsInv ==
  ASSUME IInv, NEW how \in {"exited", "panicked"}, Stop(how), storage_unchanged
  PROVE  IInv'
<1>1. /\ pc' = how /\ ioctl' = NotInIoctl
      /\ UNCHANGED <<device, bio, after, kernelbuffer, signals, refusals, site, backup,
                     disk, applied, value>>
  BY DEF Stop, storage_unchanged
<1>2. NotInIoctl # Entering /\ NotInIoctl # Returned("0")
  BY DEF Entering, NotInIoctl, Returned
<1>3. TypeOK'
  BY <1>1 DEF IInv, TypeOK, NotInIoctl
<1>4. WhereInv'
  BY <1>1, <1>2 DEF IInv, WhereInv, Unfinished
<1>5. BackupInv' /\ BufferInv'
  BY <1>1, <1>2 DEF BackupInv, BufferInv
<1>6. ValueInv'
  BY <1>1 DEF IInv, ValueInv, HandedOver
<1> QED
  BY <1>3, <1>4, <1>5, <1>6 DEF IInv

LEMMA OpenFailsKeepsInv ==
  ASSUME IInv, OpenFails
  PROVE  IInv'
<1>1. /\ pc' = "exited" /\ pc = "open"
      /\ UNCHANGED <<device, bio, after, ioctl, kernelbuffer, signals, site, backup,
                     disk, applied, value>>
  BY DEF OpenFails, storage_unchanged
<1>2. refusals' \in 0 .. MaxRefusals
  BY BoundAssumption DEF IInv, TypeOK, OpenFails
<1>3. ioctl = NotInIoctl
  BY <1>1 DEF IInv, WhereInv
<1>4. NotInIoctl # Entering /\ NotInIoctl # Returned("0")
  BY DEF Entering, NotInIoctl, Returned
<1>5. TypeOK'
  BY <1>1, <1>2 DEF IInv, TypeOK
<1>6. WhereInv' /\ BackupInv' /\ BufferInv'
  BY <1>1, <1>3, <1>4 DEF IInv, WhereInv, BackupInv, BufferInv, Unfinished
<1>7. ValueInv'
  BY <1>1 DEF IInv, ValueInv, HandedOver
<1> QED
  BY <1>5, <1>6, <1>7 DEF IInv

\* The retry after a signal sends what was backed up, whatever the kernel has
\* written to the buffer since.
LEMMA RetryIoctlKeepsInv ==
  ASSUME IInv, RetryIoctl
  PROVE  IInv'
<1>1. /\ pc = "ioctl" /\ pc' = "ioctl" /\ ioctl' = Entering /\ kernelbuffer' = backup
      /\ UNCHANGED <<device, bio, after, signals, refusals, site, backup,
                     disk, applied, value>>
  BY DEF RetryIoctl, Restored, storage_unchanged
<1>2. Entering # NotInIoctl /\ Entering # Returned("0")
  BY DEF Entering, NotInIoctl, Returned
<1>3. TypeOK'
  BY <1>1 DEF IInv, TypeOK, Entering
<1>4. WhereInv' /\ BufferInv'
  BY <1>1, <1>2 DEF IInv, WhereInv, BufferInv, Unfinished
<1>5. BackupInv' /\ ValueInv'
  BY <1>1 DEF IInv, BackupInv, ValueInv, Reports, Answers, HandedOver
<1> QED
  BY <1>3, <1>4, <1>5 DEF IInv

LEMMA GotRequestKeepsInv ==
  ASSUME IInv, GotRequest
  PROVE  IInv'
<1>1. /\ pc = "ioctl" /\ ioctl.state = "returned" /\ ioctl.errno = "0"
      /\ pc' = "dispatch" /\ ioctl' = NotInIoctl
      /\ UNCHANGED <<device, bio, after, kernelbuffer, signals, refusals, site, backup,
                     disk, applied, value>>
  BY DEF GotRequest, Returns, storage_unchanged
<1>2. ioctl = Returned("0") /\ NotInIoctl # Entering
  BY <1>1 DEF IInv, WhereInv, Errnos, Entering, Blocked, NotInIoctl, Returned
<1>3. TypeOK'
  BY <1>1 DEF IInv, TypeOK, NotInIoctl
<1>4. WhereInv' /\ BackupInv'
  BY <1>1, <1>2 DEF IInv, WhereInv, BackupInv, Unfinished
<1>5. BufferInv' /\ ValueInv'
  BY <1>1, <1>2 DEF IInv, BufferInv, ValueInv, HandedOver, Request
<1> QED
  BY <1>3, <1>4, <1>5 DEF IInv

LEMMA SwitchServesKeepsInv ==
  ASSUME IInv, NEW kind \in Kinds, SwitchServes(kind)
  PROVE  IInv'
<1>1. /\ pc = "dispatch" /\ pc' = "storage"
      /\ UNCHANGED <<device, bio, after, ioctl, kernelbuffer, signals, refusals, site,
                     backup, disk, applied, value>>
  BY DEF SwitchServes, Asks, storage_unchanged, kvars
<1>2. TypeOK'
  BY <1>1 DEF IInv, TypeOK
<1>3. WhereInv' /\ BackupInv'
  BY <1>1 DEF IInv, WhereInv, BackupInv, Unfinished
<1>4. BufferInv' /\ ValueInv'
  BY <1>1 DEF IInv, BufferInv, ValueInv, HandedOver, Request
<1> QED
  BY <1>2, <1>3, <1>4 DEF IInv

-----------------------------------------------------------------------------
(***************************************************************************)
(* The storage, and the answer                                             *)
(***************************************************************************)
\* The request of a bio is the only message with one of the request codes.
LEMMA ServedBio ==
  ASSUME IInv, pc \in {"dispatch", "storage"}, NEW kind \in Kinds,
         kernelbuffer.Operation = RequestOp[kind]
  PROVE  /\ kernelbuffer.Operation_id \in Bio
         /\ HandedOver(kernelbuffer.Operation_id)
         /\ bio[kernelbuffer.Operation_id].kind = kind
         /\ kernelbuffer = Request(kernelbuffer.Operation_id)
<1>1. kernelbuffer.Operation \notin NoticeOps
  BY OpsDiffer
<1>2. PICK b \in Bio : HandedOver(b) /\ kernelbuffer = Request(b)
  BY <1>1 DEF IInv, BufferInv
<1>3. kernelbuffer.Operation_id = b /\ kernelbuffer.Operation = RequestOp[bio[b].kind]
  BY <1>2 DEF Request
<1>4. bio[b].kind \in Kinds
  BY DEF IInv, TypeOK, BioRecord
<1> QED
  BY <1>2, <1>3, <1>4, OpsDiffer

\* What becomes of the storage, whether the call succeeds or not.
LEMMA StorageOutcome ==
  ASSUME IInv, pc = "storage", NEW kind \in Kinds,
         kernelbuffer.Operation = RequestOp[kind], UNCHANGED bio,
         Apply(kind, kernelbuffer.Operation_id) \/ storage_unchanged
  PROVE  /\ disk' \in Values /\ applied' \in [Bio -> BOOLEAN] /\ value' \in [Bio -> Values]
         /\ ValueInv'
<1> DEFINE b == kernelbuffer.Operation_id
<1>1. b \in Bio /\ HandedOver(b) /\ bio[b].kind = kind
  BY ServedBio
<1>2. /\ disk \in Values /\ applied \in [Bio -> BOOLEAN] /\ value \in [Bio -> Values]
      /\ kernelbuffer.value \in Values /\ Zero \in Values
  BY DEF IInv, TypeOK, Message, Values
<1>3. CASE storage_unchanged
  BY <1>2, <1>3 DEF storage_unchanged, IInv, ValueInv, HandedOver
<1>4. CASE Apply(kind, b)
  <2>1. disk' \in Values /\ applied' \in [Bio -> BOOLEAN]
    BY <1>2, <1>4 DEF Apply
  <2>2. CASE kind = "read"
    <3>1. value' = [value EXCEPT ![b] = disk]
      BY <1>4, <2>2 DEF Apply
    <3> QED
      BY <1>1, <1>2, <2>1, <2>2, <3>1 DEF IInv, ValueInv, HandedOver
  <2>3. CASE kind # "read"
    <3>1. value' = value
      BY <1>4, <2>3 DEF Apply
    <3> QED
      BY <1>2, <2>1, <3>1 DEF IInv, ValueInv, HandedOver
  <2> QED
    BY <2>2, <2>3
<1> QED
  BY <1>3, <1>4

\* The answer is built in the request, so it is of its kind and carries its
\* id; it reports success only after the storage has done the work.
LEMMA ServeKeepsInv ==
  ASSUME IInv, NEW kind \in Kinds, Serve(kind)
  PROVE  IInv'
<1> DEFINE b == kernelbuffer.Operation_id
           read == IF kind = "read" THEN disk ELSE Zero
<1>1. PICK failed \in BOOLEAN, found \in {read, Zero} :
        /\ pc = "storage" /\ kernelbuffer.Operation = RequestOp[kind]
        /\ Apply(kind, b) \/ storage_unchanged
        /\ ~failed => Apply(kind, b) /\ found = read
        /\ Submit(Response(kind, failed, found), kind)
  BY DEF Serve
<1> DEFINE msg == Response(kind, failed, found)
<1>2. b \in Bio /\ HandedOver(b) /\ bio[b].kind = kind
  BY <1>1, ServedBio
<1>3. /\ kernelbuffer' = msg /\ backup' = msg /\ ioctl' = Entering
      /\ pc' = "ioctl" /\ site' = kind
      /\ UNCHANGED <<device, bio, after, signals, refusals>>
  BY <1>1 DEF Submit
<1>4. ValueInv' /\ disk' \in Values /\ applied' \in [Bio -> BOOLEAN] /\ value' \in [Bio -> Values]
  BY <1>1, <1>3, StorageOutcome
<1>5. /\ kernelbuffer \in Message /\ read \in Values /\ Zero \in Values
      /\ ResponseOp[kind] \in UserOps
  BY OpsDiffer DEF IInv, TypeOK, Values
<1>6. /\ msg \in Message /\ msg.Operation = ResponseOp[kind] /\ msg.Operation_id = b
      /\ msg.Error = failed /\ msg.value = found
  BY <1>5 DEF Response, Message
<1>7. TypeOK'
  BY <1>3, <1>4, <1>5, <1>6 DEF IInv, TypeOK, Entering
<1>8. Entering # NotInIoctl /\ Entering # Returned("0")
  BY DEF Entering, NotInIoctl, Returned
<1>9. WhereInv' /\ BufferInv'
  BY <1>3, <1>8 DEF IInv, WhereInv, BufferInv, Unfinished
<1>10. ~failed => applied'[b] /\ found = value'[b]
  <2> SUFFICES ASSUME ~failed PROVE applied'[b] /\ found = value'[b]
    OBVIOUS
  <2>1. Apply(kind, b) /\ found = read
    BY <1>1
  <2>2. applied \in [Bio -> BOOLEAN] /\ value \in [Bio -> Values]
    BY DEF IInv, TypeOK
  <2>3. applied'[b]
    BY <1>2, <2>1, <2>2 DEF Apply
  <2>4. CASE kind = "read"
    BY <1>2, <2>1, <2>2, <2>3, <2>4 DEF Apply
  <2>5. CASE kind # "read"
    <3>1. value' = value /\ found = Zero
      BY <2>1, <2>5 DEF Apply
    <3>2. value[b] = Zero
      BY <1>2, <2>5 DEF IInv, ValueInv
    <3> QED
      BY <2>3, <3>1, <3>2
  <2> QED
    BY <2>4, <2>5
<1>11. BackupInv'
  <2>1. ASSUME NEW c \in Bio, c = b PROVE Reports(backup, c)'
    BY <1>2, <1>3, <1>6, <1>10, <2>1 DEF Reports, Answers, HandedOver
  <2> QED
    BY <1>2, <2>1 DEF BackupInv
<1> QED
  BY <1>4, <1>7, <1>9, <1>11 DEF IInv

-----------------------------------------------------------------------------
(***************************************************************************)
(* Steps of the kernel                                                     *)
(***************************************************************************)
\* What a step of the kernel may do to the record of a bio: once it was
\* handed over it stays so, and stays what it was.
KeepsBios ==
  /\ bio' \in [Bio -> BioRecord]
  /\ \A b \in Bio : HandedOver(b) =>
       /\ HandedOver(b)'
       /\ bio'[b].kind = bio[b].kind /\ bio'[b].segments = bio[b].segments

\* Then it keeps what the handler knows, if it does not write to the buffer
\* while the handler is going to look at it.
LEMMA KernelKeepsHistory ==
  ASSUME IInv, KeepsBios, UNCHANGED hvars
  PROVE  BackupInv' /\ ValueInv'
<1>1. UNCHANGED <<pc, site, backup, disk, applied, value>>
  BY DEF hvars
<1>2. ASSUME NEW b \in Bio, Reports(backup, b) PROVE Reports(backup, b)'
  BY <1>1, <1>2 DEF KeepsBios, Reports, Answers, HandedOver
<1>3. BackupInv'
  BY <1>1, <1>2 DEF IInv, BackupInv
<1>4. ValueInv'
  BY <1>1 DEF IInv, ValueInv, KeepsBios
<1> QED
  BY <1>3, <1>4

LEMMA KernelKeepsBuffer ==
  ASSUME IInv, KeepsBios, UNCHANGED <<hvars, kernelbuffer, ioctl>>
  PROVE  BufferInv'
<1>1. UNCHANGED <<pc, kernelbuffer, ioctl>>
  BY DEF hvars
<1>2. ASSUME NEW b \in Bio, HandedOver(b), kernelbuffer = Request(b)
      PROVE  HandedOver(b)' /\ kernelbuffer' = Request(b)'
  BY <1>1, <1>2 DEF KeepsBios, Request
<1> QED
  BY <1>1, <1>2 DEF IInv, BufferInv

\* The block layer and the timeout touch bios that are new or unfinished.
LEMMA BlockLayerKeepsInv ==
  ASSUME IInv, NEW b \in Bio, IssueBio(b) \/ TimeoutBio(b), UNCHANGED hvars
  PROVE  IInv'
<1>1. UNCHANGED <<device, ioctl, kernelbuffer, signals, refusals>>
  BY DEF IssueBio, TimeoutBio
<1>2. UNCHANGED <<pc, site, backup, disk, applied, value>>
  BY DEF hvars
<1>3. bio \in [Bio -> BioRecord] /\ after \in [Bio -> SUBSET Bio]
  BY DEF IInv, TypeOK
<1>4. KeepsBios /\ after' \in [Bio -> SUBSET Bio] /\ (device = "gone" => \A d \in Bio : ~Unfinished(d)')
  <2>1. CASE TimeoutBio(b)
    BY <1>3, <2>1 DEF TimeoutBio, KeepsBios, HandedOver, BioRecord, Unfinished, IInv, WhereInv
  <2>2. CASE IssueBio(b)
    <3>1. PICK shape \in Shapes :
            bio' = [bio EXCEPT ![b].status = "queued", ![b].kind = shape[1], ![b].segments = shape[2]]
      BY <2>2 DEF IssueBio
    <3>2. shape[1] \in Kinds /\ shape[2] \in Segments
      <4>1. shape \in Kinds \X Segments
        BY ShapesAssumption
      <4> QED
        BY <4>1 DEF Kinds, Segments
    <3>3. bio' \in [Bio -> BioRecord]
      <4> DEFINE issued == [bio[b] EXCEPT !.status = "queued", !.kind = shape[1],
                                          !.segments = shape[2]]
      <4>1. bio' = [bio EXCEPT ![b] = issued]
        BY <1>3, <3>1
      <4>2. issued \in BioRecord
        BY <1>3, <3>2 DEF BioRecord
      <4> HIDE DEF issued
      <4> QED
        BY <1>3, <4>1, <4>2
    <3>4. \A d \in Bio : d # b => bio'[d] = bio[d]
      BY <1>3, <3>1
    <3>5. after' \in [Bio -> SUBSET Bio]
      BY <1>3, <2>2 DEF IssueBio, Finished
    <3> QED
      BY <2>2, <3>3, <3>4, <3>5 DEF IssueBio, KeepsBios, HandedOver
  <2> QED
    BY <2>1, <2>2
<1>5. TypeOK'
  BY <1>1, <1>2, <1>4 DEF IInv, TypeOK, KeepsBios
<1>6. WhereInv'
  BY <1>1, <1>2, <1>4 DEF IInv, WhereInv
<1> QED
  BY <1>1, <1>4, <1>5, <1>6, KernelKeepsHistory, KernelKeepsBuffer DEF IInv

\* The destruction of a device answers every bio that waits.
LEMMA DestroyKeepsInv ==
  ASSUME IInv, Destroy, UNCHANGED hvars
  PROVE  IInv'
<1>1. /\ device' = "gone" /\ UNCHANGED <<after, ioctl, kernelbuffer, signals, refusals>>
      /\ bio' = [b \in Bio |-> IF Unfinished(b)
                                 THEN [bio[b] EXCEPT !.status = "done", !.result = "error"]
                                 ELSE bio[b]]
  BY DEF Destroy
<1>2. UNCHANGED <<pc, site, backup, disk, applied, value>>
  BY DEF hvars
<1>3. bio \in [Bio -> BioRecord]
  BY DEF IInv, TypeOK
<1>4. ASSUME NEW b \in Bio
      PROVE  /\ bio'[b] \in BioRecord /\ ~Unfinished(b)'
             /\ bio'[b].kind = bio[b].kind /\ bio'[b].segments = bio[b].segments
             /\ HandedOver(b) => HandedOver(b)'
  <2>1. bio[b] \in BioRecord
    BY <1>3
  <2>2. CASE Unfinished(b)
    <3>1. bio'[b] = [bio[b] EXCEPT !.status = "done", !.result = "error"]
      BY <1>1, <2>2
    <3> QED
      BY <2>1, <3>1 DEF BioRecord, Unfinished, HandedOver
  <2>3. CASE ~Unfinished(b)
    <3>1. bio'[b] = bio[b]
      BY <1>1, <2>3
    <3> QED
      BY <2>1, <2>3, <3>1 DEF Unfinished, HandedOver
  <2> QED
    BY <2>2, <2>3
<1>5. KeepsBios
  BY <1>1, <1>4 DEF KeepsBios
<1>6. TypeOK'
  BY <1>1, <1>2, <1>5 DEF IInv, TypeOK, KeepsBios
<1>7. WhereInv'
  BY <1>1, <1>2, <1>4 DEF IInv, WhereInv
<1> QED
  BY <1>1, <1>5, <1>6, <1>7, KernelKeepsHistory, KernelKeepsBuffer DEF IInv

LEMMA RequestDestroyKeepsInv ==
  ASSUME IInv, RequestDestroy, UNCHANGED hvars
  PROVE  IInv'
<1>1. device' = "closing" /\ UNCHANGED <<bio, after, ioctl, kernelbuffer, signals, refusals>>
  BY DEF RequestDestroy
<1>2. UNCHANGED <<pc, site, backup, disk, applied, value>>
  BY DEF hvars
<1>3. KeepsBios
  BY <1>1 DEF KeepsBios, HandedOver, IInv, TypeOK
<1>4. TypeOK' /\ WhereInv'
  BY <1>1, <1>2 DEF IInv, TypeOK, WhereInv
<1> QED
  BY <1>1, <1>3, <1>4, KernelKeepsHistory, KernelKeepsBuffer DEF IInv

\* An answer completes a bio that was handed over, or nothing.
LEMMA CompleteKeepsBios ==
  ASSUME IInv, NEW msg \in Message, Complete(msg)
  PROVE  /\ KeepsBios
         /\ \A b \in Bio : Unfinished(b)' => Unfinished(b)
         /\ \A b \in Bio : bio'[b].status = "taken" => bio'[b] = bio[b] /\ b # msg.Operation_id
<1> DEFINE b == msg.Operation_id
           completed == [bio[b] EXCEPT !.status = "done",
                                       !.result = IF msg.Error THEN "error" ELSE "ok",
                                       !.data = IF msg.Error THEN Zero ELSE msg.value]
<1>1. bio \in [Bio -> BioRecord]
  BY DEF IInv, TypeOK
<1>2. CASE ~(b \in Bio /\ bio[b].status = "taken")
  <2>1. bio' = bio
    BY <1>2 DEF Complete
  <2> QED
    BY <1>1, <1>2, <2>1 DEF KeepsBios, HandedOver, Unfinished
<1>3. CASE b \in Bio /\ bio[b].status = "taken"
  <2>1. bio' = [bio EXCEPT ![b] = completed]
    BY <1>1, <1>3 DEF Complete
  <2>2. msg.value \in Values /\ Zero \in Values
    BY DEF Message, Values
  <2>3. /\ completed \in BioRecord /\ completed.status = "done"
        /\ completed.kind = bio[b].kind /\ completed.segments = bio[b].segments
    BY <1>1, <1>3, <2>2 DEF BioRecord
  <2> HIDE DEF completed
  <2> QED
    BY <1>1, <1>3, <2>1, <2>3 DEF KeepsBios, HandedOver, Unfinished
<1> QED
  BY <1>2, <1>3

\* The ioctl moves on without touching the buffer, and does not come back
\* with success.
LEMMA IoctlMovesKeepsInv ==
  ASSUME IInv, KeepsBios, \A b \in Bio : Unfinished(b)' => Unfinished(b),
         ioctl # NotInIoctl, ioctl' \in {Blocked} \union {Returned(e) : e \in Errnos \ {"0"}},
         signals' \in 0 .. MaxSignals, refusals' \in 0 .. MaxRefusals,
         kernelbuffer' \in Message,
         UNCHANGED <<device, after>>, UNCHANGED hvars
  PROVE  IInv'
<1>1. UNCHANGED <<pc, site, backup, disk, applied, value>>
  BY DEF hvars
<1>2. ioctl' \notin {NotInIoctl, Entering, Returned("0")}
  BY DEF NotInIoctl, Entering, Blocked, Returned, Errnos
<1>3. pc = "ioctl"
  BY DEF IInv, WhereInv
<1>4. ioctl' \in [state : {"none", "entering", "blocked", "returned"}, errno : Errnos]
  BY DEF Blocked, Returned, Errnos
<1>5. TypeOK'
  BY <1>1, <1>4 DEF IInv, TypeOK, KeepsBios, Errnos
<1>6. WhereInv'
  BY <1>1, <1>2, <1>3 DEF IInv, WhereInv
<1>7. BufferInv'
  BY <1>1, <1>2, <1>3 DEF BufferInv
<1> QED
  BY <1>5, <1>6, <1>7, KernelKeepsHistory DEF IInv

LEMMA AcceptKeepsInv ==
  ASSUME IInv, Accept, UNCHANGED hvars
  PROVE  IInv'
<1>1. /\ ioctl = Entering /\ UNCHANGED <<device, after, kernelbuffer, signals, refusals>>
      /\ ioctl' \in {Blocked} \union {Returned(e) : e \in Errnos \ {"0"}}
      /\ bio' = bio \/ Complete(kernelbuffer)
  BY DEF Accept, Errnos
<1>2. kernelbuffer \in Message /\ signals \in 0 .. MaxSignals /\ refusals \in 0 .. MaxRefusals
  BY DEF IInv, TypeOK
<1>3. KeepsBios /\ \A b \in Bio : Unfinished(b)' => Unfinished(b)
  <2>1. CASE bio' = bio
    BY <2>1 DEF KeepsBios, HandedOver, Unfinished, IInv, TypeOK
  <2>2. CASE Complete(kernelbuffer)
    BY <1>2, <2>2, CompleteKeepsBios
  <2> QED
    BY <1>1, <2>1, <2>2
<1>4. ioctl # NotInIoctl
  BY <1>1 DEF Entering, NotInIoctl
<1> QED
  BY <1>1, <1>2, <1>3, <1>4, IoctlMovesKeepsInv

\* A refusal, a device that is gone, and a signal, which may leave anything
\* the kernel was about to deliver in the buffer.
LEMMA FailureKeepsInv ==
  ASSUME IInv, Refuse \/ FindGone \/ Interrupt, UNCHANGED hvars
  PROVE  IInv'
<1>1. /\ ioctl \in {Entering, Blocked} /\ UNCHANGED <<device, bio, after>>
      /\ ioctl' \in {Returned(e) : e \in Errnos \ {"0"}}
  BY DEF Refuse, FindGone, Interrupt, Errnos
<1>2. signals' \in 0 .. MaxSignals /\ refusals' \in 0 .. MaxRefusals
  BY BoundAssumption DEF Refuse, FindGone, Interrupt, IInv, TypeOK
<1>3. kernelbuffer' \in Message
  <2>1. CASE UNCHANGED kernelbuffer
    BY <2>1 DEF IInv, TypeOK
  <2>2. ASSUME NEW b \in Bio, kernelbuffer' = Request(b) PROVE kernelbuffer' \in Message
    BY <2>2, RequestType DEF IInv
  <2> QED
    BY <2>1, <2>2 DEF Refuse, FindGone, Interrupt
<1>4. KeepsBios /\ \A b \in Bio : Unfinished(b)' => Unfinished(b)
  BY <1>1 DEF KeepsBios, HandedOver, Unfinished, IInv, TypeOK
<1>5. ioctl # NotInIoctl
  BY <1>1 DEF Entering, Blocked, NotInIoctl
<1> QED
  BY <1>1, <1>2, <1>3, <1>4, <1>5, IoctlMovesKeepsInv

\* The ioctl comes back with a request of a bio, which is handed over now, or
\* with a notice.
LEMMA DeliverKeepsInv ==
  ASSUME IInv, NEW b \in Bio, Deliver(b), UNCHANGED hvars
  PROVE  IInv'
<1>1. /\ ioctl = Blocked /\ ioctl' = Returned("0") /\ device # "gone"
      /\ bio[b].status = "queued" /\ bio' = [bio EXCEPT ![b].status = "taken"]
      /\ kernelbuffer' = Request(b) /\ UNCHANGED <<device, after, signals, refusals>>
  BY DEF Deliver
<1>2. UNCHANGED <<pc, site, backup, disk, applied, value>>
  BY DEF hvars
<1>3. bio \in [Bio -> BioRecord] /\ kernelbuffer' \in Message
  BY <1>1, RequestType DEF IInv, TypeOK
<1>4. KeepsBios /\ HandedOver(b)' /\ kernelbuffer' = Request(b)'
  <2> DEFINE taken == [bio[b] EXCEPT !.status = "taken"]
  <2>1. bio' = [bio EXCEPT ![b] = taken]
    BY <1>1, <1>3
  <2>2. /\ taken \in BioRecord /\ taken.status = "taken"
        /\ taken.kind = bio[b].kind /\ taken.segments = bio[b].segments
    BY <1>3 DEF BioRecord
  <2> HIDE DEF taken
  <2> QED
    BY <1>1, <1>3, <2>1, <2>2 DEF KeepsBios, HandedOver, Request
<1>5. ioctl' \notin {NotInIoctl, Entering} /\ ioctl # NotInIoctl
  BY <1>1 DEF Returned, Blocked, NotInIoctl, Entering
<1>6. TypeOK'
  BY <1>1, <1>2, <1>3, <1>4 DEF IInv, TypeOK, KeepsBios, Returned
<1>7. WhereInv'
  BY <1>1, <1>2, <1>5 DEF IInv, WhereInv, Errnos
<1>8. BufferInv'
  BY <1>4 DEF BufferInv
<1> QED
  BY <1>4, <1>6, <1>7, <1>8, KernelKeepsHistory DEF IInv

LEMMA NoticeKeepsInv ==
  ASSUME IInv, DeliverExit \/ DeliverOther, UNCHANGED hvars
  PROVE  IInv'
<1>1. PICK op \in NoticeOps : kernelbuffer' = Notice(op)
  BY DEF DeliverExit, DeliverOther, NoticeOps
<1>2. /\ ioctl = Blocked /\ ioctl' = Returned("0") /\ UNCHANGED <<device, bio, after, signals>>
      /\ refusals' \in 0 .. MaxRefusals
  BY BoundAssumption DEF DeliverExit, DeliverOther, IInv, TypeOK
<1>3. UNCHANGED <<pc, site, backup, disk, applied, value>>
  BY DEF hvars
<1>4. kernelbuffer' \in Message /\ kernelbuffer'.Operation = op /\ kernelbuffer'.Operation_id = NoBio
  BY <1>1, NoticeType DEF Notice
<1>5. KeepsBios
  BY <1>2 DEF KeepsBios, HandedOver, IInv, TypeOK
<1>6. ioctl' \notin {NotInIoctl, Entering} /\ ioctl # NotInIoctl
  BY <1>2 DEF Returned, Blocked, NotInIoctl, Entering
<1>7. TypeOK'
  BY <1>2, <1>3, <1>4 DEF IInv, TypeOK, Returned
<1>8. WhereInv'
  BY <1>2, <1>3, <1>6 DEF IInv, WhereInv, Errnos, Unfinished
<1>9. BufferInv'
  BY <1>4 DEF BufferInv
<1> QED
  BY <1>5, <1>7, <1>8, <1>9, KernelKeepsHistory DEF IInv

-----------------------------------------------------------------------------
(***************************************************************************)
(* The invariant                                                           *)
(***************************************************************************)
LEMMA InitInv == Init => IInv
<1> SUFFICES ASSUME Init PROVE IInv
  OBVIOUS
<1>1. Notice("NO_RESPONSE_BLOCK_FOR_REQUEST") \in Message
  BY NoticeType, OpsDiffer
<1>2. Zero \in Values /\ NotInIoctl # Entering /\ NotInIoctl # Returned("0")
  BY DEF Values, NotInIoctl, Entering, Returned
<1>3. bio \in [Bio -> BioRecord]
  BY <1>2 DEF Init, KernelInit, BioRecord, Kinds, Segments
<1>4. backup.Operation \in UserOps
  BY OpsDiffer DEF Init, Notice
<1>5. TypeOK
  BY <1>1, <1>2, <1>3, <1>4, BoundAssumption DEF Init, KernelInit, TypeOK, NotInIoctl
<1>6. WhereInv /\ BackupInv /\ BufferInv /\ ValueInv
  BY <1>2 DEF Init, KernelInit, WhereInv, BackupInv, BufferInv, ValueInv
<1> QED
  BY <1>5, <1>6 DEF IInv

\* The steps of the handler that lead to a call that blocks for a request.
LEMMA BlockingSteps ==
  ASSUME Open \/ RetryBlock \/ OtherResponseFails \/ SwitchBlocks \/ SwitchRejects
           \/ (DeviceGone /\ site = "switch")
  PROVE  /\ storage_unchanged
         /\ \E from \in {"first", "switch", "bottom"} : Block_for_request(from)
BY DEF Open, RetryBlock, Blocking, OtherResponseFails, SwitchBlocks, SwitchRejects, DeviceGone

\* The steps that end Run.
LEMMA StoppingSteps ==
  ASSUME ReadResponseFails \/ SwitchExits \/ (DeviceGone /\ site # "switch")
  PROVE  storage_unchanged /\ \E how \in {"exited", "panicked"} : Stop(how)
BY DEF ReadResponseFails, SwitchExits, DeviceGone

LEMMA HandlerKeepsInv ==
  ASSUME IInv, HandlerNext
  PROVE  IInv'
<1>1. CASE Open \/ RetryBlock \/ OtherResponseFails \/ SwitchBlocks \/ SwitchRejects
             \/ (DeviceGone /\ site = "switch")
  BY <1>1, BlockingSteps, BlockKeepsInv
<1>2. CASE ReadResponseFails \/ SwitchExits \/ (DeviceGone /\ site # "switch")
  BY <1>2, StoppingSteps, StopKeepsInv
<1>3. CASE OpenFails
  BY <1>3, OpenFailsKeepsInv
<1>4. CASE RetryIoctl
  BY <1>4, RetryIoctlKeepsInv
<1>5. CASE GotRequest
  BY <1>5, GotRequestKeepsInv
<1>6. CASE \E kind \in Kinds : SwitchServes(kind) \/ Serve(kind)
  BY <1>6, SwitchServesKeepsInv, ServeKeepsInv
<1> QED
  BY <1>1, <1>2, <1>3, <1>4, <1>5, <1>6 DEF HandlerNext

LEMMA KernelKeepsInv ==
  ASSUME IInv, KernelNext, UNCHANGED hvars
  PROVE  IInv'
<1>1. CASE \E b \in Bio : IssueBio(b) \/ TimeoutBio(b)
  BY <1>1, BlockLayerKeepsInv
<1>2. CASE RequestDestroy \/ Destroy
  BY <1>2, RequestDestroyKeepsInv, DestroyKeepsInv
<1>3. CASE KernelIoctl
  BY <1>3, AcceptKeepsInv, FailureKeepsInv, DeliverKeepsInv, NoticeKeepsInv DEF KernelIoctl
<1> QED
  BY <1>1, <1>2, <1>3 DEF KernelNext

LEMMA StutterKeepsInv ==
  ASSUME IInv, UNCHANGED vars
  PROVE  IInv'
<1>1. UNCHANGED <<device, bio, after, ioctl, kernelbuffer, signals, refusals,
                  pc, site, backup, disk, applied, value>>
  BY DEF vars, kvars, hvars
<1>2. TypeOK' /\ WhereInv'
  BY <1>1 DEF IInv, TypeOK, WhereInv, Unfinished
<1>3. BackupInv'
  BY <1>1 DEF IInv, BackupInv, Reports, Answers, HandedOver
<1>4. BufferInv' /\ ValueInv'
  BY <1>1 DEF IInv, BufferInv, ValueInv, HandedOver, Request
<1> QED
  BY <1>2, <1>3, <1>4 DEF IInv

LEMMA StepKeepsInv == IInv /\ [Next]_vars => IInv'
BY HandlerKeepsInv, KernelKeepsInv, StutterKeepsInv DEF Next

LEMMA Invariant == Spec => []IInv
BY InitInv, StepKeepsInv, PTL DEF Spec

\* Every variable of the handler and of the kernel keeps its type; what the
\* handler submits to the ioctl is always an operation of userspace.
THEOREM TypeCorrect == Spec => []TypeOK
<1>1. IInv => TypeOK
  BY DEF IInv
<1> QED
  BY <1>1, Invariant, PTL

\* Whatever goes into the kernel, the first time or again after a signal, is
\* what the handler backed up, and an answer is one to a bio the kernel
\* handed over, of its kind, with success only for what the storage did: for
\* any bios, signals and refusals, although every retry starts from a buffer
\* the kernel may have overwritten.
THEOREM AnswersAreRight == Spec => []AnswersMatchRequests
<1>1. IInv => AnswersMatchRequests
  <2> SUFFICES ASSUME IInv, ioctl = Entering PROVE AnswersMatchRequests
    BY DEF AnswersMatchRequests
  <2>1. kernelbuffer = backup /\ pc = "ioctl"
    BY DEF IInv, WhereInv, Entering, NotInIoctl
  <2>2. backup.Operation \in UserOps
    BY DEF IInv, TypeOK
  <2> QED
    BY <2>1, <2>2 DEF IInv, BackupInv, Reports, HandedOver, AnswersMatchRequests
<1> QED
  BY <1>1, Invariant, PTL

-----------------------------------------------------------------------------
(***************************************************************************)
(* Nothing is forgotten                                                    *)
(***************************************************************************)
\* A bio that userspace was given, and can serve, and has not answered.
Waits(b) == bio[b].status = "taken" /\ Serves(bio[b].kind, bio[b].segments)

LEMMA LostIsNotInHand == \A b \in Bio : Lost(b) <=> Waits(b) /\ ~InHand(b)
BY DEF Lost, Waits

\* The bios that are lost.  Every failure of the kernel adds one at most.
LostBios == {b \in Bio : Lost(b)}

FewLost == IsFiniteSet(LostBios) /\ Cardinality(LostBios) <= refusals

\* A bio that waits can be in hand only while the handler has its request,
\* and in the ioctl that takes its answer: not before the first call, while
\* the call blocks, or after one that failed.
LEMMA WaitsInHand ==
  ASSUME IInv, NEW b \in Bio, Waits(b), InHand(b)
  PROVE  /\ pc \in {"dispatch", "storage", "ioctl"} /\ device # "gone"
         /\ pc = "ioctl" => ioctl \in {Entering, Returned("0"), Returned("EINTR")}
         /\ pc = "dispatch" => /\ kernelbuffer = Request(b)
                               /\ kernelbuffer.Operation \notin NoticeOps
                               /\ Asks(bio[b].kind)
<1>2. pc \in {"dispatch", "storage", "ioctl"}
      /\ (pc = "ioctl" => ioctl \in {Entering, Returned("0"), Returned("EINTR")})
  BY DEF InHand
<1>3. device # "gone"
  BY DEF Waits, IInv, WhereInv, Unfinished
<1>4. ASSUME pc = "dispatch"
      PROVE  kernelbuffer = Request(b) /\ kernelbuffer.Operation \notin NoticeOps /\ Asks(bio[b].kind)
  <2>1. kernelbuffer.Operation_id = b /\ b # NoBio
    BY <1>4, NoBioAssumption DEF InHand
  <2>2. PICK c \in Bio : kernelbuffer = Request(c)
    BY <1>4, <2>1 DEF IInv, BufferInv
  <2>3. c = b
    BY <2>1, <2>2 DEF Request
  <2>4. kernelbuffer.Operation = RequestOp[bio[b].kind] /\ bio[b].kind \in Kinds
    BY <2>2, <2>3 DEF Request, IInv, TypeOK, BioRecord
  <2> QED
    BY <1>4, <2>2, <2>3, <2>4, OpsDiffer DEF Asks
<1> QED
  BY <1>2, <1>3, <1>4

\* So whatever blocks or ends Run drops nothing.
LEMMA BlockingDropsNothing ==
  ASSUME IInv, NEW b \in Bio, Waits(b), InHand(b)
  PROVE  /\ ~Open /\ ~OpenFails /\ ~RetryBlock /\ ~DeviceGone
         /\ ~ReadResponseFails /\ ~OtherResponseFails
         /\ ~SwitchBlocks /\ ~SwitchExits /\ ~SwitchRejects
<1>1. ~Open /\ ~OpenFails
  BY WaitsInHand DEF Open, OpenFails
<1>2. ASSUME Returns({"ENOENT", "EINVAL"}) PROVE FALSE
  <2>1. ioctl \in {Entering, Returned("0"), Returned("EINTR")}
    BY <1>2, WaitsInHand DEF Returns
  <2> QED
    BY <1>2, <2>1 DEF Returns, Entering, Returned
<1>3. ~RetryBlock /\ ~DeviceGone /\ ~ReadResponseFails /\ ~OtherResponseFails
  BY <1>2 DEF RetryBlock, DeviceGone, ReadResponseFails, OtherResponseFails, Returns
<1>4. ASSUME pc = "dispatch", kernelbuffer.Operation \in NoticeOps PROVE FALSE
  BY <1>4, WaitsInHand
<1>5. ~SwitchBlocks /\ ~SwitchExits
  BY <1>4 DEF SwitchBlocks, SwitchExits, NoticeOps
<1>6. ~SwitchRejects
  <2>1. ASSUME pc = "dispatch", kernelbuffer.Operation \notin KernelOps PROVE FALSE
    <3>1. bio[b].kind \in Kinds /\ kernelbuffer.Operation = RequestOp[bio[b].kind]
      BY <2>1, WaitsInHand DEF Asks, IInv, TypeOK, BioRecord
    <3> QED
      BY <2>1, <3>1, OpsDiffer
  <2>2. ASSUME NEW kind \in Kinds, Asks(kind), ~Serves(kind, kernelbuffer.segments) PROVE FALSE
    <3>1. kernelbuffer = Request(b) /\ kernelbuffer.Operation = RequestOp[bio[b].kind]
      BY <2>2, WaitsInHand DEF Asks
    <3>2. bio[b].kind = kind
      BY <2>2, <3>1, OpsDiffer DEF Asks, IInv, TypeOK, BioRecord
    <3>3. kernelbuffer.segments = bio[b].segments
      BY <3>1 DEF Request
    <3> QED
      BY <2>2, <3>2, <3>3 DEF Waits
  <2> QED
    BY <2>1, <2>2 DEF SwitchRejects
<1> QED
  BY <1>1, <1>3, <1>5, <1>6

\* A request that is being served stays in hand until its answer is on its way.
LEMMA ServingKeepsInHand ==
  ASSUME IInv, NEW b \in Bio, InHand(b),
         RetryIoctl \/ GotRequest \/ \E kind \in Kinds : SwitchServes(kind) \/ Serve(kind)
  PROVE  InHand(b)'
<1>1. CASE RetryIoctl
  <2>1. /\ pc = "ioctl" /\ pc' = "ioctl" /\ ioctl = Returned("EINTR") /\ ioctl' = Entering
        /\ UNCHANGED <<backup, bio>>
    BY <1>1 DEF RetryIoctl
  <2>2. Answers(backup, b)
    BY <2>1 DEF InHand, Returned
  <2> QED
    BY <2>1, <2>2 DEF InHand, Answers
<1>2. CASE GotRequest
  <2>1. /\ pc = "ioctl" /\ ioctl.state = "returned" /\ ioctl.errno = "0"
        /\ pc' = "dispatch" /\ kernelbuffer' = kernelbuffer
    BY <1>2 DEF GotRequest, Returns
  <2>2. kernelbuffer.Operation_id = b
    BY <2>1 DEF InHand, Entering, Returned
  <2> QED
    BY <2>1, <2>2 DEF InHand
<1>3. ASSUME NEW kind \in Kinds, SwitchServes(kind) PROVE InHand(b)'
  BY <1>3 DEF SwitchServes, Asks, kvars, InHand
<1>4. ASSUME NEW kind \in Kinds, Serve(kind) PROVE InHand(b)'
  <2>1. /\ pc = "storage" /\ kernelbuffer.Operation = RequestOp[kind]
        /\ \E failed \in BOOLEAN, found \in {disk, Zero} :
             Submit(Response(kind, failed, found), kind)
    BY <1>4 DEF Serve
  <2>2. kernelbuffer.Operation_id = b /\ bio[b].kind = kind
    BY <2>1, ServedBio DEF InHand
  <2>3. /\ pc' = "ioctl" /\ ioctl' = Entering /\ bio' = bio
        /\ \E failed \in BOOLEAN, found \in {disk, Zero} : backup' = Response(kind, failed, found)
    BY <2>1 DEF Submit
  <2>4. kernelbuffer \in Message
    BY DEF IInv, TypeOK
  <2>5. backup'.Operation = ResponseOp[kind] /\ backup'.Operation_id = b
    BY <2>2, <2>3, <2>4 DEF Response, Message
  <2> QED
    BY <2>2, <2>3, <2>5 DEF InHand, Answers
<1> QED
  BY <1>1, <1>2, <1>3, <1>4

\* So no step of the handler loses a bio.
LEMMA HandlerLosesNothing ==
  ASSUME IInv, HandlerNext
  PROVE  /\ refusals' \in {refusals, refusals + 1}
         /\ \A b \in Bio : Lost(b)' => Lost(b)
<1>1. bio' = bio /\ refusals' \in {refusals, refusals + 1}
  <2>1. CASE Open \/ RetryBlock \/ OtherResponseFails \/ SwitchBlocks \/ SwitchRejects
               \/ (DeviceGone /\ site = "switch")
    BY <2>1, BlockingSteps DEF Block_for_request, Submit
  <2>2. CASE ReadResponseFails \/ SwitchExits \/ (DeviceGone /\ site # "switch")
    BY <2>2, StoppingSteps DEF Stop
  <2>3. CASE OpenFails
    BY <2>3 DEF OpenFails
  <2>4. CASE RetryIoctl \/ GotRequest
    BY <2>4 DEF RetryIoctl, GotRequest
  <2>5. ASSUME NEW kind \in Kinds, SwitchServes(kind) \/ Serve(kind)
        PROVE  bio' = bio /\ refusals' = refusals
    BY <2>5 DEF SwitchServes, Serve, Submit, kvars
  <2> QED
    BY <2>1, <2>2, <2>3, <2>4, <2>5 DEF HandlerNext
<1> SUFFICES ASSUME NEW b \in Bio, Lost(b)', ~Lost(b)
             PROVE  FALSE
  BY <1>1
<1>2. Waits(b) /\ ~InHand(b)'
  BY <1>1 DEF Lost, Waits
<1>3. InHand(b)
  BY <1>2 DEF Lost, Waits
<1>4. RetryIoctl \/ GotRequest \/ \E kind \in Kinds : SwitchServes(kind) \/ Serve(kind)
  BY <1>2, <1>3, BlockingDropsNothing DEF HandlerNext
<1> QED
  BY <1>2, <1>3, <1>4, ServingKeepsInHand

\* An answer the kernel takes is to the bio in hand, which no longer waits.
LEMMA AcceptLosesNothing ==
  ASSUME IInv, Accept, NEW b \in Bio, Lost(b)'
  PROVE  Lost(b)
<1> SUFFICES ASSUME ~Lost(b) PROVE FALSE
  OBVIOUS
<1>1. ioctl = Entering /\ Waits(b)'
  BY DEF Accept, Lost, Waits
<1>2. /\ pc = "ioctl" /\ kernelbuffer = backup /\ backup.Operation \in UserOps
      /\ device = "gone" => ~Unfinished(b)
  BY <1>1 DEF IInv, WhereInv, TypeOK, Entering, NotInIoctl
<1>3. CASE bio' = bio
  <2>1. Waits(b) /\ InHand(b)
    BY <1>1, <1>3 DEF Waits, Lost
  <2>2. Answers(backup, b) /\ device # "gone"
    BY <1>1, <1>2, <2>1 DEF InHand, Entering, Returned, Waits, Unfinished
  <2>3. Complete(kernelbuffer) /\ kernelbuffer.Operation_id = b
    BY <1>2, <2>2 DEF Accept, Answers
  <2>4. bio'[b].status # "taken"
    BY <2>3, CompleteKeepsBios DEF IInv, TypeOK
  <2> QED
    BY <1>1, <2>4 DEF Waits
<1>4. CASE Complete(kernelbuffer)
  <2>1. bio'[b] = bio[b] /\ b # kernelbuffer.Operation_id
    BY <1>1, <1>4, CompleteKeepsBios DEF Waits, IInv, TypeOK
  <2>2. Waits(b) /\ InHand(b)
    BY <1>1, <2>1 DEF Waits, Lost
  <2>3. Answers(backup, b)
    BY <1>1, <1>2, <2>2 DEF InHand, Entering, Returned
  <2> QED
    BY <1>2, <2>1, <2>3 DEF Answers
<1> QED
  BY <1>3, <1>4 DEF Accept

\* A request the kernel hands over is in hand from then on.
LEMMA DeliverLosesNothing ==
  ASSUME IInv, NEW d \in Bio, Deliver(d), UNCHANGED hvars, NEW b \in Bio, Lost(b)'
  PROVE  Lost(b)
<1>1. /\ ioctl = Blocked /\ ioctl' = Returned("0") /\ pc' = pc
      /\ kernelbuffer' = Request(d) /\ bio' = [bio EXCEPT ![d].status = "taken"]
  BY DEF Deliver, hvars
<1>2. pc = "ioctl"
  BY <1>1 DEF IInv, WhereInv, Blocked, NotInIoctl
<1>3. b # d
  BY <1>1, <1>2 DEF Lost, InHand, Request
<1>4. Waits(b)
  BY <1>1, <1>3 DEF Lost, Waits, IInv, TypeOK
<1>5. ~InHand(b)
  BY <1>1, <1>2, <1>4, WaitsInHand DEF Blocked, Entering, Returned
<1> QED
  BY <1>4, <1>5 DEF Lost, Waits

\* A call that fails loses the bio it answers, and no other.
LEMMA RefuseLosesOne ==
  ASSUME IInv, Refuse, UNCHANGED hvars, NEW b \in Bio, Lost(b)'
  PROVE  Lost(b) \/ b = backup.Operation_id
<1>1. ioctl = Entering /\ bio' = bio
  BY DEF Refuse
<1>2. pc = "ioctl"
  BY <1>1 DEF IInv, WhereInv, Entering, NotInIoctl
<1>3. InHand(b) => b = backup.Operation_id
  BY <1>1, <1>2 DEF InHand, Answers, Entering, Returned
<1> QED
  BY <1>1, <1>3 DEF Lost

LEMMA KernelLosesOne ==
  ASSUME IInv, KernelNext, UNCHANGED hvars
  PROVE  \/ refusals' = refusals /\ \A b \in Bio : Lost(b)' => Lost(b)
         \/ /\ refusals' = refusals + 1
            /\ \A b \in Bio : Lost(b)' => Lost(b) \/ b = backup.Operation_id
<1> DEFINE NothingLost == \A b \in Bio : Lost(b)' => Lost(b)
<1>1. UNCHANGED <<pc, backup>> /\ bio \in [Bio -> BioRecord]
  BY DEF hvars, IInv, TypeOK
<1>2. ASSUME UNCHANGED <<ioctl, kernelbuffer>>,
             \A b \in Bio : bio'[b].status = "taken" =>
               bio[b].status = "taken" /\ bio'[b].kind = bio[b].kind
                 /\ bio'[b].segments = bio[b].segments
      PROVE  NothingLost
  <2> SUFFICES ASSUME NEW b \in Bio, Lost(b)' PROVE Lost(b)
    OBVIOUS
  <2>1. Waits(b) /\ bio'[b].kind = bio[b].kind
    BY <1>2 DEF Lost, Waits
  <2>2. InHand(b) => InHand(b)'
    BY <1>1, <1>2, <2>1 DEF InHand, Answers
  <2> QED
    BY <2>1, <2>2 DEF Lost, Waits
<1>3. ASSUME NEW b \in Bio, IssueBio(b) \/ TimeoutBio(b)
      PROVE  NothingLost /\ refusals' = refusals
  <2>1. UNCHANGED <<ioctl, kernelbuffer, refusals>>
    BY <1>3 DEF IssueBio, TimeoutBio
  <2>2. \A d \in Bio : d # b => bio'[d] = bio[d]
    BY <1>1, <1>3 DEF IssueBio, TimeoutBio
  <2>3. bio'[b].status # "taken"
    <3>1. bio[b] \in BioRecord
      BY <1>1
    <3>2. CASE TimeoutBio(b)
      BY <1>1, <3>1, <3>2 DEF TimeoutBio, BioRecord
    <3>3. CASE IssueBio(b)
      BY <1>1, <3>1, <3>3 DEF IssueBio, BioRecord
    <3> QED
      BY <1>3, <3>2, <3>3
  <2> QED
    BY <1>2, <2>1, <2>2, <2>3
<1>4. ASSUME RequestDestroy \/ Destroy PROVE NothingLost /\ refusals' = refusals
  <2>1. UNCHANGED <<ioctl, kernelbuffer, refusals>>
    BY <1>4 DEF RequestDestroy, Destroy
  <2>2. ASSUME NEW b \in Bio PROVE bio'[b].status = "taken" => bio'[b] = bio[b]
    <3>1. CASE RequestDestroy
      BY <3>1 DEF RequestDestroy
    <3>2. CASE Destroy /\ Unfinished(b)
      <4>1. bio[b] \in BioRecord /\ bio'[b] = [bio[b] EXCEPT !.status = "done", !.result = "error"]
        BY <1>1, <3>2 DEF Destroy
      <4> QED
        BY <4>1 DEF BioRecord
    <3>3. CASE Destroy /\ ~Unfinished(b)
      BY <3>3 DEF Destroy
    <3> QED
      BY <1>4, <3>1, <3>2, <3>3
  <2> QED
    BY <1>2, <2>1, <2>2
<1>5. ASSUME Accept PROVE NothingLost /\ refusals' = refusals
  BY <1>5, AcceptLosesNothing DEF Accept
<1>6. ASSUME NEW d \in Bio, Deliver(d) PROVE NothingLost /\ refusals' = refusals
  BY <1>6, DeliverLosesNothing DEF Deliver
<1>7. ASSUME DeliverExit \/ FindGone \/ Interrupt PROVE NothingLost /\ refusals' = refusals
  <2> SUFFICES ASSUME NEW b \in Bio, Lost(b)', ~Lost(b) PROVE FALSE
    BY <1>7 DEF DeliverExit, FindGone, Interrupt
  <2>1. bio' = bio /\ Waits(b) /\ ioctl \in {Entering, Blocked}
    BY <1>7 DEF DeliverExit, FindGone, Interrupt, Lost, Waits
  <2>2. pc = "ioctl" /\ InHand(b) /\ ~InHand(b)'
    BY <2>1 DEF IInv, WhereInv, Entering, Blocked, NotInIoctl, Lost, Waits
  <2>3. ioctl = Entering
    BY <2>1, <2>2, WaitsInHand DEF Blocked, Entering, Returned
  <2>4. ioctl' = Returned("EINTR")
    BY <1>7, <2>3 DEF DeliverExit, FindGone, Interrupt, Entering, Blocked
  <2>5. Answers(backup, b)
    BY <2>2, <2>3 DEF InHand, Entering, Returned
  <2> QED
    BY <1>1, <2>1, <2>2, <2>4, <2>5 DEF InHand, Answers
<1>8. ASSUME DeliverOther PROVE NothingLost /\ refusals' = refusals + 1
  <2>1. bio' = bio /\ ioctl = Blocked /\ pc = "ioctl"
    BY <1>8 DEF DeliverOther, IInv, WhereInv, Blocked, NotInIoctl
  <2>2. \A b \in Bio : Waits(b) => ~InHand(b)
    BY <2>1, WaitsInHand DEF Blocked, Entering, Returned
  <2> QED
    BY <1>8, <2>1, <2>2 DEF DeliverOther, Lost, Waits
<1>9. ASSUME Refuse
      PROVE  /\ refusals' = refusals + 1
             /\ \A b \in Bio : Lost(b)' => Lost(b) \/ b = backup.Operation_id
  BY <1>9, RefuseLosesOne DEF Refuse
<1> QED
  BY <1>3, <1>4, <1>5, <1>6, <1>7, <1>8, <1>9 DEF KernelNext, KernelIoctl

\* One more bio at most, and only with one more failure.
LEMMA FewLostStep == IInv /\ FewLost /\ [Next]_vars => FewLost'
<1> SUFFICES ASSUME IInv, FewLost, [Next]_vars PROVE FewLost'
  OBVIOUS
<1>1. refusals \in Nat /\ IsFiniteSet(LostBios) /\ Cardinality(LostBios) <= refusals
  BY BoundAssumption DEF IInv, TypeOK, FewLost
<1>2. Cardinality(LostBios) \in Nat
  BY <1>1, FS_CardinalityType
<1>3. ASSUME \A b \in Bio : Lost(b)' => Lost(b), refusals' \in {refusals, refusals + 1}
      PROVE  FewLost'
  <2>1. LostBios' \subseteq LostBios
    BY <1>3 DEF LostBios
  <2>2. /\ IsFiniteSet(LostBios') /\ Cardinality(LostBios') \in Nat
        /\ Cardinality(LostBios') <= Cardinality(LostBios)
    BY <1>1, <2>1, FS_Subset, FS_CardinalityType
  <2> QED
    BY <1>1, <1>2, <1>3, <2>2 DEF FewLost
<1>4. ASSUME NEW c, \A b \in Bio : Lost(b)' => Lost(b) \/ b = c, refusals' = refusals + 1
      PROVE  FewLost'
  <2>1. LostBios' \subseteq LostBios \union {c}
    BY <1>4 DEF LostBios
  <2> DEFINE n == Cardinality(LostBios)
  <2>2. /\ IsFiniteSet(LostBios \union {c})
        /\ Cardinality(LostBios \union {c}) = IF c \in LostBios THEN n ELSE n + 1
    BY <1>1, FS_AddElement, Zenon
  <2>3. /\ IsFiniteSet(LostBios \union {c})
        /\ Cardinality(LostBios \union {c}) <= n + 1
    BY <1>2, <2>2
  <2>4. /\ IsFiniteSet(LostBios')
        /\ Cardinality(LostBios') <= Cardinality(LostBios \union {c})
    BY <2>1, <2>3, FS_Subset
  <2>5. Cardinality(LostBios') \in Nat /\ Cardinality(LostBios \union {c}) \in Nat
    BY <2>3, <2>4, FS_CardinalityType
  <2> QED
    BY <1>1, <1>2, <1>4, <2>3, <2>4, <2>5 DEF FewLost
<1>5. CASE UNCHANGED vars
  <2>1. \A b \in Bio : Lost(b)' => Lost(b)
    BY <1>5 DEF vars, kvars, hvars, Lost, InHand, Answers, Returned, Entering
  <2> QED
    BY <1>3, <1>5, <2>1 DEF vars, kvars
<1>6. CASE HandlerNext
  BY <1>3, <1>6, HandlerLosesNothing
<1>7. CASE KernelNext /\ UNCHANGED hvars
  BY <1>3, <1>4, <1>7, KernelLosesOne
<1> QED
  BY <1>5, <1>6, <1>7 DEF Next

\* For any number of bios, signals and failures, a bio that was handed over
\* and that the handler can serve is in hand until it is answered, but for one
\* bio at most for each failure of the kernel: none of the five branches that
\* block for the next request is taken with a request that could be served.
THEOREM NothingIsForgotten == Spec => []NothingForgotten
<1>1. Init => FewLost
  <2> SUFFICES ASSUME Init PROVE FewLost
    OBVIOUS
  <2>1. LostBios = {} /\ refusals = 0
    BY DEF Init, KernelInit, LostBios, Lost
  <2> QED
    BY <2>1, FS_EmptySet DEF FewLost
<1>2. FewLost => NothingForgotten
  BY DEF FewLost, LostBios, NothingForgotten
<1> QED
  BY <1>1, <1>2, Invariant, FewLostStep, PTL DEF Spec

-----------------------------------------------------------------------------
(***************************************************************************)
(* The handler implements BlockDevice                                      *)
(***************************************************************************)
\* A request is in the buffer, and userspace has not answered it yet.
HasRequest == pc \in {"dispatch", "storage"} \/ ioctl = Returned("0")

\* What has happened to each bio: it was issued after bios that are still
\* done, only a bio that was handed over has taken effect, and only a bio that
\* is done has got data.
HistoryInv ==
  \A b \in Bio :
    /\ after[b] \subseteq Finished
    /\ applied[b] => HandedOver(b)
    /\ bio[b].status # "done" => bio[b].data = Zero

\* The request in the buffer has not taken effect, and nothing issued since
\* it was given up has.
FreshInv ==
  \A b \in Bio :
    HasRequest /\ kernelbuffer.Operation_id = b =>
      ~applied[b] /\ \A d \in Bio : applied[d] => b \notin after[d]

\* The storage is called for requests the Respond functions accept; a call
\* that only blocks for a request answers no bio.
AcceptedInv ==
  /\ \A kind \in Kinds :
       pc = "storage" /\ kernelbuffer.Operation = RequestOp[kind] =>
         Serves(kind, kernelbuffer.segments)
  /\ backup.Operation = "NO_RESPONSE_BLOCK_FOR_REQUEST" => backup.Operation_id = NoBio

DeviceInv == IInv /\ HistoryInv /\ FreshInv /\ AcceptedInv

LEMMA InitDeviceInv == Init => HistoryInv /\ FreshInv /\ AcceptedInv
<1> SUFFICES ASSUME Init PROVE HistoryInv /\ FreshInv /\ AcceptedInv
  OBVIOUS
<1>1. HistoryInv
  BY DEF Init, KernelInit, HistoryInv
<1>2. FreshInv /\ AcceptedInv
  BY DEF Init, KernelInit, FreshInv, AcceptedInv, HasRequest, NotInIoctl, Returned, Notice
<1> QED
  BY <1>1, <1>2

\* A step of the handler that does not call the storage leaves the history
\* alone and brings no new request.
LEMMA HandlerKeepsHistory ==
  ASSUME DeviceInv, UNCHANGED <<bio, after, applied>>
  PROVE  HistoryInv'
BY DEF DeviceInv, HistoryInv, HandedOver, Finished

LEMMA BlockKeepsHistory ==
  ASSUME DeviceInv, NEW from \in {"first", "switch", "bottom"},
         Block_for_request(from), storage_unchanged
  PROVE  HistoryInv' /\ FreshInv' /\ AcceptedInv'
<1>1. /\ backup' = Notice("NO_RESPONSE_BLOCK_FOR_REQUEST")
      /\ ioctl' = Entering /\ pc' = "ioctl"
      /\ UNCHANGED <<bio, after, applied>>
  BY DEF Block_for_request, Submit, storage_unchanged
<1>2. Entering # Returned("0")
  BY DEF Entering, Returned
<1>3. HistoryInv'
  BY <1>1, HandlerKeepsHistory
<1>4. FreshInv' /\ AcceptedInv'
  BY <1>1, <1>2 DEF FreshInv, HasRequest, AcceptedInv, Notice
<1> QED
  BY <1>3, <1>4

LEMMA StopKeepsHistory ==
  ASSUME DeviceInv, NEW how \in {"exited", "panicked"}, Stop(how), storage_unchanged
  PROVE  HistoryInv' /\ FreshInv' /\ AcceptedInv'
<1>1. /\ backup' = backup /\ ioctl' = NotInIoctl /\ pc' = how
      /\ UNCHANGED <<bio, after, applied>>
  BY DEF Stop, storage_unchanged
<1>2. NotInIoctl # Returned("0")
  BY DEF NotInIoctl, Returned
<1>3. HistoryInv'
  BY <1>1, HandlerKeepsHistory
<1>4. FreshInv' /\ AcceptedInv'
  BY <1>1, <1>2 DEF DeviceInv, FreshInv, HasRequest, AcceptedInv
<1> QED
  BY <1>3, <1>4

\* The answer of the storage: from then on the request has been answered.
LEMMA ServeKeepsHistory ==
  ASSUME DeviceInv, NEW kind \in Kinds, Serve(kind)
  PROVE  HistoryInv' /\ FreshInv' /\ AcceptedInv'
<1> DEFINE b == kernelbuffer.Operation_id
<1>1. /\ pc = "storage" /\ kernelbuffer.Operation = RequestOp[kind]
      /\ Apply(kind, b) \/ storage_unchanged
      /\ \E failed \in BOOLEAN, found \in {disk, Zero} :
           Submit(Response(kind, failed, found), kind)
  BY DEF Serve
<1>2. b \in Bio /\ HandedOver(b)
  BY <1>1, ServedBio DEF DeviceInv
<1>3. /\ ioctl' = Entering /\ pc' = "ioctl" /\ UNCHANGED <<bio, after>>
      /\ \E failed \in BOOLEAN, found \in {disk, Zero} : backup' = Response(kind, failed, found)
  BY <1>1 DEF Submit
<1>4. kernelbuffer \in Message /\ applied \in [Bio -> BOOLEAN]
  BY DEF DeviceInv, IInv, TypeOK
<1>5. backup'.Operation # "NO_RESPONSE_BLOCK_FOR_REQUEST"
  <2>1. backup'.Operation = ResponseOp[kind]
    BY <1>3, <1>4 DEF Response, Message
  <2> QED
    BY <2>1, OpsDiffer
<1>6. \A d \in Bio : applied'[d] => applied[d] \/ d = b
  BY <1>1, <1>2, <1>4 DEF Apply, storage_unchanged
<1>7. HistoryInv'
  BY <1>2, <1>3, <1>6 DEF DeviceInv, HistoryInv, HandedOver, Finished
<1>8. Entering # Returned("0")
  BY DEF Entering, Returned
<1>9. FreshInv' /\ AcceptedInv'
  BY <1>3, <1>5, <1>8 DEF FreshInv, HasRequest, AcceptedInv
<1> QED
  BY <1>7, <1>9

LEMMA HandlerKeepsDeviceInv ==
  ASSUME DeviceInv, HandlerNext
  PROVE  HistoryInv' /\ FreshInv' /\ AcceptedInv'
<1>1. CASE Open \/ RetryBlock \/ OtherResponseFails \/ SwitchBlocks \/ SwitchRejects
             \/ (DeviceGone /\ site = "switch")
  BY <1>1, BlockingSteps, BlockKeepsHistory
<1>2. CASE ReadResponseFails \/ SwitchExits \/ (DeviceGone /\ site # "switch")
  BY <1>2, StoppingSteps, StopKeepsHistory
<1>3. CASE OpenFails
  <2>1. /\ pc' = "exited" /\ UNCHANGED <<bio, after, applied, ioctl, backup, kernelbuffer>>
        /\ ioctl = NotInIoctl
    BY <1>3 DEF OpenFails, storage_unchanged, DeviceInv, IInv, WhereInv
  <2>2. NotInIoctl # Returned("0")
    BY DEF NotInIoctl, Returned
  <2>3. HistoryInv'
    BY <2>1, HandlerKeepsHistory
  <2>4. FreshInv' /\ AcceptedInv'
    BY <2>1, <2>2 DEF DeviceInv, FreshInv, HasRequest, AcceptedInv
  <2> QED
    BY <2>3, <2>4
<1>4. CASE RetryIoctl
  <2>1. pc' = "ioctl" /\ ioctl' = Entering /\ UNCHANGED <<bio, after, applied, backup>>
    BY <1>4 DEF RetryIoctl, storage_unchanged
  <2>2. Entering # Returned("0")
    BY DEF Entering, Returned
  <2>3. HistoryInv'
    BY <2>1, HandlerKeepsHistory
  <2>4. FreshInv' /\ AcceptedInv'
    BY <2>1, <2>2 DEF DeviceInv, FreshInv, HasRequest, AcceptedInv
  <2> QED
    BY <2>3, <2>4
<1>5. CASE GotRequest
  <2>1. /\ pc = "ioctl" /\ ioctl.state = "returned" /\ ioctl.errno = "0" /\ pc' = "dispatch"
        /\ UNCHANGED <<bio, after, applied, backup, kernelbuffer>>
    BY <1>5 DEF GotRequest, Returns, storage_unchanged
  <2>2. ioctl = Returned("0")
    BY <2>1 DEF DeviceInv, IInv, WhereInv, Errnos, Entering, Blocked, NotInIoctl, Returned
  <2>3. HistoryInv'
    BY <2>1, HandlerKeepsHistory
  <2>4. FreshInv' /\ AcceptedInv'
    BY <2>1, <2>2 DEF DeviceInv, FreshInv, HasRequest, AcceptedInv
  <2> QED
    BY <2>3, <2>4
<1>6. ASSUME NEW kind \in Kinds, SwitchServes(kind)
      PROVE  HistoryInv' /\ FreshInv' /\ AcceptedInv'
  <2>1. /\ pc = "dispatch" /\ pc' = "storage" /\ kernelbuffer.Operation = RequestOp[kind]
        /\ Serves(kind, kernelbuffer.segments)
        /\ UNCHANGED <<bio, after, applied, backup, kernelbuffer, ioctl>>
    BY <1>6 DEF SwitchServes, Asks, storage_unchanged, kvars
  <2>2. HistoryInv'
    BY <2>1, HandlerKeepsHistory
  <2>3. \A other \in Kinds : RequestOp[other] = RequestOp[kind] => other = kind
    BY OpsDiffer
  <2>4. AcceptedInv'
    BY <2>1, <2>3 DEF DeviceInv, AcceptedInv, Serves
  <2>5. FreshInv'
    BY <2>1 DEF DeviceInv, FreshInv, HasRequest
  <2> QED
    BY <2>2, <2>4, <2>5
<1>7. CASE \E kind \in Kinds : Serve(kind)
  BY <1>7, ServeKeepsHistory
<1> QED
  BY <1>1, <1>2, <1>3, <1>4, <1>5, <1>6, <1>7 DEF HandlerNext

\* What a step that does not issue a bio may do to the bios.
BiosMove ==
  \A b \in Bio :
    /\ bio[b].status = "done" => bio'[b].status = "done"
    /\ HandedOver(b) => HandedOver(b)'
    /\ bio'[b].status # "done" => bio[b].status # "done" /\ bio'[b].data = bio[b].data

\* A step of the block layer, or of whoever destroys the device.
LEMMA BlockLayerKeepsHistory ==
  ASSUME DeviceInv, UNCHANGED <<hvars, kernelbuffer, ioctl>>,
         (\E b \in Bio : IssueBio(b) \/ TimeoutBio(b)) \/ RequestDestroy \/ Destroy
  PROVE  HistoryInv' /\ FreshInv' /\ AcceptedInv'
<1>1. UNCHANGED <<pc, applied, backup, kernelbuffer, ioctl>>
  BY DEF hvars
<1>2. AcceptedInv'
  BY <1>1 DEF DeviceInv, AcceptedInv, Serves
<1>3. bio \in [Bio -> BioRecord] /\ after \in [Bio -> SUBSET Bio]
  BY DEF DeviceInv, IInv, TypeOK
<1>4. ASSUME NEW b \in Bio, TimeoutBio(b) PROVE BiosMove /\ after' = after
  BY <1>3, <1>4 DEF TimeoutBio, BiosMove, HandedOver, Unfinished
<1>5. CASE RequestDestroy
  BY <1>1, <1>2, <1>5 DEF RequestDestroy, DeviceInv, HistoryInv, FreshInv, HasRequest,
                          HandedOver, Finished
<1>6. ASSUME Destroy PROVE BiosMove /\ after' = after
  <2>1. ASSUME NEW b \in Bio
        PROVE  bio'[b] = IF Unfinished(b)
                           THEN [bio[b] EXCEPT !.status = "done", !.result = "error"] ELSE bio[b]
    BY <1>6 DEF Destroy
  <2>2. ASSUME NEW b \in Bio
        PROVE  /\ bio[b].status = "done" => bio'[b].status = "done"
               /\ HandedOver(b) => HandedOver(b)'
               /\ bio'[b].status # "done" => bio[b].status # "done" /\ bio'[b].data = bio[b].data
    <3>1. bio[b] \in BioRecord
      BY <1>3
    <3>2. CASE Unfinished(b)
      BY <2>1, <3>1, <3>2 DEF HandedOver, BioRecord
    <3>3. CASE ~Unfinished(b)
      BY <2>1, <3>1, <3>3 DEF HandedOver, BioRecord, Unfinished
    <3> QED
      BY <3>2, <3>3
  <2> QED
    BY <1>6, <2>2 DEF Destroy, BiosMove
<1>7. ASSUME BiosMove, after' = after PROVE HistoryInv' /\ FreshInv'
  BY <1>1, <1>7 DEF DeviceInv, HistoryInv, FreshInv, HasRequest, BiosMove, Finished
<1>8. ASSUME NEW b \in Bio, IssueBio(b) PROVE HistoryInv' /\ FreshInv'
  <2>1. /\ bio[b].status = "new" /\ after' = [after EXCEPT ![b] = Finished]
        /\ \E shape \in Shapes :
             bio' = [bio EXCEPT ![b].status = "queued", ![b].kind = shape[1], ![b].segments = shape[2]]
    BY <1>8 DEF IssueBio
  <2>2. \A d \in Bio : d # b => bio'[d] = bio[d] /\ after'[d] = after[d]
    BY <1>3, <2>1
  <2>3. bio'[b].status = "queued" /\ bio'[b].data = bio[b].data /\ after'[b] = Finished
    BY <1>3, <2>1 DEF BioRecord
  <2>4. ~applied[b] /\ ~(bio[b].status = "done")
    BY <2>1 DEF DeviceInv, HistoryInv, HandedOver
  <2>5. Finished' = Finished
    BY <2>1, <2>2, <2>3 DEF Finished
  <2>6. HistoryInv'
    <3> SUFFICES ASSUME NEW d \in Bio
                 PROVE  /\ after'[d] \subseteq Finished'
                        /\ applied'[d] => HandedOver(d)'
                        /\ bio'[d].status # "done" => bio'[d].data = Zero
      BY DEF HistoryInv
    <3>1. /\ after[d] \subseteq Finished
          /\ applied[d] => HandedOver(d)
          /\ bio[d].status # "done" => bio[d].data = Zero
      BY DEF DeviceInv, HistoryInv
    <3>2. CASE d = b
      BY <1>1, <2>3, <2>4, <2>5, <3>1, <3>2
    <3>3. CASE d # b
      BY <1>1, <2>2, <2>5, <3>1, <3>3 DEF HandedOver
    <3> QED
      BY <3>2, <3>3
  <2>7. FreshInv'
    BY <1>1, <2>2, <2>4 DEF DeviceInv, FreshInv, HasRequest
  <2> QED
    BY <2>6, <2>7
<1> QED
  BY <1>2, <1>4, <1>5, <1>6, <1>7, <1>8

\* A step of the ioctl.
LEMMA IoctlKeepsHistory ==
  ASSUME DeviceInv, UNCHANGED hvars, KernelIoctl
  PROVE  HistoryInv' /\ FreshInv' /\ AcceptedInv'
<1>1. UNCHANGED <<pc, applied, backup>>
  BY DEF hvars
<1>2. ioctl \in {Entering, Blocked} /\ after' = after
  BY DEF KernelIoctl, Accept, Refuse, Deliver, DeliverExit, DeliverOther, FindGone, Interrupt
<1>3. pc = "ioctl"
  BY <1>2 DEF DeviceInv, IInv, WhereInv, Entering, Blocked, NotInIoctl
<1>4. AcceptedInv'
  BY <1>1, <1>3 DEF DeviceInv, AcceptedInv
<1>5. bio \in [Bio -> BioRecord] /\ kernelbuffer \in Message
  BY DEF DeviceInv, IInv, TypeOK
<1>6. BiosMove
  <2>1. CASE bio' = bio
    BY <2>1 DEF BiosMove, HandedOver
  <2>2. CASE Complete(kernelbuffer)
    <3> DEFINE b == kernelbuffer.Operation_id
    <3>1. CASE b \in Bio /\ bio[b].status = "taken"
      <4>1. PICK result, data :
              bio' = [bio EXCEPT ![b].status = "done", ![b].result = result, ![b].data = data]
        BY <2>2, <3>1 DEF Complete
      <4>2. bio'[b].status = "done" /\ \A d \in Bio : d # b => bio'[d] = bio[d]
        BY <1>5, <3>1, <4>1 DEF BioRecord
      <4> QED
        BY <3>1, <4>2 DEF BiosMove, HandedOver
    <3>2. CASE ~(b \in Bio /\ bio[b].status = "taken")
      BY <2>1, <2>2, <3>2 DEF Complete
    <3> QED
      BY <3>1, <3>2
  <2>3. ASSUME NEW b \in Bio, Deliver(b) PROVE BiosMove
    BY <1>5, <2>3 DEF Deliver, BiosMove, HandedOver, BioRecord
  <2> QED
    BY <2>1, <2>2, <2>3 DEF KernelIoctl, Accept, Refuse, DeliverExit, DeliverOther, FindGone, Interrupt
<1>7. HistoryInv'
  BY <1>1, <1>2, <1>6 DEF DeviceInv, HistoryInv, BiosMove, Finished
<1>8. FreshInv'
  <2>1. CASE Accept \/ Refuse \/ FindGone \/ Interrupt
    <3>1. ioctl' # Returned("0")
      BY <2>1 DEF Accept, Refuse, FindGone, Interrupt, Returned, Blocked
    <3> QED
      BY <1>1, <1>3, <3>1 DEF FreshInv, HasRequest
  <2>2. CASE DeliverExit \/ DeliverOther
    <3>1. kernelbuffer'.Operation_id = NoBio
      BY <2>2 DEF DeliverExit, DeliverOther, Notice
    <3> QED
      BY <3>1, NoBioAssumption DEF FreshInv
  <2>3. ASSUME NEW b \in Bio, Deliver(b) PROVE FreshInv'
    <3>1. kernelbuffer'.Operation_id = b /\ bio[b].status = "queued"
      BY <2>3 DEF Deliver, Request
    <3>2. ~applied[b] /\ \A d \in Bio : b \notin after[d]
      BY <3>1 DEF DeviceInv, HistoryInv, HandedOver, Finished
    <3> QED
      BY <1>1, <1>2, <3>1, <3>2 DEF FreshInv
  <2> QED
    BY <2>1, <2>2, <2>3 DEF KernelIoctl
<1> QED
  BY <1>4, <1>7, <1>8

LEMMA DeviceInvStep == DeviceInv /\ [Next]_vars => DeviceInv'
<1>1. ASSUME DeviceInv, UNCHANGED vars PROVE HistoryInv' /\ FreshInv' /\ AcceptedInv'
  BY <1>1 DEF vars, kvars, hvars, DeviceInv, HistoryInv, FreshInv, AcceptedInv, HasRequest,
              HandedOver, Finished, Serves
<1>2. ASSUME DeviceInv, KernelNext, UNCHANGED hvars PROVE HistoryInv' /\ FreshInv' /\ AcceptedInv'
  <2>1. CASE (\E b \in Bio : IssueBio(b) \/ TimeoutBio(b)) \/ RequestDestroy \/ Destroy
    <3>1. UNCHANGED <<hvars, kernelbuffer, ioctl>>
      BY <1>2, <2>1 DEF IssueBio, TimeoutBio, RequestDestroy, Destroy
    <3> QED
      BY <1>2, <2>1, <3>1, BlockLayerKeepsHistory
  <2>2. CASE KernelIoctl
    BY <1>2, <2>2, IoctlKeepsHistory
  <2> QED
    BY <1>2, <2>1, <2>2 DEF KernelNext
<1> QED
  BY <1>1, <1>2, HandlerKeepsDeviceInv, StepKeepsInv DEF Next, DeviceInv

-----------------------------------------------------------------------------
(***************************************************************************)
(* Every step is one of the device, or none that its users see             *)
(***************************************************************************)
\* What the users of the device see of a bio.
Status(b) == CASE bio[b].status = "new" -> "new"
               [] bio[b].status = "done" -> "done"
               [] OTHER -> "pending"
Effect(b) == IF bio[b].segments = "none" THEN "none" ELSE bio[b].kind

SeenSame(b) ==
  /\ Status(b)' = Status(b) /\ Effect(b)' = Effect(b)
  /\ bio'[b].data = bio[b].data /\ bio'[b].result = bio[b].result

LEMMA StepIsStutter ==
  ASSUME \A b \in Bio : SeenSame(b), UNCHANGED <<after, applied, value, disk>>
  PROVE  UNCHANGED Device!vars
<1>1. /\ [b \in Bio |-> Status(b)'] = [b \in Bio |-> Status(b)]
      /\ [b \in Bio |-> Effect(b)'] = [b \in Bio |-> Effect(b)]
      /\ [b \in Bio |-> bio'[b].data] = [b \in Bio |-> bio[b].data]
      /\ [b \in Bio |-> bio'[b].result] = [b \in Bio |-> bio[b].result]
  BY DEF SeenSame
<1> QED
  BY <1>1 DEF Device!vars, Status, Effect

LEMMA StepIsCompleteError ==
  ASSUME NEW failed \in SUBSET Bio, UNCHANGED <<after, applied, value, disk>>,
         \A b \in Bio : Effect(b)' = Effect(b) /\ bio'[b].data = bio[b].data,
         \A b \in failed : /\ Unfinished(b)
                           /\ bio'[b].status = "done" /\ bio'[b].result = "error",
         \A b \in Bio \ failed : SeenSame(b)
  PROVE  Device!CompleteError(failed)
<1>1. \A b \in failed : Status(b) = "pending" /\ Status(b)' = "done"
  BY DEF Status, Unfinished
<1>2. [b \in Bio |-> Status(b)'] = [b \in Bio |-> IF b \in failed THEN "done" ELSE Status(b)]
  BY <1>1 DEF SeenSame
<1>3. [b \in Bio |-> bio'[b].result] = [b \in Bio |-> IF b \in failed THEN "error" ELSE bio[b].result]
  BY DEF SeenSame
<1>4. /\ [b \in Bio |-> Effect(b)'] = [b \in Bio |-> Effect(b)]
      /\ [b \in Bio |-> bio'[b].data] = [b \in Bio |-> bio[b].data]
  OBVIOUS
<1> QED
  BY <1>1, <1>2, <1>3, <1>4 DEF Device!CompleteError, Status, Effect

\* How the status of a bio looks.
LEMMA StatusCases ==
  ASSUME NEW b \in Bio
  PROVE  /\ bio[b].status = "new" => Status(b) = "new"
         /\ bio[b].status = "done" => Status(b) = "done"
         /\ Unfinished(b) => Status(b) = "pending"
         /\ Status(b) = "done" => bio[b].status = "done"
<1>1. "new" # "done" /\ "pending" # "done"
  OBVIOUS
<1>2. CASE bio[b].status = "new"
  BY <1>1, <1>2 DEF Status, Unfinished
<1>3. CASE bio[b].status = "done"
  BY <1>1, <1>3 DEF Status, Unfinished
<1>4. CASE bio[b].status # "new" /\ bio[b].status # "done"
  BY <1>1, <1>4 DEF Status, Unfinished
<1> QED
  BY <1>2, <1>3, <1>4

LEMMA IssueIsIssue ==
  ASSUME DeviceInv, NEW b \in Bio, IssueBio(b), UNCHANGED hvars
  PROVE  Device!Issue(b)
<1>1. PICK shape \in Shapes :
        /\ bio[b].status = "new" /\ after' = [after EXCEPT ![b] = Finished]
        /\ bio' = [bio EXCEPT ![b].status = "queued", ![b].kind = shape[1], ![b].segments = shape[2]]
  BY DEF IssueBio
<1>2. bio \in [Bio -> BioRecord] /\ UNCHANGED <<applied, value, disk>>
  BY DEF DeviceInv, IInv, TypeOK, hvars
<1>3. \A d \in Bio : d # b => bio'[d] = bio[d]
  BY <1>1, <1>2
<1>4. /\ bio'[b].status = "queued" /\ bio'[b].kind = shape[1] /\ bio'[b].segments = shape[2]
      /\ bio'[b].data = bio[b].data /\ bio'[b].result = bio[b].result
  BY <1>1, <1>2 DEF BioRecord
<1>5. shape[1] \in Kinds
  BY ShapesAssumption DEF Kinds, Segments
<1> DEFINE e == IF shape[2] = "none" THEN "none" ELSE shape[1]
<1>6. e \in {"none", "read", "write", "discard"}
  BY <1>5 DEF Kinds
<1>7. Effect(b)' = e /\ Status(b)' = "pending" /\ Status(b) = "new"
  <2>1. Effect(b)' = e
    BY <1>4 DEF Effect
  <2>2. Status(b) = "new"
    BY <1>1, StatusCases
  <2>3. Status(b)' = "pending"
    BY <1>4 DEF Status
  <2> QED
    BY <2>1, <2>2, <2>3
<1>8. \A d \in Bio : d # b => Status(d)' = Status(d) /\ Effect(d)' = Effect(d)
  BY <1>3 DEF Status, Effect
<1>9. [d \in Bio |-> Status(d)'] = [[d \in Bio |-> Status(d)] EXCEPT ![b] = "pending"]
  BY <1>7, <1>8
<1>10. [d \in Bio |-> Effect(d)'] = [[d \in Bio |-> Effect(d)] EXCEPT ![b] = e]
  BY <1>7, <1>8
<1>11. /\ [d \in Bio |-> bio'[d].data] = [d \in Bio |-> bio[d].data]
       /\ [d \in Bio |-> bio'[d].result] = [d \in Bio |-> bio[d].result]
  BY <1>3, <1>4
<1>12. Finished = {d \in Bio : Status(d) = "done"}
  BY StatusCases DEF Finished
<1>13. Finished = {d \in Bio : [c \in Bio |-> Status(c)][d] = "done"}
  BY <1>12
<1>14. [d \in Bio |-> Status(d)][b] = "new"
  BY <1>7
<1> QED
  BY <1>1, <1>2, <1>6, <1>9, <1>10, <1>11, <1>13, <1>14, Zenon DEF Device!Issue, Status, Effect

LEMMA TimeoutIsCompleteError ==
  ASSUME DeviceInv, NEW b \in Bio, TimeoutBio(b), UNCHANGED hvars
  PROVE  Device!CompleteError({b})
<1>1. /\ Unfinished(b) /\ after' = after
      /\ bio' = [bio EXCEPT ![b].status = "done", ![b].result = "error"]
      /\ bio \in [Bio -> BioRecord] /\ UNCHANGED <<applied, value, disk>>
  BY DEF TimeoutBio, hvars, DeviceInv, IInv, TypeOK
<1>2. \A d \in Bio : d # b => bio'[d] = bio[d]
  BY <1>1
<1>3. /\ bio'[b].status = "done" /\ bio'[b].result = "error" /\ bio'[b].data = bio[b].data
      /\ bio'[b].kind = bio[b].kind /\ bio'[b].segments = bio[b].segments
  BY <1>1 DEF BioRecord
<1>4. \A d \in Bio : d # b => SeenSame(d)
  BY <1>2 DEF SeenSame, Status, Effect
<1>5. \A d \in Bio : Effect(d)' = Effect(d) /\ bio'[d].data = bio[d].data
  BY <1>2, <1>3 DEF Effect
<1> QED
  BY <1>1, <1>3, <1>4, <1>5, StepIsCompleteError

LEMMA DestroyIsCompleteError ==
  ASSUME DeviceInv, Destroy, UNCHANGED hvars
  PROVE  \E failed \in SUBSET Bio : Device!CompleteError(failed)
<1>1. /\ after' = after /\ UNCHANGED <<applied, value, disk>> /\ bio \in [Bio -> BioRecord]
      /\ bio' = [b \in Bio |-> IF Unfinished(b)
                                 THEN [bio[b] EXCEPT !.status = "done", !.result = "error"]
                                 ELSE bio[b]]
  BY DEF Destroy, hvars, DeviceInv, IInv, TypeOK
<1>2. ASSUME NEW b \in Bio, ~Unfinished(b)
      PROVE  SeenSame(b) /\ Effect(b)' = Effect(b) /\ bio'[b].data = bio[b].data
  <2>1. bio'[b] = bio[b]
    BY <1>1, <1>2
  <2> QED
    BY <2>1 DEF SeenSame, Status, Effect
<1>3. ASSUME NEW b \in Bio, Unfinished(b)
      PROVE  /\ bio'[b].status = "done" /\ bio'[b].result = "error"
             /\ Effect(b)' = Effect(b) /\ bio'[b].data = bio[b].data
  <2>1. bio'[b] = [bio[b] EXCEPT !.status = "done", !.result = "error"] /\ bio[b] \in BioRecord
    BY <1>1, <1>3
  <2> QED
    BY <2>1 DEF BioRecord, Effect
<1>4. PICK failed \in SUBSET Bio : failed = {b \in Bio : Unfinished(b)}
  OBVIOUS
<1>5. Device!CompleteError(failed)
  BY <1>1, <1>2, <1>3, <1>4, StepIsCompleteError
<1> QED
  BY <1>5

\* The kernel takes an answer: the bio it is about completes, unless somebody
\* else completed it before.
LEMMA AcceptCompletes ==
  ASSUME DeviceInv, Accept, UNCHANGED hvars
  PROVE  (\E b \in Bio : Device!CompleteOk(b) \/ Device!CompleteError({b}))
           \/ UNCHANGED Device!vars
<1>1. ioctl = Entering /\ after' = after /\ UNCHANGED <<applied, value, disk>>
  BY DEF Accept, hvars
<1>2. kernelbuffer = backup /\ pc = "ioctl" /\ bio \in [Bio -> BioRecord]
  BY <1>1 DEF DeviceInv, IInv, TypeOK, WhereInv, Entering, NotInIoctl
<1>3. ASSUME bio' = bio PROVE UNCHANGED Device!vars
  <2>1. \A b \in Bio : SeenSame(b)
    BY <1>3 DEF SeenSame, Status, Effect
  <2> QED
    BY <1>1, <2>1, StepIsStutter
<1>4. CASE Complete(kernelbuffer) /\ bio' # bio
  <2>1. PICK b \in Bio : b = kernelbuffer.Operation_id /\ bio[b].status = "taken"
    BY <1>4 DEF Complete
  <2>2. backup.Operation # "NO_RESPONSE_BLOCK_FOR_REQUEST"
    BY <1>2, <2>1, NoBioAssumption DEF DeviceInv, AcceptedInv
  <2>3. Reports(backup, b)
    <3>1. PICK c \in Bio : Reports(backup, c)
      BY <1>2, <2>2 DEF DeviceInv, IInv, BackupInv
    <3>2. c = b
      BY <1>2, <2>1, <3>1 DEF Reports, Answers
    <3> QED
      BY <3>1, <3>2
  <2>4. bio' = [bio EXCEPT ![b].status = "done",
                           ![b].result = IF backup.Error THEN "error" ELSE "ok",
                           ![b].data = IF backup.Error THEN Zero ELSE backup.value]
    BY <1>2, <1>4, <2>1 DEF Complete
  <2>5. \A d \in Bio : d # b => bio'[d] = bio[d]
    BY <1>2, <2>4
  <2>6. /\ bio'[b].status = "done" /\ bio'[b].kind = bio[b].kind
        /\ bio'[b].segments = bio[b].segments
        /\ bio'[b].result = IF backup.Error THEN "error" ELSE "ok"
        /\ bio'[b].data = IF backup.Error THEN Zero ELSE backup.value
    BY <1>2, <2>1, <2>4 DEF BioRecord
  <2>7. \A d \in Bio : Effect(d)' = Effect(d)
    BY <2>5, <2>6 DEF Effect
  <2>8. \A d \in Bio : d # b => SeenSame(d)
    BY <2>5 DEF SeenSame, Status, Effect
  <2>9. CASE backup.Error
    <3>1. bio[b].data = Zero
      BY <2>1 DEF DeviceInv, HistoryInv
    <3>2. bio'[b].result = "error" /\ \A d \in Bio : bio'[d].data = bio[d].data
      BY <2>5, <2>6, <2>9, <3>1
    <3>3. Unfinished(b)
      BY <2>1 DEF Unfinished
    <3>4. Device!CompleteError({b})
      BY <1>1, <2>1, <2>6, <2>7, <2>8, <3>2, <3>3, StepIsCompleteError
    <3> QED
      BY <2>1, <3>4
  <2>10. CASE ~backup.Error
    <3>1. applied[b] /\ bio'[b].data = value[b] /\ bio'[b].result = "ok"
      BY <2>3, <2>6, <2>10 DEF Reports
    <3>2. Status(b) = "pending" /\ Status(b)' = "done"
      BY <2>1, <2>6 DEF Status
    <3>3. [d \in Bio |-> Status(d)'] = [[d \in Bio |-> Status(d)] EXCEPT ![b] = "done"]
      BY <2>8, <3>2 DEF SeenSame
    <3>4. [d \in Bio |-> bio'[d].result] = [[d \in Bio |-> bio[d].result] EXCEPT ![b] = "ok"]
      BY <2>5, <3>1
    <3>5. [d \in Bio |-> bio'[d].data] = [[d \in Bio |-> bio[d].data] EXCEPT ![b] = value[b]]
      BY <2>5, <3>1
    <3>6. [d \in Bio |-> Effect(d)'] = [d \in Bio |-> Effect(d)]
      BY <2>7
    <3>7. [d \in Bio |-> Status(d)][b] = "pending"
      BY <2>1, <3>2
    <3>8. Device!CompleteOk(b)
      BY <1>1, <3>1, <3>3, <3>4, <3>5, <3>6, <3>7, Zenon DEF Device!CompleteOk, Status, Effect
    <3> QED
      BY <2>1, <3>8
  <2> QED
    BY <2>9, <2>10
<1> QED
  BY <1>3, <1>4 DEF Accept

\* The other steps of the ioctl are not visible to the users of the device.
LEMMA IoctlIsStutter ==
  ASSUME DeviceInv, KernelIoctl, ~Accept, UNCHANGED hvars
  PROVE  UNCHANGED Device!vars
<1>1. after' = after /\ UNCHANGED <<applied, value, disk>> /\ bio \in [Bio -> BioRecord]
  BY DEF KernelIoctl, Refuse, Deliver, DeliverExit, DeliverOther, FindGone, Interrupt, hvars,
         DeviceInv, IInv, TypeOK
<1>2. \A b \in Bio : SeenSame(b)
  <2>1. CASE bio' = bio
    BY <2>1 DEF SeenSame, Status, Effect
  <2>2. ASSUME NEW b \in Bio, Deliver(b) PROVE \A d \in Bio : SeenSame(d)
    <3>1. bio[b].status = "queued" /\ bio' = [bio EXCEPT ![b].status = "taken"]
      BY <2>2 DEF Deliver
    <3>2. \A d \in Bio : d # b => SeenSame(d)
      <4>1. \A d \in Bio : d # b => bio'[d] = bio[d]
        BY <1>1, <3>1
      <4> QED
        BY <4>1 DEF SeenSame, Status, Effect
    <3>3. SeenSame(b)
      <4>1. /\ bio'[b].status = "taken" /\ bio'[b].kind = bio[b].kind
            /\ bio'[b].segments = bio[b].segments
            /\ bio'[b].data = bio[b].data /\ bio'[b].result = bio[b].result
        BY <1>1, <3>1 DEF BioRecord
      <4>2. Status(b)' = "pending" /\ Status(b) = "pending"
        BY <3>1, <4>1 DEF Status
      <4> QED
        BY <4>1, <4>2 DEF SeenSame, Effect
    <3> QED
      BY <3>2, <3>3
  <2> QED
    BY <2>1, <2>2 DEF KernelIoctl, Refuse, DeliverExit, DeliverOther, FindGone, Interrupt
<1> QED
  BY <1>1, <1>2, StepIsStutter

LEMMA HandlerIsStutter ==
  ASSUME DeviceInv, UNCHANGED <<bio, after, applied, value, disk>>
  PROVE  UNCHANGED Device!vars
<1>1. \A b \in Bio : SeenSame(b)
  BY DEF SeenSame, Status, Effect
<1> QED
  BY <1>1, StepIsStutter

\* A call of the storage that does its work is the instant at which the
\* request takes effect.
LEMMA ServeApplies ==
  ASSUME DeviceInv, NEW kind \in Kinds, Serve(kind)
  PROVE  \/ Device!Apply(kernelbuffer.Operation_id) /\ kernelbuffer.Operation_id \in Bio
         \/ UNCHANGED Device!vars
<1> DEFINE b == kernelbuffer.Operation_id
<1>1. /\ pc = "storage" /\ kernelbuffer.Operation = RequestOp[kind]
      /\ Apply(kind, b) \/ storage_unchanged
      /\ UNCHANGED <<bio, after>>
  BY DEF Serve, Submit
<1>2. b \in Bio /\ HandedOver(b) /\ bio[b].kind = kind /\ kernelbuffer = Request(b)
  BY <1>1, ServedBio DEF DeviceInv
<1>3. CASE storage_unchanged
  BY <1>1, <1>3, HandlerIsStutter DEF storage_unchanged
<1>4. CASE Apply(kind, b)
  <2>1. ~applied[b] /\ \A d \in Bio : applied[d] => b \notin after[d]
    BY <1>1, <1>2 DEF DeviceInv, FreshInv, HasRequest
  <2>2. Status(b) # "new"
    BY <1>2 DEF HandedOver, Status
  <2>3. kernelbuffer.segments = bio[b].segments
        /\ kernelbuffer.value = (IF kind = "write" THEN b ELSE Zero)
    BY <1>2 DEF Request
  <2>4. Serves(kind, bio[b].segments)
    BY <1>1, <2>3 DEF DeviceInv, AcceptedInv
  <2>5. /\ kind = "read" => Effect(b) = "read"
        /\ kind # "read" => Effect(b) # "read"
        /\ Effect(b) = IF bio[b].segments = "none" THEN "none" ELSE kind
    BY <1>2, <2>4 DEF Serves, Effect
  <2>6. disk' = CASE Effect(b) = "write" -> b [] Effect(b) = "discard" -> Zero [] OTHER -> disk
    <3>1. disk' = IF bio[b].segments = "none" \/ kind = "read" THEN disk
                  ELSE IF kind = "write" THEN b ELSE Zero
      BY <1>4, <2>3 DEF Apply
    <3>2. CASE Effect(b) = "write"
      BY <2>5, <3>1, <3>2
    <3>3. CASE Effect(b) = "discard"
      BY <2>5, <3>1, <3>3
    <3>4. CASE Effect(b) # "write" /\ Effect(b) # "discard"
      BY <2>5, <3>1, <3>4 DEF Kinds
    <3> QED
      BY <3>2, <3>3, <3>4
  <2>7. value' = IF Effect(b) = "read" THEN [value EXCEPT ![b] = disk] ELSE value
    BY <1>4, <2>5 DEF Apply
  <2>8. applied' = [applied EXCEPT ![b] = TRUE]
    BY <1>4 DEF Apply
  <2>9. /\ [d \in Bio |-> Status(d)'] = [d \in Bio |-> Status(d)]
        /\ [d \in Bio |-> Effect(d)'] = [d \in Bio |-> Effect(d)]
        /\ [d \in Bio |-> bio'[d].data] = [d \in Bio |-> bio[d].data]
        /\ [d \in Bio |-> bio'[d].result] = [d \in Bio |-> bio[d].result]
    BY <1>1 DEF Status, Effect
  <2>10. /\ [d \in Bio |-> Status(d)][b] # "new" /\ [d \in Bio |-> Effect(d)][b] = Effect(b)
    BY <1>2, <2>2
  <2>11. Device!Apply(b)
    BY <1>1, <2>1, <2>6, <2>7, <2>8, <2>9, <2>10, Zenon DEF Device!Apply, Status, Effect
  <2> QED
    BY <1>2, <2>11
<1> QED
  BY <1>1, <1>3, <1>4

LEMMA DeviceInit == Init => Device!Init
<1> SUFFICES ASSUME Init PROVE Device!Init
  OBVIOUS
<1>1. /\ after = [b \in Bio |-> {}] /\ applied = [b \in Bio |-> FALSE]
      /\ value = [b \in Bio |-> Zero] /\ disk = Zero
  BY DEF Init, KernelInit
<1>2. \A b \in Bio : /\ bio[b].status = "new" /\ bio[b].segments = "none"
                     /\ bio[b].data = Zero /\ bio[b].result = "none"
  BY DEF Init, KernelInit
<1>3. /\ [b \in Bio |-> Status(b)] = [b \in Bio |-> "new"]
      /\ [b \in Bio |-> Effect(b)] = [b \in Bio |-> "none"]
      /\ [b \in Bio |-> bio[b].data] = [b \in Bio |-> Zero]
      /\ [b \in Bio |-> bio[b].result] = [b \in Bio |-> "none"]
  BY <1>2 DEF Status, Effect
<1> QED
  BY <1>1, <1>3 DEF Device!Init, Status, Effect

LEMMA DeviceStep == DeviceInv /\ [Next]_vars => [Device!Next]_Device!vars
<1> SUFFICES ASSUME DeviceInv, [Next]_vars PROVE Device!Next \/ UNCHANGED Device!vars
  OBVIOUS
<1>1. CASE UNCHANGED vars
  BY <1>1, HandlerIsStutter DEF vars, kvars, hvars
<1>2. CASE KernelNext /\ UNCHANGED hvars
  <2>1. ASSUME NEW b \in Bio, IssueBio(b) \/ TimeoutBio(b) PROVE Device!Next
    BY <1>2, <2>1, IssueIsIssue, TimeoutIsCompleteError DEF Device!Next
  <2>2. CASE RequestDestroy
    BY <1>2, <2>2, HandlerIsStutter DEF RequestDestroy, hvars
  <2>3. CASE Destroy
    BY <1>2, <2>3, DestroyIsCompleteError DEF Device!Next
  <2>4. CASE Accept
    BY <1>2, <2>4, AcceptCompletes DEF Device!Next
  <2>5. CASE KernelIoctl /\ ~Accept
    BY <1>2, <2>5, IoctlIsStutter
  <2> QED
    BY <1>2, <2>1, <2>2, <2>3, <2>4, <2>5 DEF KernelNext
<1>3. CASE HandlerNext
  <2>1. ASSUME NEW kind \in Kinds, Serve(kind) PROVE Device!Next \/ UNCHANGED Device!vars
    BY <2>1, ServeApplies DEF Device!Next
  <2>2. CASE ~\E kind \in Kinds : Serve(kind)
    <3>1. UNCHANGED <<bio, after, applied, value, disk>>
      <4>1. CASE Open \/ RetryBlock \/ OtherResponseFails \/ SwitchBlocks \/ SwitchRejects
                   \/ (DeviceGone /\ site = "switch")
        BY <4>1, BlockingSteps DEF Block_for_request, Submit, storage_unchanged
      <4>2. CASE ReadResponseFails \/ SwitchExits \/ (DeviceGone /\ site # "switch")
        BY <4>2, StoppingSteps DEF Stop, storage_unchanged
      <4>3. CASE OpenFails \/ RetryIoctl \/ GotRequest \/ \E kind \in Kinds : SwitchServes(kind)
        BY <4>3 DEF OpenFails, RetryIoctl, GotRequest, SwitchServes, storage_unchanged, kvars
      <4> QED
        BY <1>3, <2>2, <4>1, <4>2, <4>3 DEF HandlerNext
    <3> QED
      BY <3>1, HandlerIsStutter
  <2> QED
    BY <2>1, <2>2
<1> QED
  BY <1>1, <1>2, <1>3 DEF Next

\* Whatever the signals, the refusals of the kernel, the errors of the storage
\* and the timeouts, for any bios: what the users of the device see is a
\* BlockDevice.  Each bio completes once, with success only when the storage
\* has done the work; each takes effect at most once, at one instant; and what
\* was given up takes no effect after what was issued later.
THEOREM HandlerImplementsBlockDevice == Spec => ImplementsBlockDevice
<1>1. Init => DeviceInv
  BY InitInv, InitDeviceInv DEF DeviceInv
<1> QED
  BY <1>1, DeviceInvStep, DeviceInit, DeviceStep, PTL DEF Spec, ImplementsBlockDevice, Device!Spec
==============================================================================
