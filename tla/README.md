# A TLA+ model of zosbd2goclient

zosbd2goclient is the userspace half of zosbd2, a Linux kernel module with which
a program can be the storage of a block device.  The program creates a block
device through a control device, then runs a loop that asks the kernel for the
next read, write or discard, executes it on a storage mechanism, and sends the
answer back.  One ioctl does both: it carries the answer to the last request
down and comes back with the next one.

This directory models that loop, the protocol it speaks with the kernel, the way
of a request's segments to the storage, the three storage mechanisms, and the
control functions with the program that uses them.

## 1. Inventory

| Component | Source | State | Operations | Talks to |
|---|---|---|---|---|
| Block device handler | `zosbd2cmdlib/block_device_handler.go`; `kmod.go` 115-216, 519-976 | the kernel buffer, the backup of it, the operation struct, where in the loop it is | `Run`, `Run_block_for_request`, `Block_for_request`, `Respond_to_{read,write,discard}_request`, `Safe_ioctl` | the kernel (ioctl), the storage mechanism (calls) |
| Request validation | `kmod.go` 519-538, 568-595 | none | `Validate_read_request`, `validate_adjacency` | called by the handler |
| stree storage mechanism | `zosbd2_stree_v_storage_mechanism/` | the tree; the loop variables of one call | `Read_block`, `Write_block`, `Discard_block` | the stree library, the data pipeline |
| slookup storage mechanism | `zosbd2_slookup_i_storage_mechanism/` | the slookup; the loop variables | the same three | the slookup library, the data pipeline |
| Data pipeline | `zosbd2interfaces/data_pipeline.go` | a list of elements | `Pipe_in`, `Pipe_out` | called by the two mechanisms |
| Ramdisk | `zosbd2cmd/storage/ramdiskstorage.go` | a map from byte position to 4096 bytes | the same three | called by the handler |
| Control plane | `kmod.go` 217-517 | none kept (the kernel has it) | `Create_block_device`, `Destroy_block_device_by_{id,name}`, `Destroy_all_block_devices`, `Get_devices_status_map` | the control device (ioctl) |
| Command line driver | `zosbd2cmd/zosbd2cmd.go` | the handle id | creates a device, runs its handler, destroys it | control plane, handler |
| Shared structures | `zosbd2share.go`, `zosbd2userkerneldef.go` | none | operation codes, layouts | all |
| Interfaces | `storage_mechanism.go`, `device_interface.go` | none | declarations | all |

**What is hard.**  The loop of the handler is sequential, but its partner is
not.  While the handler is inside or outside the ioctl the kernel accepts bios
from many threads, gives up the ones that took too long, takes signals, refuses
calls, and begins or finishes the destruction of the device.  The ioctl overwrites
the one buffer that holds the answer, and a signal may arrive before or after the
kernel took that answer.  Five branches of `Run` lead to the "block for request"
at the bottom of the loop; one taken with a request still in the buffer loses that
request.

The storage mechanisms have no concurrency but a lot of arithmetic: requests that
start or end inside a block, in 32 bits for reads and writes and in 64 for
discards (the comment of 3/19/2022 records an overflow that was fixed), a read of
the old block only when part of it must survive, a range of whole blocks gathered
during the loop and deleted after it, and an early return at every call that can
fail.  slookup cuts block numbers to 32 bits and has no "not found".

A request reaches the storage as a list of segments whose data lie one behind the
other in the buffer.  The code merges them to one range, with lengths added in 32
bits and starts compared in 64, and rejects the list if there is a gap; the place
on the device and the place in the buffer must agree from then on.

The control functions keep no state, but other programs have the control device
open as well: the table changes between any two ioctls, the status map is made of
one ioctl for the list and one per device, and a signal makes a function submit
again what the kernel may have done already.  zosbd2cmd relies on names and on a
destroy that runs after its handler has ended.

**What makes each component correct.**

- *Handler*: what it sends answers the request it was given, whatever signals come
  between; no request is dropped; it ends when its device is gone; its users see a
  register, not the retries.
- *Storage mechanism*: a call changes the bytes of its range and no others; success
  means all of them; a discard frees the whole blocks in its range and never deletes
  a byte next to it; the loops never lose their place.
- *Pipeline*: what was written is what is read.
- *Request validation and Ramdisk*: a request answered with success did for every
  byte of every segment what was asked; only what is no single range is rejected; no
  slice leaves the buffer, and no index the metadata but where the code checks nothing.
- *Control plane*: a status map that is returned is one moment of the table; no call
  destroys a device nobody asked to destroy, whatever became of its name; every
  function returns.
- *Driver*: it ends when its device is destroyed, leaves no device behind, and destroys
  nobody else's in place of its own.

## 2. The modules

```
  BlockDeviceHandler  ---- EXTENDS ----> KernelModule (external)
        implements BlockDevice

  StreeStorage, SlookupStorage  ---- EXTEND ----> BlockArithmetic, DataPipeline
        both implement StorageMechanism

  ControlPlane  ---- EXTENDS ----> ControlDevice (external)

  RequestPath   (validation and Ramdisk)
        implements StorageMechanism

  StreeContract_proofs --> StreeStorage_proofs --> StreeStorage
  SlookupContract_proofs --> SlookupStorage_proofs --> SlookupStorage
        both over BlockArithmetic_proofs
  RequestPath_proofs --> RequestPath
  ControlPlane_proofs --> ControlPlane
  BlockDeviceHandler_proofs --> BlockDeviceHandler
```

Each model has an MC module of its name that extends it for TLC, with a bound on the
number of calls and concrete names or bytes; `MCBlockDeviceHandler` adds a symmetry.

### StorageMechanism: the promise of a storage mechanism

A device is a function from byte positions to bytes.  A call is issued, changes
bytes of its range one set at a time to what was asked for, and returns `ok` only
when all of them have changed.  It may return an error only if `MayFail`.  This is what the interface
of `storage_mechanism.go` says and what the handler relies on.

### StreeStorage: the loops of the stree mechanism

| In the model | In the code |
|---|---|
| `rawstore` | the stree: from keys (`Generate_key_from_block_num`) to a block and the pipeline layers on it |
| `pc`, `start_in_bytes`, `length`, `data` | the call that runs and its arguments |
| `currentblock`, `offsetinblock`, `done` | the locals of the loops; `done` stands for `howmuchread` with `dataoutcopypos` and for `written` with `readpos`, which always move together |
| `discard_range_start`, `discard_range_end` | the locals of `Discard_block` |
| `ReadTooLong`, `ReadOne`, `ReadDone` | the length check, a turn, and the exit of the loop of `Read_block` |
| `WriteOne`, `WriteDone` | the same for `Write_block`; `prefetch` holds the cases 1, 2 and 4 of the comment in the code |
| `DiscardPartial`, `DiscardWhole` | the two branches of a turn of `Discard_block` |
| `DiscardNothingWhole`, `StartDeleting`, `DeleteOne`, `DeleteDone` | what follows that loop |

One action is one turn of a loop, because the calls of the tree and of the
pipeline inside a turn are where it can stop half way: `read_one_block` and
`write_one_block` are the sets of their outcomes, and a failed update may have
reached the tree or not.  `Faulty` says which external calls may fail.
`BlockArithmetic` has the arithmetic of the loops, with `End32` modulo `U32` (2^32
in the code) and `End64` exact, as the code has them.  `DataPipeline` has the
order in which elements are called: a block in the tree carries the list of the
layers on it, and taking a layer off that is not the outermost one gives `Junk`.

### SlookupStorage: the same loops over a slookup

`Read_block`, `Write_block` and `Discard_block` are written again in
`zosbd2_store_slookup_i.go`, and so is the model; the names of actions are those of
`StreeStorage` where the code is the same.  What differs:

| In the model | In the code |
|---|---|
| `BlockNumber` | `uint32(start_in_bytes / block_size)`: divided in 64 bits, then cut |
| `rawstore` | an entry for every block number; `Empty` is one never written, or written with nil |
| `read_one_block` | whatever the slookup returns goes through `Pipe_out` and must be as long as a block |
| `EmptyReads` | what the slookup returns for an empty entry; the library is external, the code does not say |
| `UpdateBlock` | a turn of the loop of a write, or of a partial block of a discard |
| `StartEmptying`, `EmptyOne`, `EmptyDone` | the loop that writes nil; its counter is a `uint32`, and an error ends the call |

The device has at most 2^32 - 1 blocks (`SlookupDeviceSize`): the kernel makes none
of more than 3221225472 blocks (`CREATE_DEVICE_MAX_NUMBER_BLOCK_COUNT` in
`zosbd2share.go`) of 4096 bytes, so this holds for blocks of 4096 bytes or more.
With one block more the loop that empties would not end.

### RequestPath: from the segments to the Ramdisk

| In the model | In the code |
|---|---|
| `request`, `data` | the metadata of the operation, and the part of the buffer with the bytes |
| `Validate` | the checks at the head of the Respond functions |
| `VisitSegment` | one turn of the loop of `validate_adjacency`, with its locals `lp` and `verify_start`; an index past the 256 entries is a panic |
| `AllVisited` | the end of that loop, and the call of the storage |
| `start_in_bytes`, `length`, `start_copy_location` | first `entire_start` and `entire_length`, then the parameters of the Ramdisk's functions, which its loops change, and their place in the buffer |
| `ramdisk` | the map from byte position to 4096 bytes |
| `ReadChunk`, `WriteChunk`, `ChunksDone` | a turn and the end of the loops of the Ramdisk; `Panics` is a slice that ends behind the buffer |
| `Discard_block` | always an error |

`before` is history: the device when the last request was done.  So is the `place` of
a segment: where in the buffer its data lie, as the kernel put them (`Placed`); the code
never looks at it.  The kernel is external (`KernelSends`): requests start at a block and
are whole blocks long however they are cut, and the data of a read or write fit the buffer.
That there are no more segments than the metadata has entries, and that the length of a
discard fits a `uint32`, is not assumed: `VisitSegment` cuts each length and their sum to
32 bits, as the code does, and panics past the metadata; only for reads does the code check
the number of segments (`Overfull` is a request for which it should have).  Under `Contract` a request is one call of a storage mechanism
for the range its segments make up; a rejected one is a call that failed.

### ControlDevice and ControlPlane

`ControlDevice` is external: the kernel's table of devices and what each ioctl does
to it.  Names are unique and not empty, handle ids are not used twice.
`ControlPlane` has the functions of `Kmod` for any number of programs, and `main` of
zosbd2cmd, which is one of them.

| In the model | In the code |
|---|---|
| `call[p]`, `Start` | the function of `Kmod` that program `p` is in, and its entry |
| `Finish`, `Submitted` | the ioctl of a function that makes only one, and its return |
| `Interrupted` | EINTR in `Safe_ioctl`, before or after the ioctl took effect; it is submitted again |
| `Refused` | an ioctl that fails for want of memory |
| `NameParam` | the functions that copy a name; a name that is too long leaves the field empty, and the error is dropped |
| `GetList`, `GetStatus`, `MapDone` | `Get_devices_status_map`: the list, one device, the end; `device_map` is the map, keyed by the name in lower case |
| `Program`, `NextStep`, `Deferred` | the calls of `main` in order, where it goes after each, and its deferred destroy |
| `DriverOpens`, `DriverRunEnds` | the first lines of `Run`, and its return |

`KeepsHandle` says which handle ids a program keeps: main drops that of its second device
(`zosbd2cmd.go` 102), and a create that fails gives none.
`listed` (the table when the list was made) and, in the table, who asked for a device
and under which name are history.

### BlockDevice: the promise of a block device to its users

A register, with one request per bio.  A request takes effect once, at a moment
between its issue and its answer, or, when it fails or times out, perhaps later,
but not after a request issued after it was answered.  Success means that it took effect; a
read returns what the register held.  The `after` relation says which
requests were issued after which were answered.

### KernelModule: the kernel, external

Modelled from how the code in `src/` uses it and what its comments say of it.  A
device is `up`, `closing` or `gone`.  A bio is new, queued, taken (handed to
userspace) or done.  The ioctl is entered, blocked or returned.  A request may
time out in the queue or while userspace works on it, a signal may interrupt the call before or after the kernel took the
answer and may find any operation in the buffer, a call may be refused, the
device may be destroyed with or without the exit request being read.

### BlockDeviceHandler: the loop

| In the model | In the code |
|---|---|
| `kernelbuffer` | the buffer shared with the ioctl |
| `backup` | the copy `Safe_ioctl` makes |
| `pc`, `site` | the place in `Run`, and which of the calls of the ioctl was made |
| `disk` | the storage, one register; length and alignment are StreeStorage's matter |
| `applied`, `value` | history: what the storage did for a bio, what a read found |
| `RetryIoctl` | EINTR in `Safe_ioctl` |
| `RetryBlock`, `DeviceGone` | the loop of `Run_block_for_request` |
| `ReadResponseFails`, `OtherResponseFails` | the end of the Respond functions when the ioctl failed |
| `SwitchBlocks`, `SwitchExits`, `SwitchRejects`, `SwitchServes` | the `switch` of `Run` |
| `Serve` | the three Respond functions: the storage call, the answer, `Submit` |

A segment list is abstracted to its shape: adjacent, with a gap, or empty.  The message
that asks for a request is a clean notice in the model; in the code the operation struct is
used again, so it still has the id, the error and the metadata of the last request
(`kmod.go` 542-546).  The kernel reads none of them for this operation.

## 3. The runs

| Run | Asks | Bounds |
|---|---|---|
| `stree_faulty` | `TypeOK`, `LoopPosition`, `DeletesOnlyWholeBlocks`, `FreesWholeBlocks`, `CallReturns`, `ImplementsStorageMechanism`, with fetches, updates and the pipeline failing anywhere | block 3, device 8, buffer 5, `U32` 8, 2 calls, one element |
| `stree_clean` | `ImplementsStorageMechanism` with `MayFail` false: no call returns an error and four calls compose | block 2, device 7, buffer 3, `U32` 6, 4 calls, empty pipeline |
| `stree_two_elements` | is what was written read back through two elements?  No | as `stree_faulty`, no faults |
| `stree_delete_fails` | does a discard that reports success free its blocks?  Not when a delete fails | as `stree_faulty` |
| `handler_safety` | `TypeOK`, `AnswersMatchRequests`, `NothingForgotten`, `ImplementsBlockDevice` | 3 bios, 1 signal, 2 refusals, symmetric bios |
| `handler_shapes` | `NothingForgotten`, `HandlerStops`, `RequestsAnswered`, `ImplementsBlockDevice`, with malformed and empty requests | 2 bios, 2 signals, 1 refusal |
| `handler_panic` | does the process survive the destruction of its device?  No | 2 bios, nothing else goes wrong |
| `slookup_faulty` | `TypeOK`, `EmptiesOnlyWholeBlocks`, `FreesWholeBlocks`, `CallReturns`, `ImplementsStorageMechanism`, with fetches, updates and the pipeline failing anywhere | block 2, device 9, buffer 4, `U32` 6, 4 calls, one element, empty entries read as nothing |
| `request_path` | `TypeOK`, `PanicsOnlyPastMetadata`, `HandsOverTheSegments`, `ServesEverySegment`, `RejectsOnlyGaps`, `RequestReturns`, `ImplementsStorageMechanism` | device 10, chunk and block 2, 3 segments, buffer 6, `U32` 8, 2 requests |
| `control_plane` | `TypeOK`, `DriverLeavesNothing`, `UninterruptedKnowsItsDevices`, `StatusMapIsSnapshot`, `DestroysOnlyNamed`, `SparesDevicesOfOthers`, `CallsReturn`, `DriverEnds` | zosbd2cmd and one other program with 3 calls, 3 names (one too long), 2 devices at a time, 1 signal, refusals |
| `control_case` | is the status map the table, with two names that differ in case?  No | as `control_plane`, nothing refused or interrupted |
| `control_interrupted` | does main know every device it made when it gives up (`KnowsItsDevices`)?  Not after a signal | zosbd2cmd alone, 1 signal, no refusal |

**Why the bounds are enough.**  A block of three bytes has a first, a middle and a
last one, so a request can begin and end at a border or inside, on one side or both.  A device
of eight bytes is two whole blocks and a part of one; a discard can have a partial
head, a whole block and a partial tail.  `U32` 8 is the smallest that satisfies
`BufSizeAssumption` (block size plus buffer is at most 2^32, the condition under which
the 32 bit sums are exact), and a discard of 7 bytes that starts one byte into a block
reaches it: in 32 bits its end would wrap to 0.  The first run takes every start, every length and one
buffer of distinct bytes per call; two calls are what a read after a write, or a
partial write over a block, needs.  Four calls in the second run add a write
that lands on the remains of two earlier ones, or after a discard.  For the
handler, one bio in the ioctl, one in the queue and one given up are three.  A
signal, a refusal, a timeout and the destruction can all meet in one behaviour, and two
signals in a row interrupt a retry; two refusals meet
an ordinary call and its repetition, so each may lose an answer.

In `slookup_faulty` the device has five blocks, one less than a `uint32` of 6 values
can number, so the last block is the last the assumption allows, and nine bytes are
more than that integer can count; again `U32` is block size plus buffer.  There is one
pipeline element, and an empty entry reads as nothing, so an entry that was never written
or was emptied would be noticed if it went through the element; four calls are a write, a
discard of what it wrote, a write next to it, and a read.  The other answer the library may
give, zeros, keeps the contract only without an element (section 4), and is covered by the
proof.

`request_path` takes every list of up to three segments, empty ones included, of the
first four bytes of the device (`NearSize`), and lists of four equal segments, one more than
the metadata holds, as reads, writes and discards; a request can be up to two chunks, so the
second chunk comes from another place of the buffer and of the device, and a read after a
write sees it.  With them come all lists of one or two segments that reach past byte 8, where
a `uint32` of 8 values ends: a segment of a discard can be longer than that, two together
can, and starts can lie beyond it.  In
`control_plane` main makes five devices; two at a time let the other
program fill the table, seven handles let both programs make all they can ask for;
three calls of the other program are enough to take main's name between two of its
calls, destroy its device while it is served and change the table under a status map.

Deadlock is not checked: the system really stops, idle with the bound on calls used
up, or with the handler ended and every bio done.

**Fairness.**  `StreeStorage` assumes weak fairness of the steps of a call: it is
sequential code that waits for no other thread, and the calls it makes are taken to
return.  New calls are never forced.  `BlockDeviceHandler` assumes weak fairness of
the handler (it only sleeps, a second at a time), of the kernel's answer to a call
it accepted, and of the end of a destruction that was asked for (the kernel does
not wait for ever; `block_device_handler.go` 49-56 describes what userspace then
sees).  Nothing forces a bio to be issued, to time out, a signal to arrive or a call
to be refused; these are bounded because an endless run of them would starve the
loop in the code too.  `SlookupStorage` and `RequestPath` assume what `StreeStorage`
does.  `ControlPlane` assumes weak fairness of `main` and of each function that was
called (an ioctl of the control device does not block); nothing forces another
program to call one.  `DriverEnds` does not ask that main ends while its
handler has a device to serve.

## 4. What the runs found

1. `handler_panic`: `Respond_to_read_request` reports a failed ioctl with the code
   of `ret2`, which is nil there (`kmod.go` 740; 734 has just checked it).  When the device is destroyed while a
   read is served, the ioctl that answers it returns ENOENT and the process ends
   with a nil dereference.  The comment at `block_device_handler.go` 49-56 describes
   the case and says the program should exit.  The write and discard functions use `ret`.
2. `stree_two_elements`: both directions walk the pipeline from front to back, so
   the layers come off in the wrong order.  With at most one element, or with a
   list that reads the same both ways, it does not matter.
3. `stree_delete_fails`: the result of `Delete` is dropped, also when it is not
   "not found"; the discard reports success and the data is still there.
4. `control_case`: the status map is keyed by the name in lower case (`kmod.go` 509)
   while devices are made and found under the name as given, so of two devices whose names differ only
   in case one is missing from the map.  The comment (461-463) says each one of the list is in it, keyed by name.
5. `control_interrupted`: `Safe_ioctl` says (195-196) that after EINTR it has "enough
   information" to submit the request again.  For a create it has not: if the device was made
   before the signal, the second create fails because the name exists, the handle id that was
   in the buffer is overwritten, and main gives up with the device left behind.
   `UninterruptedKnowsItsDevices` shows that nothing but a signal does this, and
   `DriverLeavesNothing` speaks of a main that did not give up.

Three more things that the models show, without a run of their own:

- The comment in slookup's `read_one_block` (66) says that zeros are provided for a block that
  is not there, but the code has no such case: what the slookup returns goes through the
  pipeline.  What that is, the library decides (`EmptyReads`).  If it is nothing, reads fail
  (`slookup_faulty`), and a partial write with them; if it is zeros, a pipeline element makes
  something else of them, and a read returns that with success.  So the theorem about
  slookup has the hypothesis that zeros meet no pipeline.  The stree mechanism has the case.
- `Run` says (155-157) that a failure for a request is "something we have to retry forever".
  When the kernel fails to take an answer it asks for another request instead, so the answer
  is lost, and the bio waits for the kernel's timeout.  `NothingForgotten` shows that each
  failure of the kernel costs one request at most, however long the handler goes on after it,
  and that nothing else does; `ImplementsBlockDevice` that it looks to users like a timeout.
- The checks of writes and discards, which are called to see to "things like that" (773, 891),
  return nil without a look (533, 537).  A write or a discard of more segments than the metadata
  has entries, should the kernel send one, ends the process in an index out of range at 578.
  Reads are checked (525).  `PanicsOnlyPastMetadata` shows that this is the only panic of the
  request path and that no byte of the device has changed then.

## 5. What is proved

`StreeStorage_proofs` proves, for every block size, device size, buffer size,
pipeline and set of faults that satisfy the named assumptions,

- `TypeCorrect`: `Spec => []TypeOK`, where `TypeOK` says of the current block that it is one
  of the device whenever a loop is about to use it,
- `LoopsKeepTheirPlace`: `Spec => []LoopPosition`,
- `DiscardsAreExact`: `Spec => []DeletesOnlyWholeBlocks`.

The assumptions are those of the modules: positive block and device size, block
size plus buffer at most 2^32, the bytes do not include `Junk`.

None of the three is inductive alone.  That the next block is one of the device
(needed for the type of the tree and of the range to delete) follows from where
the loop stands (`LoopPosition`) and from the range of the call lying on the
device; that nothing else is deleted follows from where the loop stands when a block is
gathered, and from the range ending just before the current block.  So `IInv` is
`TypeOK /\ ArgumentsInv /\ LoopPosition /\ DiscardRangeInv /\ DeletesOnlyWholeBlocks`:

- `ArgumentsInv`: the range of the call is on the device, a write fits the buffer;
- `DiscardRangeInv`: the range is set or not at both ends, it ends before the block
  the loop stands at, and the deleting loop stays in it.

`InitInv` and one lemma per action show that it is inductive.  What they share
is in lemmas about the arithmetic: `FirstBlockAndOffset`, `NextBlockStart` (of
`BlockArithmetic_proofs`), `BlockInDevice` (division and remainder), `End32Exact` (where the sums in 32 bits are
exact: this is the place of `BufSizeAssumption`), and `LoopStep` (the end of a turn
puts the loop at the next position).

The same module proves, under the assumption that deletes do not fail
(`"delete" \notin Faulty`),

- `DiscardsFreeWholeBlocks`: `Spec => FreesWholeBlocks`.

It needs what `IInv` does not say: that nothing was forgotten.  `FreesInv` is
`OnlyFirstOffset` (only the first turn starts inside a block, so only the first or
the last block of a range is partial), `CoveredAreGathered` (each covered block that
the loop has passed is in the range to delete) and `PassedAreDeleted` (what the
deleting loop has passed is gone).  `PartialIsNotCovered` and `CoveredIsPassed`
relate the branch a turn takes to the blocks the range covers.  The assumption is
needed: the run `stree_delete_fails` refutes the property without it.

`StreeContract_proofs` proves the refinement,

- `StreeImplementsStorageMechanism`: `Spec => ImplementsStorageMechanism`,

under three hypotheses, each needed.  `PipelineFits`: taking the layers off in the order
the code does undoes them, which is so for no element, one, or a list that reads the same both ways
(`stree_two_elements` refutes the property otherwise).  `DeviceSizeFits`: the size
of the device is a 64 bit number, as it is in the code; only then do the eight bytes of
`Generate_key_from_block_num` tell any two blocks apart (`KeyIsUnique`).  And deletes do
not fail.  One assumption of the module is used: a key without a block can be told from one
with a block (`StreeAbsent`).  A step maps to a change of bytes of the range to their
targets, to the filling of the caller's buffer, to a return or to a stutter.  That a
return with success is allowed needs to know what was done before, so `IInv` is extended
by `ContractInv`: the bytes the loop has passed are the data (`CopiedInv`), or are zero or
in a gathered block (`ZeroedInv`); while deleting, each byte of the range is zero or in a
block still to be deleted (`DeletedInv`); between calls there is no range (`IdleInv`).
The lemmas are about one byte: which block holds it (`PositionInBlock`), and what it is
after one block was put (`ByteAfterPut`), so every action is reduced to the same two cases.

`SlookupStorage_proofs` proves, for the same parameters of the slookup mechanism and
whatever an empty entry reads as,

- `TypeCorrect`: `Spec => []TypeOK`, where a loop that is about to use an entry stands at that
  of a block of the device,
- `DiscardsAreExact`: `Spec => []EmptiesOnlyWholeBlocks`,
- `DiscardsFreeWholeBlocks`: `Spec => FreesWholeBlocks`, with no assumption on the faults:
  this code ends a discard when an entry could not be emptied.

The argument is that of the stree mechanism (the arithmetic that both need is in
`BlockArithmetic_proofs`), and one thing more: block numbers are `uint32`, and so are the
counters of the loops.  `SlookupDeviceSize` says that a device has fewer than 2^32 blocks;
from it `BlockNumberExact` shows that cutting the number of a block loses nothing, and
`LoopStep` and `NextToEmpty` that the number of the block after any that a loop uses is no
overflow, so a loop that counts up to the last block of the range ends.  The assumption
is what the kernel's limit on a device gives for blocks of 4096 bytes or more; with smaller
blocks nothing in the code ensures it.

`SlookupContract_proofs` proves

- `SlookupImplementsStorageMechanism`: `Spec => ImplementsStorageMechanism`,

for every set of faults, again if the pipeline undoes what it did, and if an empty entry
that reads as zeros is not put through a pipeline that would make something else of the zeros
(`EmptyReads = "zeros" => Pipeline = <<>>`).  Where the slookup returns nothing for an
empty entry a call may fail, which is why `MayFail` names that case; the promise that a failed call
changes nothing outside its range still holds.  `SlookupEmpty` is the counterpart of
`StreeAbsent`.  The invariant is the one of the stree mechanism with `EmptiedInv` in
place of `DeletedInv`; no hypothesis on the faults is needed, as for `FreesWholeBlocks`.

`RequestPath_proofs` proves, for every device, chunk, number of segments and list of
segments, if the Ramdisk reads by the size it writes by (`OneSize`; main makes it with
`BLOCK_SIZE`, which is 4096, the size its writes store),

- `TypeCorrect`: `Spec => []TypeOK`,
- `IndexesAreInBounds`: `Spec => []PanicsOnlyPastMetadata`,
- `SegmentsAreServed`: `Spec => ServesEverySegment`,
- `GapsAreRejected`: `Spec => RejectsOnlyGaps`,
- `OnlySegmentsAreHandedOver`: `Spec => HandsOverTheSegments`,
- `RequestPathImplementsStorageMechanism`: `Spec => ImplementsStorageMechanism`.

From `RequestPathAssumption` and what `KernelSends` says of the kernel.  `IInv` is `TypeOK`,
`PanicsOnlyPastMetadata` and five parts:

- `RequestInv`: what is served is what the kernel sends, and a read of too many segments is
  not visited;
- `VisitedInv`: the segments visited are one range that begins at `start_in_bytes` on the
  device and at the beginning of the buffer, so the sum of the lengths, in 32 bits, is where
  the data of the last of them end, as long as the lengths fit 32 bits;
- `HandedInv`: whether they fit or not, every byte from `start_in_bytes` to where the next
  segment must begin is one of a segment, and the range goes no further: cutting makes a
  length smaller, never larger (`RemainderSmall`), and starts are not cut;
- `ServedInv`: the loop of the Ramdisk stands at a chunk, what is behind it and what is
  left are together the request, and every segment has the same distance between its place on
  the device and its place in the buffer;
- `CopiedInv`: behind the loop the device and the buffer agree, the rest is as it was.

Neither safety of the indexes nor service holds without the others: that a chunk fits the
buffer follows from the whole chunks that are left, which follows from the sum of the lengths,
which needs the segments to lie one behind the other.  Facts about all lists of
segments (`EndsAscend`: a later segment ends later; `SomeSegmentHolds`: each byte of the data is in
one of them; `RangeOfList`) are inductions over the list; they are proved by contradiction from the
least index at which they fail (`LeastElement`, from the library's well-founded `<`), so
the model needs no recursion and the proof no induction scheme.

`ControlPlane_proofs` proves, for any programs, names, limits, refusals and numbers of
signals,

- `TypeCorrect`: `Spec => []TypeOK`, with each device under the name it was asked for,
- `OnlyNamedAreDestroyed`: `Spec => DestroysOnlyNamed`,
- `MapsAreSnapshots`: `Spec => StatusMapIsSnapshot`, if `Lower` is injective on the
  names (the run `control_case` refutes it otherwise),
- `NothingIsLeft`: `Spec => []DriverLeavesNothing`,
- `OthersAreSpared`: `Spec => SparesDevicesOfOthers`,
- `DevicesAreKnown`: `Spec => []UninterruptedKnowsItsDevices`.

From `ControlPlaneAssumption` and `ControlDeviceAssumption`.  The argument has six invariants:

- `TypeInv`: the types, and what the table relies on: a handle is given once, names are
  unique, and a device has the name it was asked for, which was not too long.  The
  lemma `SubmittedIsTableStep` says that an ioctl creates one device, removes some or keeps the table, and
  `TableStepKeepsInv` that each of the three keeps the table's part.
- `DriverCallInv`: main is only ever in the call its place in `Program` says.
- `MapInv`: each device of the list is still to be asked for or is in the map as it was
  listed, and one that is still in the table is unchanged.  So when none is left to ask
  for the map is the list (`SuccessIsSnapshot`).
- `OwnedInv`: at each place of `Program`, which devices of the table main can have made.
  It is not inductive without `DriverCallInv` (an ioctl that was interrupted has
  already changed the table) nor without unique names (a destroy by name must reach
  the one device main made).
- `HandleInv`: as long as a device has the handle id main holds, it is main's, and no older
  device has its name; so a destroy takes a foreign one only when main's is gone
  (`DestroyTakes`).
- `KnowsInv`: without a signal, main has no device of its name when it is about to create
  one, and afterwards the one whose handle id it holds.

`BlockDeviceHandler_proofs` proves, for any set of bios, any segments and any numbers of
signals and refusals,

- `TypeCorrect`: `Spec => []TypeOK`,
- `AnswersAreRight`: `Spec => []AnswersMatchRequests`,
- `NothingIsForgotten`: `Spec => []NothingForgotten`,
- `HandlerImplementsBlockDevice`: `Spec => ImplementsBlockDevice`.

From the named assumptions of `KernelModule` and `BlockDeviceHandler` (a
bio is a kind with segments, `NoBio` is no bio, the bounds are numbers).  `AnswersMatchRequests` speaks of the moment of entry into the kernel only;
what makes it true was decided turns earlier, before any number of signals.  `IInv` is
`TypeOK` and four parts:

- `WhereInv`: the handler is in the ioctl or not, and enters it with what it backed up;
  a device that is gone has no bio left to answer;
- `BackupInv`: an answer in the backup, sent or to be sent again, is that of a bio that
  was handed over, and tells the truth about it;
- `BufferInv`: what a successful ioctl left in the buffer is the request of a bio that
  was handed over, or a notice that names none;
- `ValueInv`: only reads that were handed over have found anything.

`NothingForgotten` counts: the bios that wait in vain are at most as many as the failures of
the kernel.  So it is inductive next to `IInv` once their set is known to be finite (`FewLost`),
and each step is asked which bio it loses: one that fails the call that answers a
bio loses that bio (`RefuseLosesOne`), and no other step loses any (`HandlerLosesNothing`,
`KernelLosesOne`).  That needs `BufferInv` to know that a request a branch drops is either no
request at all or one that cannot be served, and `WhereInv` to know that an answer refused after
the device went has nobody waiting for it.

The refinement needs history.  A request takes effect in the register when the storage is
called, once, and the handler and its retries must look like nothing.  `DeviceInv` is `IInv`
and three parts:

- `HistoryInv`: the bios a bio was issued after are still done, only what was handed over
  has taken effect, and only what is done has got data;
- `FreshInv`: the request in the buffer has not taken effect yet, and nothing issued after
  it was given up has; this is what keeps a late write behind no newer one;
- `AcceptedInv`: the storage is called only for what the Respond functions accept, and a
  call that only asks for a request answers nobody.

**Checked but not proved.**  Every safety property of the passing runs, action properties
and refinements included, is a theorem; the runs show them where the hypotheses hold, and the runs
that expect a violation show three of the hypotheses to be needed.  The liveness properties (`CallReturns`,
`HandlerStops`, `RequestsAnswered`, `RequestReturns`, `CallsReturn`, `DriverEnds`) stay
with TLC: the prover has no reasoning about fairness and ENABLED.

## 6. Plan

Every component with behaviour of its own is modelled.  What is left to model is a
composition: the handler over `RequestPath` and a storage that implements
`StorageMechanism`, in place of the register of `BlockDeviceHandler`.

With it a theorem: that composition implements `BlockDevice` with a register for each
byte, from the theorems of section 5 instead of a new invariant for the storage.

## 7. Not modelled, and why

- The stree and slookup libraries and the kernel module are not in the repository;
  their calls are modelled with the outcomes the code distinguishes.
- What a pipeline element computes: they are supplied by other programs.  Their contexts and
  parameter functions are never called here.
- The byte layout of the shared structures: it is fixed by the compiler and the
  headers they were copied from; a mismatch is not a behaviour.
- Logging, command line parsing, and the wording of errors.
- The data race between two handlers of one device: every device has one handler.
- What the kernel answers to a handle id that is not the one of the device that was
  opened (main opens by name and serves by id): the code does not say.
- The formatting of the status of a device beyond its name and handle id.
