---------------------------- MODULE DataPipeline ----------------------------
(***************************************************************************)
(* The data pipeline every block goes through on its way to and from the   *)
(* backing store: a list of elements (compression, encryption, ...) that   *)
(* mutate the block in place.  What one element computes is not modelled;  *)
(* only that Pipe_out undoes the Pipe_in of the SAME element when that was *)
(* the last mutation applied, and produces something else otherwise.       *)
(***************************************************************************)
EXTENDS Sequences, Integers

CONSTANTS
  Pipeline,   \* the elements, from Front() to the end of the list
  Junk        \* the byte that decoding with the wrong element produces

ASSUME PipelineAssumption == Pipeline \in Seq(STRING)

\* The order in which write_one_block calls Pipe_in, and read_one_block
\* Pipe_out: both walk the list from Front() with Next().
PipeInOrder  == Pipeline
PipeOutOrder == Pipeline

\* A stored block: its bytes and the mutations it carries, innermost first.
PipedIn(block) == [bytes |-> block, layers |-> PipeInOrder]

\* Each Pipe_out must meet its own element's mutation outermost.
Undone(layers) ==
  /\ Len(layers) = Len(PipeOutOrder)
  /\ \A i \in 1 .. Len(layers) : layers[Len(layers) - i + 1] = PipeOutOrder[i]

PipedOut(stored) ==
  IF Undone(stored.layers) THEN stored.bytes
                           ELSE [j \in DOMAIN stored.bytes |-> Junk]
=============================================================================
