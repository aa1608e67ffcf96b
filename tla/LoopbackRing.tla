---------------------------- MODULE LoopbackRing ----------------------------
(***************************************************************************)
(* The byte ring of pwf_stream_loopback.c: the capture stream's data       *)
(* thread writes it, the playback stream's reads it, and neither waits for *)
(* the other.                                                              *)
(*                                                                         *)
(* Each callback loads the other side's position, copies byte by byte and  *)
(* stores its own position; every load, byte and store is a step.  The     *)
(* positions are kept as counts of bytes; the code has them in a size_t,   *)
(* so whatever it computes from them is computed modulo Wrap.  Captured    *)
(* bytes are numbered 1, 2, ...                                            *)
(*                                                                         *)
(* Nothing uses a definition Name_Bug: each is a mistake the properties    *)
(* would catch.                                                            *)
(***************************************************************************)
EXTENDS Integers, Sequences

CONSTANTS
  Capacity,         \* bytes in the ring
  Wrap,             \* SIZE_MAX + 1
  Frame,            \* bytes per frame of the audio format
  Chunks,           \* sizes of a captured buffer
  Cycles,           \* bytes a playback cycle asks for
  MaxBytes          \* bound: bytes captured

\* A capacity that is a whole number of frames and fits a size_t; the graph
\* captures whole frames; and either the positions do not wrap, or the ring
\* divides their range.  A playback cycle may ask for any number of bytes: with
\* no request of the device it is the whole region, whatever its size.
ASSUME RingAssumption ==
  /\ Frame \in Nat \ {0} /\ Capacity \in Nat \ {0} /\ Wrap \in Nat
  /\ Capacity < Wrap
  /\ Chunks \subseteq Nat \ {0} /\ Cycles \subseteq Nat
  /\ \A n \in {Capacity} \cup Chunks : n % Frame = 0
  /\ MaxBytes \in Nat

ASSUME WrapAssumption == MaxBytes < Wrap \/ Wrap % Capacity = 0

VARIABLES
  (* struct loopback_ring *)
  data, write_pos, read_pos, dropped,
  (* the locals of ring_write() and ring_read() *)
  writer, reader,
  (* history *)
  captured,         \* bytes handed to on_audio_capture()
  kept,             \* those copied into the ring, in order
  played,           \* those copied out of it, in order
  cut               \* bytes a cycle took and the library cut off at a frame

vars == <<data, write_pos, read_pos, dropped, writer, reader, captured, kept, played, cut>>

Cells == 0..(Capacity - 1)

\* pos % ring->capacity
Cell(pos) == (pos % Wrap) % Capacity

Idle == [pc |-> "idle", seen |-> 0, first |-> 0, len |-> 0, i |-> 0]

\* `seen' is the other side's position as last loaded, `first' the number of
\* src[0] (the reader has none), `i' the loop's counter.
Locals == [pc : {"idle", "copy"}, seen : Nat, first : Nat, len : Nat, i : Nat]

TypeOK ==
  /\ data \in [Cells -> Nat]
  /\ write_pos \in Nat /\ read_pos \in Nat /\ dropped \in Nat
  /\ writer \in Locals /\ reader \in Locals
  /\ captured \in 0..MaxBytes
  /\ kept \in Seq(Nat) /\ played \in Seq(Nat)
  /\ cut \in Nat

\* ring_init()
Init ==
  /\ data = [c \in Cells |-> 0]
  /\ write_pos = 0 /\ read_pos = 0 /\ dropped = 0
  /\ writer = Idle /\ reader = Idle
  /\ captured = 0
  /\ kept = <<>> /\ played = <<>>
  /\ cut = 0

----------------------------------------------------------------------------
(* ring_write(), on the capture thread                                     *)

FreeSpace_OneMore(seen) == (Capacity - ((write_pos - seen) % Wrap)) + 1

FreeSpace_OneLess(seen) == Capacity - 1 - ((write_pos - seen) % Wrap)

FreeSpace(seen) == Capacity - ((write_pos - seen) % Wrap)

Dropped_Uncounted(n, len) == dropped

Dropped(n, len) == dropped + (n - len)

\* A load of the other side's position may meet its last store or still the
\* one the load before it met.
WriteLoad(n) ==
  /\ writer.pc = "idle"
  /\ captured + n <= MaxBytes
  /\ \E seen \in {writer.seen, read_pos} :
       LET len == IF n > FreeSpace(seen) THEN FreeSpace(seen) ELSE n
       IN  /\ writer' = [pc |-> "copy", seen |-> seen, first |-> captured + 1,
                         len |-> len, i |-> 0]
           /\ dropped' = Dropped(n, len)
  /\ captured' = captured + n
  /\ UNCHANGED <<data, write_pos, read_pos, reader, kept, played, cut>>

WriteByte ==
  /\ writer.i < writer.len
  /\ data' = [data EXCEPT ![Cell(write_pos + writer.i)] = writer.first + writer.i]
  /\ kept' = Append(kept, writer.first + writer.i)
  /\ writer' = [writer EXCEPT !.i = @ + 1]
  /\ UNCHANGED <<write_pos, read_pos, dropped, reader, captured, played, cut>>

WriteStore ==
  /\ writer.pc = "copy" /\ writer.i = writer.len
  /\ write_pos' = write_pos + writer.len
  /\ writer' = [Idle EXCEPT !.seen = writer.seen]
  /\ UNCHANGED <<data, read_pos, dropped, reader, captured, kept, played, cut>>

----------------------------------------------------------------------------
(* ring_read(), on the playback thread                                     *)

Available_OneMore(seen) == ((seen - read_pos) % Wrap) + 1

Available(seen) == (seen - read_pos) % Wrap

\* A cycle that asks for n bytes; what the ring lacks stays silence.
ReadLoad(n) ==
  /\ reader.pc = "idle"
  /\ \E seen \in {reader.seen, write_pos} :
       reader' = [pc |-> "copy", seen |-> seen, first |-> 0,
                  len |-> IF n > Available(seen) THEN Available(seen) ELSE n, i |-> 0]
  /\ UNCHANGED <<data, write_pos, read_pos, dropped, writer, captured, kept, played, cut>>

ReadByte ==
  /\ reader.i < reader.len
  /\ played' = Append(played, data[Cell(read_pos + reader.i)])
  /\ reader' = [reader EXCEPT !.i = @ + 1]
  /\ UNCHANGED <<data, write_pos, read_pos, dropped, writer, captured, kept, cut>>

\* The callback reports what it took, and pwf_stream_playback_fill() cuts it off
\* at a whole frame: the rest of it has left the ring and becomes silence.
ReadStore ==
  /\ reader.pc = "copy" /\ reader.i = reader.len
  /\ read_pos' = read_pos + reader.len
  /\ reader' = [Idle EXCEPT !.seen = reader.seen]
  /\ cut' = cut + (reader.len % Frame)
  /\ UNCHANGED <<data, write_pos, dropped, writer, captured, kept, played>>

Next ==
  \/ \E n \in Chunks : WriteLoad(n)
  \/ WriteByte
  \/ WriteStore
  \/ \E n \in Cycles : ReadLoad(n)
  \/ ReadByte
  \/ ReadStore

Spec == Init /\ [][Next]_vars

----------------------------------------------------------------------------
(* What the ring is for                                                    *)

\* The next cell each thread touches is never the same one, even with a
\* position of the other side that is out of date, or one that has wrapped:
\* the plain loads and stores of `data' do not race.
CellsNotShared ==
  writer.i < writer.len /\ reader.i < reader.len =>
    Cell(write_pos + writer.i) # Cell(read_pos + reader.i)

\* Every captured byte is in the ring, was played, is about to be copied or is
\* in the total the program prints as dropped when it ends.
BytesAccounted == captured = Len(kept) + (writer.len - writer.i) + dropped

\* An overrun drops whole frames, and an underrun ends at one: the i-th byte of
\* a cycle has the channel, and the place in its sample, of the i-th byte of a
\* captured buffer.  Only a cycle that asks for part of a frame and finds it in
\* the ring ends that: what it cut off shifts all that is played after it.
ChannelsStayInPlace ==
  cut = 0 =>
    \A i \in 1..reader.i : (played[Len(played) - reader.i + i] - i) % Frame = 0

\* What is published and not yet copied out is a bounded queue: the copies, the
\* late loads and the wrapped positions cannot be told from ByteFifo.
Fifo == INSTANCE ByteFifo WITH
  queue <- SubSeq(kept, Len(played) + 1, write_pos),
  put <- IF write_pos = 0 THEN 0 ELSE kept[write_pos],
  taken <- IF played = <<>> THEN 0 ELSE played[Len(played)]

RingIsAFifo == Fifo!Spec
============================================================================
