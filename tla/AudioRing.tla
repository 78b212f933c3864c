------------------------------- MODULE AudioRing -------------------------------
(***************************************************************************)
(* The lock-free ring buffer between the PipeWire process callback (the    *)
(* producer) and the AAudio data callback (the consumer), one step per     *)
(* access to shared memory.  Positions are machine words that wrap.  The   *)
(* sample at stream position p is the number p, so that a sample that is   *)
(* lost, repeated, torn or out of order shows.                             *)
(***************************************************************************)
EXTENDS Naturals, Sequences

CONSTANTS
  Capacity,   \* samples in buf, a power of two: its mask is the remainder
  Word,       \* number of values of a usize, a multiple of Capacity
  MaxWrite,   \* most samples in one process callback
  MaxRead,    \* samples the device may ask for in one callback
  MaxSamples, \* bound on the samples produced
  Loads       \* how the two callbacks may be scheduled, a subset of LoadKinds

(* paced       - the callbacks overlap freely and there is always room for *)
(*               what the producer writes                                  *)
(* alternating - the producer may overrun the consumer, but no callback    *)
(*               starts while the other one runs                           *)
(* any         - both at once                                              *)
LoadKinds == {"paced", "alternating", "any"}

ASSUME CapacityAssumption == Capacity \in Nat \ {0, 1}
ASSUME WordAssumption     == Word \in Nat /\ Word % Capacity = 0 /\ Word > Capacity
ASSUME SizesAssumption    == {MaxWrite, MaxRead, MaxSamples} \subseteq Nat \ {0}
ASSUME LoadsAssumption    == Loads \subseteq LoadKinds

VARIABLES
  buf, head, tail,  \* RingBuffer
  producer,         \* where write is, and its local variables
  consumer,         \* where read is, and its local variables
  load,             \* the scheduling of this run, an element of Loads
  produced,         \* number of samples produced so far
  played            \* samples delivered to the device

vars == <<buf, head, tail, producer, consumer, load, produced, played>>

-----------------------------------------------------------------------------
(* Arithmetic of usize.                                                    *)
wrapping_add_Unbounded(x, y) == x + y          \* mutant
wrapping_add(x, y) == (x + y) % Word
wrapping_sub(x, y) == ((x + Word) - y) % Word
masked_NoMask(p) == IF p < Capacity THEN p ELSE Capacity - 1   \* mutant
masked(p)        == p % Capacity                \* p & (capacity - 1)

Least(x, y) == IF x < y THEN x ELSE y

TypeOK ==
  /\ buf \in [0 .. (Capacity - 1) -> 0 .. MaxSamples]
  /\ head \in 0 .. (Word - 1)
  /\ tail \in 0 .. (Word - 1)
  /\ producer \in [at : {"idle", "drop", "copy", "publish"}, head : 0 .. (Word - 1),
                   drop_to : 0 .. (Word - 1), len : 0 .. MaxWrite, i : 0 .. MaxWrite]
  /\ consumer \in [at : {"idle", "head", "copy", "publish"}, tail : 0 .. (Word - 1),
                   want : 0 .. MaxRead, to_read : 0 .. MaxRead,
                   out : Seq(0 .. MaxSamples)]
  /\ load \in Loads
  /\ produced \in 0 .. MaxSamples
  /\ played \in Seq(0 .. MaxSamples)

IdleProducer == [at |-> "idle", head |-> 0, drop_to |-> 0, len |-> 0, i |-> 0]
IdleConsumer == [at |-> "idle", tail |-> 0, want |-> 0, to_read |-> 0, out |-> << >>]

Init ==
  /\ buf = [j \in 0 .. (Capacity - 1) |-> 0]
  /\ head = 0
  /\ tail = 0
  /\ producer = IdleProducer
  /\ consumer = IdleConsumer
  /\ load \in Loads
  /\ produced = 0
  /\ played = << >>

-----------------------------------------------------------------------------
(* write.  The subtraction that computes the free space wraps in a release *)
(* build.                                                                  *)
free == wrapping_sub(Capacity, wrapping_sub(head, tail))

WriteBegin(n) ==
  /\ producer.at = "idle"
  /\ produced + n <= MaxSamples
  /\ load = "paced" => n <= free
  /\ load = "alternating" => consumer.at = "idle"
  /\ produced' = produced + n
  /\ producer' = [at      |-> IF n > free THEN "drop" ELSE "copy",
                  head    |-> head,
                  drop_to |-> IF n > free THEN wrapping_add(tail, n - free) ELSE 0,
                  len     |-> n,
                  i       |-> 0]
  /\ UNCHANGED <<buf, head, tail, consumer, played, load>>

WriteDrop ==
  /\ producer.at = "drop"
  /\ tail' = producer.drop_to
  /\ producer' = [producer EXCEPT !.at = "copy"]
  /\ UNCHANGED <<buf, head, consumer, produced, played, load>>

WriteCopy ==
  /\ producer.at = "copy"
  /\ buf' = [buf EXCEPT ![masked(wrapping_add(producer.head, producer.i))] =
                          produced - producer.len + producer.i + 1]
  /\ producer' = [producer EXCEPT !.i = @ + 1,
                    !.at = IF producer.i + 1 = producer.len THEN "publish" ELSE @]
  /\ UNCHANGED <<head, tail, consumer, produced, played, load>>

WritePublish ==
  /\ producer.at = "publish"
  /\ head' = wrapping_add(producer.head, producer.len)
  /\ producer' = IdleProducer
  /\ UNCHANGED <<buf, tail, consumer, produced, played, load>>

-----------------------------------------------------------------------------
(* read, for a device buffer of n samples.  The caller plays silence for   *)
(* the samples that are missing.                                           *)
ReadBegin(n) ==
  /\ consumer.at = "idle"
  /\ load = "alternating" => producer.at = "idle"
  /\ consumer' = [IdleConsumer EXCEPT !.at = "head", !.tail = tail, !.want = n]
  /\ UNCHANGED <<buf, head, tail, producer, produced, played, load>>

to_read_All(n, available) == IF available >= 0 THEN n ELSE 0   \* mutant
to_read(n, available) == Least(n, available)

ReadHead ==
  /\ consumer.at = "head"
  /\ LET n == to_read(consumer.want, wrapping_sub(head, consumer.tail))
     IN  consumer' = [consumer EXCEPT !.to_read = n,
                                      !.at = IF n = 0 THEN "publish" ELSE "copy"]
  /\ UNCHANGED <<buf, head, tail, producer, produced, played, load>>

ReadCopy ==
  /\ consumer.at = "copy"
  /\ LET i   == Len(consumer.out)
         out == Append(consumer.out, buf[masked(wrapping_add(consumer.tail, i))])
     IN  consumer' = [consumer EXCEPT !.out = out,
                        !.at = IF Len(out) = consumer.to_read THEN "publish" ELSE @]
  /\ UNCHANGED <<buf, head, tail, producer, produced, played, load>>

ReadPublish ==
  /\ consumer.at = "publish"
  /\ tail' = wrapping_add(consumer.tail, consumer.to_read)
  /\ played' = played \o consumer.out
  /\ consumer' = IdleConsumer
  /\ UNCHANGED <<buf, head, producer, produced, load>>

-----------------------------------------------------------------------------
Producer ==
  \/ \E n \in 1 .. MaxWrite : WriteBegin(n)
  \/ WriteDrop \/ WriteCopy \/ WritePublish

Consumer ==
  \/ \E n \in 1 .. MaxRead : ReadBegin(n)
  \/ ReadHead \/ ReadCopy \/ ReadPublish

Next == Producer \/ Consumer

(* Both callbacks run on real-time threads, never block, and the device    *)
(* calls back for ever.                                                    *)
Fairness ==
  /\ WF_vars(WriteDrop \/ WriteCopy \/ WritePublish)
  /\ WF_vars(Consumer)

Spec == Init /\ [][Next]_vars /\ Fairness

-----------------------------------------------------------------------------
(* The slots between tail and head, oldest first.                          *)
Window == [i \in 1 .. wrapping_sub(head, tail) |-> buf[masked(wrapping_add(tail, i - 1))]]

(* The samples that head has passed. *)
published == IF producer.at = "idle" THEN produced ELSE produced - producer.len

Fifo ==
  INSTANCE SampleFifo WITH
    lossy <- load # "paced", last <- published, queue <- Window

(* The ring is a FIFO: the producer never touches a slot the consumer may  *)
(* still read, across every wrap.  It loses the oldest samples if it must, *)
(* and none while the consumer keeps up.                                   *)
ImplementsFifo == Fifo!Spec

(* While the consumer keeps up every sample produced is played.            *)
EverySamplePlayed ==
  \A p \in 1 .. MaxSamples :
    (load = "paced" /\ produced >= p) ~> (Len(played) >= p /\ played[p] = p)

(* write: "If the buffer is full, oldest samples are silently dropped."    *)
(* Samples may be missing, but those played come in the order of           *)
(* production and none comes twice.                                        *)
OnlyOldestDropped ==
  \A i, j \in DOMAIN played : i < j => played[i] < played[j]
=============================================================================
