---------------------------- MODULE AudioRingProofs ----------------------------
(***************************************************************************)
(* While the consumer keeps up, or while no callback starts inside the     *)
(* other, the ring is a queue, for every capacity and every width of the   *)
(* positions, across all their wraps.                                      *)
(*                                                                         *)
(* The argument gives each word the stream position it stands for: head is *)
(* the number of samples published, tail that number less the samples in   *)
(* the queue.  A slot is then known by the one position it holds.          *)
(***************************************************************************)
EXTENDS AudioRing, Integers, TLAPS, SequenceTheorems

-----------------------------------------------------------------------------
(* Arithmetic modulo m.                                                    *)

LEMMA DivMod ==
  ASSUME NEW x \in Nat, NEW m \in Nat \ {0}
  PROVE  x % m \in 0 .. (m - 1) /\ x \div m \in Nat /\ x = m * (x \div m) + (x % m)
  OBVIOUS

LEMMA Product ==
  ASSUME NEW m \in Nat \ {0}, NEW q \in Nat, NEW p \in Nat, q < p
  PROVE  m * q + m <= m * p
<1>1. PICK d \in Nat : p = q + 1 + d
  <2>1. p - q - 1 \in Nat /\ p = q + 1 + (p - q - 1)
    OBVIOUS
  <2> QED BY <2>1
<1>2. m * (q + 1 + d) = m * q + m + m * d
  OBVIOUS
<1>3. m * d \in Nat /\ m * q \in Nat
  OBVIOUS
<1> QED BY <1>1, <1>2, <1>3

LEMMA Unique ==
  ASSUME NEW x \in Nat, NEW m \in Nat \ {0}, NEW q \in Nat, NEW r \in 0 .. (m - 1), x = m * q + r
  PROVE  x % m = r
<1>1. DEFINE p == x \div m
             s == x % m
<1>2. s \in 0 .. (m - 1) /\ p \in Nat /\ x = m * p + s
  BY DivMod
<1>3. m * q \in Nat /\ m * p \in Nat
  BY <1>2
<1> HIDE DEF p, s
<1>4. ~(q < p)
  <2>1. q < p => m * q + m <= m * p
    BY <1>2, Product
  <2> QED BY <1>2, <1>3, <2>1
<1>5. ~(p < q)
  <2>1. p < q => m * p + m <= m * q
    BY <1>2, Product
  <2> QED BY <1>2, <1>3, <2>1
<1>6. p = q
  BY <1>2, <1>4, <1>5
<1>7. s = r
  BY <1>2, <1>3, <1>6
<1> QED  BY <1>7 DEF s

(* Adding to a word is adding to the position it stands for. *)
LEMMA AddMod ==
  ASSUME NEW m \in Nat \ {0}, NEW x \in Nat, NEW i \in Nat
  PROVE  ((x % m) + i) % m = (x + i) % m
<1> DEFINE q == x \div m
           r == x % m
           p == (r + i) \div m
           s == (r + i) % m
<1>1. r \in 0 .. (m - 1) /\ q \in Nat /\ x = m * q + r
  BY DivMod
<1> HIDE DEF q, r
<1>a. r + i \in Nat
  BY <1>1
<1>2. s \in 0 .. (m - 1) /\ p \in Nat /\ r + i = m * p + s
  BY <1>a, DivMod
<1> HIDE DEF p, s
<1>3. x + i = m * (q + p) + s
  <2>1. m * (q + p) = m * q + m * p /\ m * q \in Nat /\ m * p \in Nat
    BY <1>1, <1>2
  <2> QED  BY <1>1, <1>2, <2>1
<1>4. (x + i) % m = s
  <2>1. q + p \in Nat /\ x + i \in Nat
    BY <1>1, <1>2
  <2> QED  BY <1>2, <1>3, <2>1, Unique
<1> QED  BY <1>4 DEF s, r

(* The distance of two words is that of the positions, if that is small. *)
LEMMA Distance ==
  ASSUME NEW m \in Nat \ {0}, NEW x \in Nat, NEW d \in 0 .. (m - 1)
  PROVE  ((((x + d) % m) + m) - (x % m)) % m = d
<1> DEFINE r == x % m
           q == x \div m
<1>1. r \in 0 .. (m - 1) /\ q \in Nat /\ x = m * q + r
  BY DivMod
<1> HIDE DEF q
<1>a. d \in Nat
  OBVIOUS
<1>2. (x + d) % m = (r + d) % m
  BY <1>a, AddMod, Zenon
<1>3. CASE r + d < m
  <2>1. (r + d) % m = r + d
    BY <1>1, <1>3, Unique
  <2> HIDE DEF r
  <2>2. ((r + d) + m) - r = m * 1 + d
    BY <1>1
  <2>3. (((r + d) + m) - r) % m = d
    BY <1>1, <2>2, Unique
  <2> QED  BY <1>2, <2>1, <2>3 DEF r
<1>4. CASE r + d >= m
  <2>1. (r + d) % m = (r + d) - m
    BY <1>1, <1>4, Unique
  <2> HIDE DEF r
  <2>2. (((r + d) - m) + m) - r = d
    BY <1>1
  <2>3. ((((r + d) - m) + m) - r) % m = d
    BY <1>1, <2>2, Unique
  <2> QED  BY <1>2, <2>1, <2>3 DEF r
<1> QED  BY <1>1, <1>3, <1>4

(* A mask of a word is one of the position. *)
LEMMA ModMod ==
  ASSUME NEW c \in Nat \ {0}, NEW k \in Nat \ {0}, NEW x \in Nat
  PROVE  (x % (c * k)) % c = x % c
<1> DEFINE m == c * k
           q == x \div m
           r == x % m
           p == r \div c
           s == r % c
<1>0. m \in Nat \ {0}
  OBVIOUS
<1> HIDE DEF m
<1>1. r \in 0 .. (m - 1) /\ q \in Nat /\ x = m * q + r
  BY <1>0, DivMod
<1> HIDE DEF q, r
<1>a. r \in Nat
  BY <1>0, <1>1
<1>2. s \in 0 .. (c - 1) /\ p \in Nat /\ r = c * p + s
  BY <1>a, DivMod
<1> HIDE DEF p, s
<1>3. x = c * (k * q + p) + s
  <2>1. m * q = c * (k * q) /\ k * q \in Nat
    BY <1>1 DEF m
  <2>2. c * (k * q + p) = c * (k * q) + c * p
    BY <1>2, <2>1
  <2>3. c * p \in Nat /\ c * (k * q) \in Nat
    BY <1>2, <2>1
  <2> QED  BY <1>1, <1>2, <2>1, <2>2, <2>3
<1>4. x % c = s
  <2>1. k * q + p \in Nat
    BY <1>1, <1>2
  <2> QED  BY <1>2, <1>3, <2>1, Unique
<1> QED  BY <1>4 DEF s, r, m

(* Positions less than c apart have different slots. *)
LEMMA SlotsDiffer ==
  ASSUME NEW c \in Nat \ {0}, NEW x \in Nat, NEW d \in 1 .. (c - 1)
  PROVE  (x + d) % c # x % c
<1>1. ((((x + d) % c) + c) - (x % c)) % c = d
  <2>1. d \in 0 .. (c - 1)
    OBVIOUS
  <2> QED  BY <2>1, Distance, Zenon
<1>2. CASE (x + d) % c = x % c
  <2>1. x % c \in 0 .. (c - 1)
    BY DivMod
  <2>2. (((x + d) % c) + c) - (x % c) = c * 1 + 0
    BY <1>2, <2>1
  <2>3. (c * 1 + 0) % c = 0
    BY Unique
  <2> QED  BY <1>1, <2>2, <2>3
<1> QED  BY <1>2
-----------------------------------------------------------------------------
(* Words and slots.                                                        *)

LEMMA Constants ==
  /\ Capacity \in Nat \ {0} /\ Capacity > 1
  /\ Word \in Nat \ {0} /\ Word > Capacity
  /\ \E k \in Nat \ {0} : Word = Capacity * k
  /\ MaxWrite \in Nat \ {0} /\ MaxRead \in Nat \ {0} /\ MaxSamples \in Nat \ {0}
<1>1. /\ Capacity \in Nat \ {0} /\ Capacity > 1 /\ Word \in Nat \ {0} /\ Word > Capacity
      /\ MaxWrite \in Nat \ {0} /\ MaxRead \in Nat \ {0} /\ MaxSamples \in Nat \ {0}
  BY CapacityAssumption, WordAssumption, SizesAssumption
<1>2. PICK k \in Nat : Word = Capacity * k + (Word % Capacity)
  <2>1. Word \div Capacity \in Nat /\ Word = Capacity * (Word \div Capacity) + (Word % Capacity)
    BY <1>1, DivMod
  <2> QED  BY <2>1
<1>3. Word % Capacity = 0
  BY WordAssumption
<1>4. Word = Capacity * k /\ k # 0
  BY <1>1, <1>2, <1>3
<1> QED  BY <1>1, <1>4

(* The word of a stream position, and the slot of its sample. *)
WordOf(p) == p % Word
SlotOf(p) == p % Capacity

LEMMA WordOfType == \A p \in Nat : WordOf(p) \in 0 .. (Word - 1) /\ WordOf(p) \in Nat
<1>1. \A p \in Nat : p % Word \in 0 .. (Word - 1)
  BY Constants, DivMod
<1> QED  BY <1>1, Constants DEF WordOf

LEMMA SlotOfType == \A p \in Nat : SlotOf(p) \in 0 .. (Capacity - 1)
  BY Constants, DivMod DEF SlotOf

LEMMA Advance ==
  ASSUME NEW p \in Nat, NEW i \in Nat
  PROVE  wrapping_add(WordOf(p), i) = WordOf(p + i)
  BY Constants, AddMod DEF wrapping_add, WordOf

LEMMA Between ==
  ASSUME NEW p \in Nat, NEW d \in 0 .. Capacity
  PROVE  wrapping_sub(WordOf(p + d), WordOf(p)) = d
<1>1. d \in 0 .. (Word - 1)
  BY Constants
<1> QED  BY <1>1, Constants, Distance, Zenon DEF wrapping_sub, WordOf

LEMMA Masked ==
  ASSUME NEW p \in Nat
  PROVE  masked(WordOf(p)) = SlotOf(p)
<1>1. PICK k \in Nat \ {0} : Word = Capacity * k
  BY Constants
<1> QED  BY <1>1, Constants, ModMod, Zenon DEF masked, WordOf, SlotOf

LEMMA MaskedType == \A p \in Nat : masked(p) \in 0 .. (Capacity - 1)
  BY Constants, DivMod DEF masked

LEMMA WordTypes ==
  ASSUME NEW x \in Nat, NEW y \in 0 .. (Word - 1)
  PROVE  /\ wrapping_add(x, y) \in 0 .. (Word - 1)
         /\ wrapping_sub(x, y) \in 0 .. (Word - 1)
<1>1. x + y \in Nat /\ (x + Word) - y \in Nat
  BY Constants
<1> QED  BY <1>1, Constants, DivMod DEF wrapping_add, wrapping_sub

-----------------------------------------------------------------------------
(* Types, under every load.  The producer is in its block, the consumer in *)
(* its buffer.                                                             *)

InBlock ==
  /\ producer.at = "idle" => producer = IdleProducer
  /\ producer.at # "idle" => producer.len >= 1
  /\ producer.len <= produced
  /\ producer.at = "drop" => producer.i = 0
  /\ producer.at = "copy" => producer.i < producer.len
  /\ producer.at = "publish" => producer.i = producer.len

InBuffer ==
  /\ consumer.at \in {"idle", "head"} => consumer.to_read = 0
  /\ consumer.at # "copy" => Len(consumer.out) = consumer.to_read
  /\ consumer.at = "copy" => Len(consumer.out) < consumer.to_read
  /\ consumer.to_read <= consumer.want

TypeInv == TypeOK /\ InBlock /\ InBuffer

ProducerType ==
  [at : {"idle", "drop", "copy", "publish"}, head : 0 .. (Word - 1),
   drop_to : 0 .. (Word - 1), len : 0 .. MaxWrite, i : 0 .. MaxWrite]

ConsumerType ==
  [at : {"idle", "head", "copy", "publish"}, tail : 0 .. (Word - 1),
   want : 0 .. MaxRead, to_read : 0 .. MaxRead, out : Seq(0 .. MaxSamples)]

LEMMA IdleTypes == IdleProducer \in ProducerType /\ IdleConsumer \in ConsumerType
<1>1. << >> \in Seq(0 .. MaxSamples)
  OBVIOUS
<1> QED  BY <1>1, Constants DEF IdleProducer, IdleConsumer, ProducerType, ConsumerType

LEMMA TypeOKUnfolded ==
  TypeOK <=>
    /\ buf \in [0 .. (Capacity - 1) -> 0 .. MaxSamples]
    /\ head \in 0 .. (Word - 1)
    /\ tail \in 0 .. (Word - 1)
    /\ producer \in ProducerType
    /\ consumer \in ConsumerType
    /\ load \in Loads
    /\ produced \in 0 .. MaxSamples
    /\ played \in Seq(0 .. MaxSamples)
BY DEF TypeOK, ProducerType, ConsumerType

LEMMA InitTypeInv == Init => TypeInv
<1> SUFFICES ASSUME Init PROVE TypeInv
  OBVIOUS
<1>1. producer \in ProducerType /\ consumer \in ConsumerType
  BY IdleTypes DEF Init
<1>2. TypeOK
  BY <1>1, TypeOKUnfolded, Constants DEF Init
<1>3. InBlock /\ InBuffer
  BY DEF Init, InBlock, InBuffer, IdleProducer, IdleConsumer
<1> QED  BY <1>2, <1>3 DEF TypeInv

(* The sizes that write works with. *)
LEMMA FreeType == TypeOK => free \in 0 .. (Word - 1)
<1> SUFFICES ASSUME TypeOK PROVE free \in 0 .. (Word - 1)
  OBVIOUS
<1>1. head \in Nat /\ tail \in 0 .. (Word - 1) /\ Capacity \in Nat
  BY Constants DEF TypeOK
<1>2. wrapping_sub(head, tail) \in 0 .. (Word - 1)
  BY <1>1, WordTypes
<1> QED  BY <1>1, <1>2, WordTypes DEF free

LEMMA ProducerTypeInv ==
  ASSUME TypeInv, Producer
  PROVE  TypeInv'
<1>0. /\ producer \in ProducerType /\ produced \in 0 .. MaxSamples
      /\ head \in 0 .. (Word - 1) /\ tail \in 0 .. (Word - 1)
      /\ buf \in [0 .. (Capacity - 1) -> 0 .. MaxSamples]
  BY TypeOKUnfolded DEF TypeInv
<1>1. UNCHANGED <<consumer, played, load>>
  BY DEF Producer, WriteBegin, WriteDrop, WriteCopy, WritePublish
<1>2. InBuffer' /\ consumer' \in ConsumerType /\ load' \in Loads /\ played' \in Seq(0 .. MaxSamples)
  BY <1>1, TypeOKUnfolded DEF TypeInv, InBuffer
<1>3. ASSUME NEW n \in 1 .. MaxWrite, WriteBegin(n)  PROVE TypeInv'
  <2>1. /\ producer.at = "idle" /\ produced + n <= MaxSamples /\ produced' = produced + n
        /\ producer' = [at      |-> IF n > free THEN "drop" ELSE "copy",
                        head    |-> head,
                        drop_to |-> IF n > free THEN wrapping_add(tail, n - free) ELSE 0,
                        len     |-> n,
                        i       |-> 0]
        /\ UNCHANGED <<buf, head, tail>>
    BY <1>3 DEF WriteBegin
  <2>2. free \in Nat
    BY FreeType, Constants DEF TypeInv
  <2>3. n > free => wrapping_add(tail, n - free) \in 0 .. (Word - 1)
    <3>1. n > free => tail + (n - free) \in Nat
      BY <1>0, <2>2, Constants
    <3> QED  BY <3>1, Constants, DivMod DEF wrapping_add
  <2>4. (IF n > free THEN wrapping_add(tail, n - free) ELSE 0) \in 0 .. (Word - 1)
    BY <2>3, Constants
  <2>5. producer' \in ProducerType /\ produced' \in 0 .. MaxSamples
    BY <1>0, <2>1, <2>4, Constants DEF ProducerType
  <2>6. InBlock'
    BY <1>0, <2>1, Constants DEF InBlock
  <2>7. TypeOK'
    BY <1>0, <1>2, <2>1, <2>5 DEF TypeOK, ProducerType, ConsumerType
  <2> QED  BY <1>2, <2>6, <2>7 DEF TypeInv
<1>4. CASE WriteDrop
  <2>1. producer' \in ProducerType /\ tail' \in 0 .. (Word - 1) /\ UNCHANGED <<buf, head, produced>>
    BY <1>0, <1>4 DEF WriteDrop, ProducerType
  <2>2. InBlock'
    BY <1>0, <1>4, <2>1 DEF WriteDrop, InBlock, TypeInv, ProducerType
  <2>3. TypeOK'
    BY <1>0, <1>2, <2>1 DEF TypeOK, ProducerType, ConsumerType
  <2> QED  BY <1>2, <2>2, <2>3 DEF TypeInv
<1>5. CASE WriteCopy
  <2> DEFINE slot == masked(wrapping_add(producer.head, producer.i))
             sample == produced - producer.len + producer.i + 1
  <2>1. /\ producer.at = "copy" /\ buf' = [buf EXCEPT ![slot] = sample]
        /\ producer' = [producer EXCEPT !.i = @ + 1,
                          !.at = IF producer.i + 1 = producer.len THEN "publish" ELSE @]
        /\ UNCHANGED <<head, tail, produced>>
    BY <1>5 DEF WriteCopy
  <2>2. sample \in 0 .. MaxSamples /\ producer.i + 1 \in 0 .. MaxWrite
    <3>1. /\ producer.len \in 0 .. MaxWrite /\ producer.i \in 0 .. MaxWrite
          /\ producer.len <= produced /\ producer.i < producer.len
          /\ produced \in 0 .. MaxSamples
      BY <1>0, <2>1 DEF TypeInv, InBlock, ProducerType
    <3> QED  BY <3>1, Constants
  <2> HIDE DEF slot, sample
  <2>3. buf' \in [0 .. (Capacity - 1) -> 0 .. MaxSamples]
    BY <1>0, <2>1, <2>2
  <2>4. producer' \in ProducerType
    BY <1>0, <2>1, <2>2 DEF ProducerType
  <2>5. InBlock'
    BY <1>0, <2>1, <2>2 DEF InBlock, TypeInv, ProducerType
  <2>6. TypeOK'
    BY <1>0, <1>2, <2>1, <2>3, <2>4 DEF TypeOK, ProducerType, ConsumerType
  <2> QED  BY <1>2, <2>5, <2>6 DEF TypeInv
<1>6. CASE WritePublish
  <2>1. head' = wrapping_add(producer.head, producer.len) /\ producer' = IdleProducer
        /\ UNCHANGED <<buf, tail, produced>>
    BY <1>6 DEF WritePublish
  <2>2. head' \in 0 .. (Word - 1)
    <3>1. producer.head + producer.len \in Nat
      BY <1>0 DEF ProducerType
    <3> QED  BY <2>1, <3>1, Constants, DivMod DEF wrapping_add
  <2>3. InBlock' /\ producer' \in ProducerType
    BY <1>0, <2>1, IdleTypes DEF InBlock, IdleProducer
  <2>4. TypeOK'
    BY <1>0, <1>2, <2>1, <2>2, <2>3 DEF TypeOK, ProducerType, ConsumerType
  <2> QED  BY <1>2, <2>3, <2>4 DEF TypeInv
<1> QED  BY <1>3, <1>4, <1>5, <1>6 DEF Producer

LEMMA ConsumerTypeInv ==
  ASSUME TypeInv, Consumer
  PROVE  TypeInv'
<1>0. /\ consumer \in ConsumerType /\ played \in Seq(0 .. MaxSamples)
      /\ head \in 0 .. (Word - 1) /\ tail \in 0 .. (Word - 1)
      /\ buf \in [0 .. (Capacity - 1) -> 0 .. MaxSamples]
  BY TypeOKUnfolded DEF TypeInv
<1>1. UNCHANGED <<buf, head, producer, produced, load>>
  BY DEF Consumer, ReadBegin, ReadHead, ReadCopy, ReadPublish
<1>2. /\ InBlock' /\ producer' \in ProducerType /\ load' \in Loads
      /\ produced' \in 0 .. MaxSamples /\ buf' \in [0 .. (Capacity - 1) -> 0 .. MaxSamples]
      /\ head' \in 0 .. (Word - 1)
  BY <1>1, TypeOKUnfolded DEF TypeInv, InBlock
<1>3. ASSUME consumer' \in ConsumerType, played' \in Seq(0 .. MaxSamples), tail' \in 0 .. (Word - 1)
      PROVE  TypeOK'
  BY <1>2, <1>3 DEF TypeOK, ProducerType, ConsumerType
<1>4. ASSUME NEW n \in 1 .. MaxRead, ReadBegin(n)  PROVE TypeInv'
  <2>1. consumer' = [IdleConsumer EXCEPT !.at = "head", !.tail = tail, !.want = n]
        /\ UNCHANGED <<tail, played>>
    BY <1>4 DEF ReadBegin
  <2>2. consumer' \in ConsumerType
    <3>1. consumer' = [at |-> "head", tail |-> tail, want |-> n, to_read |-> 0, out |-> << >>]
      BY <2>1 DEF IdleConsumer
    <3>2. << >> \in Seq(0 .. MaxSamples)
      OBVIOUS
    <3> QED  BY <1>0, <3>1, <3>2, Constants DEF ConsumerType
  <2>3. InBuffer'
    BY <2>1, Constants DEF InBuffer, IdleConsumer
  <2> QED  BY <1>0, <1>2, <1>3, <2>1, <2>2, <2>3 DEF TypeInv
<1>5. CASE ReadHead
  <2>1. PICK n : /\ n = to_read(consumer.want, wrapping_sub(head, consumer.tail))
                 /\ consumer' = [consumer EXCEPT !.to_read = n,
                                     !.at = IF n = 0 THEN "publish" ELSE "copy"]
                 /\ consumer.at = "head" /\ UNCHANGED <<tail, played>>
    BY <1>5 DEF ReadHead
  <2>2. n \in 0 .. consumer.want
    <3>1. wrapping_sub(head, consumer.tail) \in Nat
      <4>1. consumer.tail \in 0 .. (Word - 1) /\ head \in Nat
        BY <1>0, Constants DEF ConsumerType
      <4>2. wrapping_sub(head, consumer.tail) \in 0 .. (Word - 1)
        BY <4>1, WordTypes
      <4> QED  BY <4>2, Constants
    <3> QED  BY <1>0, <2>1, <3>1 DEF to_read, Least, ConsumerType
  <2>3. consumer' \in ConsumerType
    <3>1. consumer' = [at |-> IF n = 0 THEN "publish" ELSE "copy", tail |-> consumer.tail,
                       want |-> consumer.want, to_read |-> n, out |-> consumer.out]
      BY <1>0, <2>1 DEF ConsumerType
    <3>2. n \in 0 .. MaxRead
      BY <1>0, <2>2, Constants DEF ConsumerType
    <3> QED  BY <1>0, <3>1, <3>2 DEF ConsumerType
  <2>4. Len(consumer.out) = 0
    BY <2>1 DEF TypeInv, InBuffer
  <2>5. InBuffer'
    BY <1>0, <2>1, <2>2, <2>4 DEF InBuffer, ConsumerType
  <2> QED  BY <1>0, <1>2, <1>3, <2>1, <2>3, <2>5 DEF TypeInv
<1>6. CASE ReadCopy
  <2>1. PICK s, out :
          /\ s = masked(wrapping_add(consumer.tail, Len(consumer.out)))
          /\ out = Append(consumer.out, buf[s])
          /\ consumer' = [consumer EXCEPT !.out = out,
                            !.at = IF Len(out) = consumer.to_read THEN "publish" ELSE @]
          /\ consumer.at = "copy" /\ UNCHANGED <<tail, played>>
    BY <1>6 DEF ReadCopy
  <2>2. buf[s] \in 0 .. MaxSamples
    <3>1. wrapping_add(consumer.tail, Len(consumer.out)) \in Nat
      <4>1. consumer.tail + Len(consumer.out) \in Nat
        BY <1>0 DEF ConsumerType
      <4> QED  BY <4>1, Constants, DivMod DEF wrapping_add
    <3> QED  BY <1>0, <2>1, <3>1, MaskedType
  <2>3. out \in Seq(0 .. MaxSamples) /\ Len(out) = Len(consumer.out) + 1
    BY <1>0, <2>1, <2>2 DEF ConsumerType
  <2>4. consumer' \in ConsumerType
    BY <1>0, <2>1, <2>3 DEF ConsumerType
  <2>5. InBuffer'
    BY <1>0, <2>1, <2>3 DEF InBuffer, TypeInv, ConsumerType
  <2> QED  BY <1>0, <1>2, <1>3, <2>1, <2>4, <2>5 DEF TypeInv
<1>7. CASE ReadPublish
  <2>1. /\ tail' = wrapping_add(consumer.tail, consumer.to_read)
        /\ played' = played \o consumer.out /\ consumer' = IdleConsumer
    BY <1>7 DEF ReadPublish
  <2>2. tail' \in 0 .. (Word - 1)
    <3>1. consumer.tail + consumer.to_read \in Nat
      BY <1>0 DEF ConsumerType
    <3> QED  BY <2>1, <3>1, Constants, DivMod DEF wrapping_add
  <2>3. played' \in Seq(0 .. MaxSamples)
    BY <1>0, <2>1 DEF ConsumerType
  <2>4. InBuffer'
    BY <2>1 DEF InBuffer, IdleConsumer
  <2> QED  BY <1>2, <1>3, <2>1, <2>2, <2>3, <2>4, IdleTypes DEF TypeInv
<1> QED  BY <1>4, <1>5, <1>6, <1>7 DEF Consumer

LEMMA NextTypeInv == TypeInv /\ [Next]_vars => TypeInv'
<1>1. ASSUME TypeInv, UNCHANGED vars  PROVE TypeInv'
  BY <1>1 DEF TypeInv, TypeOK, InBlock, InBuffer, vars
<1> QED  BY <1>1, ProducerTypeInv, ConsumerTypeInv DEF Next

(* Every variable keeps its type, also when the two callbacks overrun each *)
(* other: no index leaves the buffer and no position its word.             *)
THEOREM RingTypes == Spec => []TypeOK
<1>1. TypeInv => TypeOK
  BY DEF TypeInv
<1> QED  BY <1>1, InitTypeInv, NextTypeInv, PTL DEF Spec

-----------------------------------------------------------------------------
(* The samples that follow position f, q of them, as a sequence.           *)
Run(f, q) == [i \in 1 .. q |-> f + i]

LEMMA RunSeq ==
  ASSUME NEW f \in Nat, NEW q \in Nat
  PROVE  Run(f, q) \in Seq(Nat) /\ Len(Run(f, q)) = q /\ \A i \in 1 .. q : Run(f, q)[i] = f + i
BY DEF Run

LEMMA RunAppend ==
  ASSUME NEW f \in Nat, NEW q \in Nat, NEW n \in Nat
  PROVE  Run(f, q) \o Run(f + q, n) = Run(f, q + n)
<1> DEFINE a == Run(f, q)
           b == Run(f + q, n)
           c == Run(f, q + n)
<1>1. /\ a \in Seq(Nat) /\ Len(a) = q /\ \A i \in 1 .. q : a[i] = f + i
      /\ b \in Seq(Nat) /\ Len(b) = n /\ \A i \in 1 .. n : b[i] = f + q + i
      /\ c \in Seq(Nat) /\ Len(c) = q + n /\ \A i \in 1 .. (q + n) : c[i] = f + i
  <2>1. q + n \in Nat /\ f + q \in Nat
    OBVIOUS
  <2> QED  BY <2>1, RunSeq
<1> HIDE DEF a, b, c
<1>2. a \o b \in Seq(Nat) /\ Len(a \o b) = q + n
  BY <1>1, ConcatProperties
<1>3. ASSUME NEW i \in 1 .. (q + n)  PROVE (a \o b)[i] = c[i]
  <2>1. (a \o b)[i] = IF i <= q THEN a[i] ELSE b[i - q]
    BY <1>1, ConcatProperties
  <2>2. CASE i <= q
    BY <1>1, <2>1, <2>2
  <2>3. CASE i > q
    <3>1. i - q \in 1 .. n
      BY <2>3
    <3>2. (a \o b)[i] = b[i - q]
      BY <2>1, <2>3
    <3> QED  BY <1>1, <3>1, <3>2
  <2>4. i <= q \/ i > q
    OBVIOUS
  <2> QED  BY <2>2, <2>3, <2>4
<1>4. a \o b = c
  BY <1>1, <1>2, <1>3, SeqEqual
<1> QED  BY <1>4 DEF a, b, c

LEMMA RunSplit ==
  ASSUME NEW f \in Nat, NEW q \in Nat, NEW n \in 0 .. q
  PROVE  /\ SubSeq(Run(f, q), 1, n) = Run(f, n)
         /\ SubSeq(Run(f, q), n + 1, Len(Run(f, q))) = Run(f + n, q - n)
<1> DEFINE a == Run(f, q)
           b == Run(f, n)
           c == Run(f + n, q - n)
<1>1. /\ a \in Seq(Nat) /\ Len(a) = q /\ \A i \in 1 .. q : a[i] = f + i
      /\ b \in Seq(Nat) /\ Len(b) = n /\ \A i \in 1 .. n : b[i] = f + i
      /\ c \in Seq(Nat) /\ Len(c) = q - n /\ \A i \in 1 .. (q - n) : c[i] = f + n + i
  <2>1. q - n \in Nat /\ f + n \in Nat /\ n \in Nat
    OBVIOUS
  <2> QED  BY <2>1, RunSeq
<1> HIDE DEF a, b, c
<1>2. SubSeq(a, 1, n) = b
  <2>1. SubSeq(a, 1, n) \in Seq(Nat) /\ Len(SubSeq(a, 1, n)) = n
    BY <1>1
  <2>2. ASSUME NEW i \in 1 .. n  PROVE SubSeq(a, 1, n)[i] = b[i]
    BY <1>1
  <2> QED  BY <1>1, <2>1, <2>2, SeqEqual
<1>3. SubSeq(a, n + 1, q) = c
  <2>1. SubSeq(a, n + 1, q) \in Seq(Nat) /\ Len(SubSeq(a, n + 1, q)) = q - n
    BY <1>1
  <2>2. ASSUME NEW i \in 1 .. (q - n)  PROVE SubSeq(a, n + 1, q)[i] = c[i]
    BY <1>1
  <2> QED  BY <1>1, <2>1, <2>2, SeqEqual
<1> QED  BY <1>1, <1>2, <1>3 DEF a, b, c

-----------------------------------------------------------------------------
(* The inductive invariant.                                                *)
Queued == wrapping_sub(head, tail)
First  == published - Queued

(* The words stand for their positions, at most a buffer apart. *)
Positions ==
  /\ Queued \in 0 .. Capacity
  /\ Queued <= published
  /\ head = WordOf(published)
  /\ tail = WordOf(First)

(* The slots of b from position f on, q of them, hold their samples. *)
Holds(b, f, q) == \A j \in 0 .. (q - 1) : b[SlotOf(f + j)] = f + j + 1

(* What the producer read of tail is still true, and the samples that it   *)
(* has copied are behind head, in slots that are free.                     *)
Writing ==
  producer.at # "idle" =>
    /\ producer.head = head
    /\ producer.at = "drop" =>
         /\ load = "alternating" /\ consumer.at = "idle"
         /\ producer.len > Capacity - Queued
         /\ producer.drop_to = WordOf(First + (producer.len - (Capacity - Queued)))
    /\ producer.at # "drop" => Queued + producer.len <= Capacity
    /\ Holds(buf, published, producer.i)

(* What the consumer read of head and tail is still true, and so are the   *)
(* samples it has copied out.                                              *)
Reading ==
  consumer.at # "idle" =>
    /\ load = "alternating" => producer.at = "idle"
    /\ consumer.tail = tail
    /\ consumer.to_read <= Queued
    /\ consumer.out = Run(First, Len(consumer.out))

RingInv ==
  /\ TypeInv
  /\ load # "any"
  /\ Positions
  /\ Holds(buf, First, Queued)
  /\ Writing
  /\ Reading

(* The facts about types that the steps use. *)
LEMMA Numbers ==
  ASSUME RingInv
  PROVE  /\ published \in Nat /\ Queued \in 0 .. Capacity /\ First \in Nat
         /\ published = First + Queued /\ Capacity \in Nat
         /\ free = Capacity - Queued
         /\ producer \in ProducerType /\ consumer \in ConsumerType /\ produced \in Nat
         /\ buf \in [0 .. (Capacity - 1) -> 0 .. MaxSamples]
         /\ producer.len \in Nat /\ producer.i \in Nat
         /\ published = produced - producer.len
<1>1. /\ producer \in ProducerType /\ consumer \in ConsumerType /\ produced \in 0 .. MaxSamples
      /\ buf \in [0 .. (Capacity - 1) -> 0 .. MaxSamples]
  BY TypeOKUnfolded DEF RingInv, TypeInv
<1>2. /\ producer.len \in Nat /\ producer.i \in Nat /\ producer.len <= produced
      /\ producer.at = "idle" => producer.len = 0
  BY <1>1, Constants DEF RingInv, TypeInv, InBlock, ProducerType, IdleProducer
<1>3. published = produced - producer.len /\ published \in Nat
  BY <1>1, <1>2, Constants DEF published
<1>4. Queued \in 0 .. Capacity /\ Queued <= published
  BY DEF RingInv, Positions
<1>5. First \in Nat /\ published = First + Queued
  BY <1>3, <1>4, Constants DEF First
<1>6. free = Capacity - Queued
  <2>1. free = wrapping_sub(Capacity, Queued)
    BY DEF free, Queued
  <2>2. (Capacity + Word) - Queued = Word * 1 + (Capacity - Queued)
    BY <1>4, Constants
  <2>3. Capacity - Queued \in 0 .. (Word - 1) /\ (Capacity + Word) - Queued \in Nat
    BY <1>4, Constants
  <2>4. ((Capacity + Word) - Queued) % Word = Capacity - Queued
    BY <2>2, <2>3, Constants, Unique
  <2> QED  BY <2>1, <2>4 DEF wrapping_sub
<1> QED  BY <1>1, <1>2, <1>3, <1>4, <1>5, <1>6, Constants

(* The queue of the specification is the run of samples from First on. *)
LEMMA WindowIsRun == RingInv => Window = Run(First, Queued)
<1> SUFFICES ASSUME RingInv PROVE Window = Run(First, Queued)
  OBVIOUS
<1>1. First \in Nat /\ Queued \in Nat /\ Capacity \in Nat /\ tail = WordOf(First)
  BY Numbers, Constants DEF RingInv, Positions
<1>2. ASSUME NEW i \in 1 .. Queued
      PROVE  buf[masked(wrapping_add(tail, i - 1))] = First + i
  <2>1. i - 1 \in Nat /\ i - 1 \in 0 .. (Queued - 1) /\ First + (i - 1) \in Nat
    BY <1>1
  <2>2. masked(wrapping_add(tail, i - 1)) = SlotOf(First + (i - 1))
    BY <1>1, <2>1, Advance, Masked
  <2>3. buf[SlotOf(First + (i - 1))] = First + (i - 1) + 1
    BY <2>1 DEF RingInv, Holds
  <2> QED  BY <1>1, <2>2, <2>3
<1> QED  BY <1>2, Zenon DEF Window, Run, Queued

LEMMA WindowIsRunPrime == (RingInv => Window = Run(First, Queued))'
BY WindowIsRun, PTL

LEMMA EmptyRun == \A f : Run(f, 0) = << >>
BY DEF Run

(* A sample copied behind a stretch does not disturb it, if the two are    *)
(* less than a buffer apart.                                               *)
LEMMA HoldsBehind ==
  ASSUME NEW b \in [0 .. (Capacity - 1) -> 0 .. MaxSamples],
         NEW f \in Nat, NEW q \in Nat, NEW x \in Nat,
         f + q <= x, x < f + Capacity, Holds(b, f, q)
  PROVE  Holds([b EXCEPT ![SlotOf(x)] = x + 1], f, q)
<1> SUFFICES ASSUME NEW j \in 0 .. (q - 1)
             PROVE  [b EXCEPT ![SlotOf(x)] = x + 1][SlotOf(f + j)] = f + j + 1
  BY DEF Holds
<1>1. f + j \in Nat /\ x - (f + j) \in 1 .. (Capacity - 1) /\ x = (f + j) + (x - (f + j))
  BY Constants
<1>2. SlotOf(x) # SlotOf(f + j)
  BY <1>1, SlotsDiffer, Constants DEF SlotOf
<1>3. b[SlotOf(f + j)] = f + j + 1
  BY DEF Holds
<1> QED  BY <1>1, <1>2, <1>3, SlotOfType

LEMMA HoldsNext ==
  ASSUME NEW b \in [0 .. (Capacity - 1) -> 0 .. MaxSamples],
         NEW f \in Nat, NEW q \in Nat, q < Capacity, Holds(b, f, q)
  PROVE  Holds([b EXCEPT ![SlotOf(f + q)] = f + q + 1], f, q + 1)
<1> DEFINE c == [b EXCEPT ![SlotOf(f + q)] = f + q + 1]
<1>1. Holds(c, f, q)
  <2>1. f + q \in Nat /\ f + q <= f + q /\ f + q < f + Capacity
    BY Constants
  <2> QED  BY <2>1, HoldsBehind
<1>2. c[SlotOf(f + q)] = f + q + 1
  <2>1. f + q \in Nat
    OBVIOUS
  <2>2. SlotOf(f + q) \in 0 .. (Capacity - 1)
    BY <2>1, SlotOfType
  <2> QED  BY <2>2
<1> HIDE DEF c
<1>3. ASSUME NEW j \in 0 .. ((q + 1) - 1)  PROVE c[SlotOf(f + j)] = f + j + 1
  <2>1. j \in 0 .. (q - 1) \/ j = q
    OBVIOUS
  <2> QED  BY <1>1, <1>2, <2>1 DEF Holds
<1>4. Holds(c, f, q + 1)
  BY <1>3 DEF Holds
<1> QED  BY <1>4 DEF c

LEMMA HoldsJoin ==
  ASSUME NEW b, NEW f \in Nat, NEW q \in Nat, NEW n \in Nat,
         Holds(b, f, q), Holds(b, f + q, n)
  PROVE  Holds(b, f, q + n)
<1> SUFFICES ASSUME NEW j \in 0 .. ((q + n) - 1)  PROVE b[SlotOf(f + j)] = f + j + 1
  BY DEF Holds
<1>1. CASE j < q
  BY <1>1 DEF Holds
<1>2. CASE j >= q
  <2>1. j - q \in 0 .. (n - 1) /\ (f + q) + (j - q) = f + j
    BY <1>2
  <2>2. b[SlotOf((f + q) + (j - q))] = (f + q) + (j - q) + 1
    BY <2>1 DEF Holds
  <2> QED  BY <2>1, <2>2
<1> QED  BY <1>1, <1>2

LEMMA HoldsRest ==
  ASSUME NEW b, NEW f \in Nat, NEW q \in Nat, NEW n \in 0 .. q, Holds(b, f, q)
  PROVE  Holds(b, f + n, q - n)
<1> SUFFICES ASSUME NEW j \in 0 .. ((q - n) - 1)  PROVE b[SlotOf((f + n) + j)] = (f + n) + j + 1
  BY DEF Holds
<1>1. n + j \in 0 .. (q - 1) /\ f + (n + j) = (f + n) + j
  OBVIOUS
<1>2. b[SlotOf(f + (n + j))] = f + (n + j) + 1
  BY <1>1 DEF Holds
<1> QED  BY <1>1, <1>2

-----------------------------------------------------------------------------
(* What may follow when no position moves. *)
LEMMA SamePositions ==
  ASSUME RingInv, UNCHANGED <<head, tail>>, published' = published
  PROVE  Queued' = Queued /\ First' = First /\ Positions'
<1>1. Queued' = Queued /\ First' = First
  BY DEF Queued, First, wrapping_sub
<1> QED  BY <1>1 DEF RingInv, Positions, WordOf

LEMMA InitRingInv ==
  ASSUME Init, "any" \notin Loads
  PROVE  RingInv
<1>1. TypeInv /\ load # "any"
  BY InitTypeInv DEF Init
<1>2. published = 0 /\ head = 0 /\ tail = 0
  BY DEF Init, published, IdleProducer
<1>3. WordOf(0) = 0
  <2>1. 0 = Word * 0 + 0 /\ 0 \in 0 .. (Word - 1)
    BY Constants
  <2> QED  BY <2>1, Unique, Constants DEF WordOf
<1>4. Queued = 0
  <2>1. wrapping_sub(WordOf(0 + 0), WordOf(0)) = 0
    BY Between, Constants
  <2> QED  BY <1>2, <1>3, <2>1 DEF Queued
<1>5. First = 0
  BY <1>2, <1>4 DEF First
<1>6. Positions
  BY <1>2, <1>3, <1>4, <1>5, Constants DEF Positions
<1>7. Holds(buf, First, Queued)
  BY <1>4 DEF Holds
<1>8. Writing /\ Reading
  BY DEF Init, Writing, Reading, IdleProducer, IdleConsumer
<1> QED  BY <1>1, <1>6, <1>7, <1>8 DEF RingInv

-----------------------------------------------------------------------------
(* The steps of the producer.                                              *)

LEMMA WriteBeginInv ==
  ASSUME RingInv, NEW n \in 1 .. MaxWrite, WriteBegin(n), TypeInv'
  PROVE  RingInv' /\ UNCHANGED <<load, published, Window, played>>
<1>0. /\ published \in Nat /\ Queued \in 0 .. Capacity /\ First \in Nat /\ Capacity \in Nat
      /\ free = Capacity - Queued /\ produced \in Nat /\ load \in LoadKinds
  BY Numbers, LoadsAssumption DEF RingInv, TypeInv, TypeOK
<1>1. /\ producer.at = "idle" /\ produced' = produced + n
      /\ load = "paced" => n <= free
      /\ load = "alternating" => consumer.at = "idle"
      /\ producer' = [at      |-> IF n > free THEN "drop" ELSE "copy",
                      head    |-> head,
                      drop_to |-> IF n > free THEN wrapping_add(tail, n - free) ELSE 0,
                      len     |-> n,
                      i       |-> 0]
      /\ UNCHANGED <<buf, head, tail, consumer, played, load>>
  BY DEF WriteBegin
<1>2. published = produced /\ published' = published
  BY <1>0, <1>1 DEF published
<1>3. Queued' = Queued /\ First' = First /\ Positions'
  BY <1>1, <1>2, SamePositions
<1>4. Holds(buf, First, Queued)'
  BY <1>1, <1>3 DEF RingInv, Holds
<1>5. Writing'
  <2>1. CASE n > free
    <3>1. load = "alternating" /\ consumer.at = "idle"
      BY <1>0, <1>1, <2>1 DEF RingInv, LoadKinds
    <3>2. n - free \in Nat /\ tail = WordOf(First)
      BY <1>0, <2>1 DEF RingInv, Positions
    <3>3. producer'.drop_to = WordOf(First + (n - (Capacity - Queued)))
      BY <1>0, <1>1, <2>1, <3>2, Advance
    <3>4. producer'.at = "drop" /\ producer'.len = n /\ producer'.head = head'
          /\ producer'.i = 0
      BY <1>1, <2>1
    <3>5. Holds(buf, published, producer.i)'
      BY <3>4 DEF Holds
    <3> QED  BY <1>0, <1>1, <1>3, <2>1, <3>1, <3>3, <3>4, <3>5 DEF Writing
  <2>2. CASE ~(n > free)
    <3>1. producer'.at = "copy" /\ producer'.len = n /\ producer'.head = head'
          /\ producer'.i = 0
      BY <1>1, <2>2
    <3>2. Holds(buf, published, producer.i)'
      BY <3>1 DEF Holds
    <3>3. Queued' + producer'.len <= Capacity
      BY <1>0, <1>3, <2>2, <3>1
    <3> QED  BY <3>1, <3>2, <3>3 DEF Writing
  <2> QED  BY <2>1, <2>2
<1>6. Reading'
  BY <1>1, <1>3 DEF RingInv, Reading
<1>7. RingInv'
  BY <1>1, <1>3, <1>4, <1>5, <1>6 DEF RingInv
<1>8. Window' = Window
  BY <1>1 DEF Window, wrapping_sub, wrapping_add, masked
<1> QED  BY <1>1, <1>2, <1>7, <1>8

LEMMA WriteDropInv ==
  ASSUME RingInv, MaxWrite <= Capacity, WriteDrop, TypeInv'
  PROVE  /\ RingInv'
         /\ UNCHANGED <<load, published, played>>
         /\ load = "alternating"
         /\ \E k \in 1 .. Queued : First' = First + k /\ Queued' = Queued - k
<1> DEFINE k == producer.len - (Capacity - Queued)
<1>0. /\ published \in Nat /\ Queued \in 0 .. Capacity /\ First \in Nat /\ Capacity \in Nat
      /\ published = First + Queued /\ producer \in ProducerType /\ producer.len \in Nat
      /\ producer.len <= Capacity
  <2>1. producer \in ProducerType
    BY Numbers
  <2>2. producer.len \in 0 .. MaxWrite
    BY <2>1 DEF ProducerType
  <2> QED  BY <2>1, <2>2, Numbers, Constants
<1>1. /\ producer.at = "drop" /\ tail' = producer.drop_to
      /\ producer' = [producer EXCEPT !.at = "copy"]
      /\ UNCHANGED <<buf, head, consumer, produced, played, load>>
  BY DEF WriteDrop
<1>2. /\ load = "alternating" /\ consumer.at = "idle" /\ producer.head = head
      /\ producer.len > Capacity - Queued /\ producer.drop_to = WordOf(First + k)
  BY <1>1 DEF RingInv, Writing
<1>3. producer'.at = "copy" /\ producer'.len = producer.len /\ producer'.i = 0
      /\ producer'.head = producer.head
  BY <1>0, <1>1 DEF RingInv, TypeInv, InBlock, ProducerType
<1>4. published' = published
  BY <1>1, <1>3 DEF published
<1>5. k \in 1 .. Queued
  BY <1>0, <1>2
<1> HIDE DEF k
<1>6. First + k \in Nat /\ Queued - k \in 0 .. Capacity /\ published = (First + k) + (Queued - k)
  BY <1>0, <1>5
<1>7. Queued' = Queued - k
  <2>1. head' = WordOf((First + k) + (Queued - k)) /\ tail' = WordOf(First + k)
    BY <1>1, <1>2, <1>6 DEF RingInv, Positions
  <2>2. wrapping_sub(head', tail') = Queued - k
    BY <1>6, <2>1, Between
  <2> QED  BY <2>2 DEF Queued, wrapping_sub
<1>8. First' = First + k
  BY <1>0, <1>4, <1>5, <1>6, <1>7 DEF First
<1>9. Positions'
  <2>1. head' = WordOf(published')
    BY <1>1, <1>4 DEF RingInv, Positions
  <2>2. tail' = WordOf(First')
    BY <1>1, <1>2, <1>8
  <2> QED  BY <1>0, <1>4, <1>5, <1>6, <1>7, <2>1, <2>2 DEF Positions, WordOf
<1>10. Holds(buf, First, Queued)'
  <2>1. Holds(buf, First, Queued) /\ k \in 0 .. Queued /\ Queued \in Nat
    BY <1>0, <1>5 DEF RingInv
  <2>2. Holds(buf, First + k, Queued - k)
    BY <1>0, <2>1, HoldsRest
  <2> QED  BY <1>1, <1>7, <1>8, <2>2 DEF Holds
<1>11. Writing'
  <2>1. Queued' + producer'.len <= Capacity
    BY <1>0, <1>3, <1>5, <1>7 DEF k
  <2>2. Holds(buf, published, producer.i)'
    BY <1>3 DEF Holds
  <2> QED  BY <1>1, <1>2, <1>3, <2>1, <2>2 DEF Writing
<1>12. Reading'
  BY <1>1, <1>2 DEF Reading
<1> QED  BY <1>1, <1>2, <1>4, <1>5, <1>7, <1>8, <1>9, <1>10, <1>11, <1>12 DEF RingInv

LEMMA WriteCopyInv ==
  ASSUME RingInv, WriteCopy, TypeInv'
  PROVE  RingInv' /\ UNCHANGED <<load, published, Queued, First, played>>
<1>0. /\ published \in Nat /\ Queued \in 0 .. Capacity /\ First \in Nat /\ Capacity \in Nat
      /\ published = First + Queued /\ producer \in ProducerType
      /\ producer.len \in Nat /\ producer.i \in Nat /\ published = produced - producer.len
      /\ produced \in Nat /\ buf \in [0 .. (Capacity - 1) -> 0 .. MaxSamples]
  BY Numbers
<1>1. /\ producer.at = "copy"
      /\ buf' = [buf EXCEPT ![masked(wrapping_add(producer.head, producer.i))] =
                              produced - producer.len + producer.i + 1]
      /\ producer' = [producer EXCEPT !.i = @ + 1,
                        !.at = IF producer.i + 1 = producer.len THEN "publish" ELSE @]
      /\ UNCHANGED <<head, tail, consumer, produced, played, load>>
  BY DEF WriteCopy
<1>2. /\ producer'.at \in {"copy", "publish"} /\ producer'.i = producer.i + 1
      /\ producer'.len = producer.len /\ producer'.head = producer.head
  BY <1>0, <1>1 DEF ProducerType
<1>3. published' = published
  BY <1>0, <1>1, <1>2 DEF published
<1>4. Queued' = Queued /\ First' = First /\ Positions'
  BY <1>1, <1>3, SamePositions
<1>5. /\ producer.head = head /\ Queued + producer.len <= Capacity
      /\ Holds(buf, published, producer.i) /\ producer.i < producer.len
  BY <1>1 DEF RingInv, Writing, TypeInv, InBlock
<1>6. published + producer.i \in Nat
      /\ masked(wrapping_add(producer.head, producer.i)) = SlotOf(published + producer.i)
  <2>1. published + producer.i \in Nat /\ head = WordOf(published)
    BY <1>0 DEF RingInv, Positions
  <2>2. wrapping_add(producer.head, producer.i) = WordOf(published + producer.i)
    BY <1>0, <1>5, <2>1, Advance
  <2> QED  BY <2>1, <2>2, Masked
<1>7. buf' = [buf EXCEPT ![SlotOf(published + producer.i)] = published + producer.i + 1]
  BY <1>0, <1>1, <1>6
<1>8. Holds(buf', First, Queued)
  <2>1. First + Queued <= published + producer.i /\ published + producer.i < First + Capacity
    BY <1>0, <1>5
  <2>2. Holds(buf, First, Queued) /\ Queued \in Nat
    BY <1>0 DEF RingInv
  <2> QED  BY <1>0, <1>6, <1>7, <2>1, <2>2, HoldsBehind
<1>9. Holds(buf', published, producer.i + 1)
  <2>1. producer.i < Capacity
    BY <1>0, <1>5
  <2> QED  BY <1>0, <1>5, <1>7, <2>1, HoldsNext
<1>10. Writing'
  BY <1>0, <1>1, <1>2, <1>3, <1>4, <1>5, <1>9 DEF Writing
<1>11. Reading'
  BY <1>1, <1>2, <1>4 DEF RingInv, Reading
<1> QED  BY <1>1, <1>3, <1>4, <1>8, <1>10, <1>11 DEF RingInv

LEMMA WritePublishInv ==
  ASSUME RingInv, WritePublish, TypeInv'
  PROVE  /\ RingInv'
         /\ UNCHANGED <<load, First, played>>
         /\ \E n \in Nat \ {0} : published' = published + n /\ Queued' = Queued + n
<1> DEFINE n == producer.len
<1>0. /\ published \in Nat /\ Queued \in 0 .. Capacity /\ First \in Nat /\ Capacity \in Nat
      /\ published = First + Queued /\ n \in Nat
      /\ published = produced - n /\ produced \in Nat
  BY Numbers
<1>1. /\ producer.at = "publish" /\ head' = wrapping_add(producer.head, n)
      /\ producer' = IdleProducer /\ producer'.at = "idle"
      /\ UNCHANGED <<buf, tail, consumer, produced, played, load>>
  BY DEF WritePublish, IdleProducer
<1>2. /\ producer.head = head /\ Queued + n <= Capacity
      /\ Holds(buf, published, n) /\ n >= 1
  BY <1>0, <1>1 DEF RingInv, Writing, TypeInv, InBlock
<1> HIDE DEF n
<1>3. published' = published + n
  BY <1>0, <1>1 DEF published
<1>4. head' = WordOf(published + n)
  BY <1>0, <1>1, <1>2, Advance DEF RingInv, Positions
<1>5. Queued' = Queued + n
  <2>1. head' = WordOf(First + (Queued + n)) /\ tail' = WordOf(First)
    BY <1>0, <1>1, <1>4 DEF RingInv, Positions
  <2>2. Queued + n \in 0 .. Capacity
    BY <1>0, <1>2
  <2>3. wrapping_sub(head', tail') = Queued + n
    BY <1>0, <2>1, <2>2, Between
  <2> QED  BY <2>3 DEF Queued, wrapping_sub
<1>6. First' = First
  BY <1>0, <1>3, <1>5 DEF First
<1>7. Positions'
  BY <1>0, <1>1, <1>2, <1>3, <1>4, <1>5, <1>6 DEF RingInv, Positions, WordOf
<1>8. Holds(buf, First, Queued + n)
  <2>1. Holds(buf, First, Queued) /\ Queued \in Nat
    BY <1>0 DEF RingInv
  <2> QED  BY <1>0, <1>2, <2>1, HoldsJoin
<1>9. Holds(buf, First, Queued)'
  BY <1>1, <1>5, <1>6, <1>8 DEF Holds
<1>10. Writing'
  BY <1>1 DEF Writing
<1>11. Reading'
  <2>1. consumer \in ConsumerType
    BY Numbers
  <2>2. consumer.to_read \in Nat
    BY <2>1, Constants DEF ConsumerType
  <2>3. consumer.at # "idle" => consumer.to_read <= Queued'
    BY <1>0, <1>5, <2>2 DEF RingInv, Reading
  <2> QED  BY <1>1, <1>6, <2>3 DEF RingInv, Reading
<1> QED  BY <1>0, <1>1, <1>2, <1>3, <1>5, <1>6, <1>7, <1>9, <1>10, <1>11 DEF RingInv

-----------------------------------------------------------------------------
(* The steps of the consumer.                                              *)

LEMMA ReadBeginInv ==
  ASSUME RingInv, NEW n \in 1 .. MaxRead, ReadBegin(n), TypeInv'
  PROVE  RingInv' /\ UNCHANGED <<load, published, Queued, First, played>>
<1>0. Queued \in 0 .. Capacity /\ First \in Nat
  BY Numbers
<1>1. /\ consumer.at = "idle"
      /\ load = "alternating" => producer.at = "idle"
      /\ consumer' = [IdleConsumer EXCEPT !.at = "head", !.tail = tail, !.want = n]
      /\ UNCHANGED <<buf, head, tail, producer, produced, played, load>>
  BY DEF ReadBegin
<1>2. published' = published
  BY <1>1 DEF published
<1>3. Queued' = Queued /\ First' = First /\ Positions'
  BY <1>1, <1>2, SamePositions
<1>4. Holds(buf, First, Queued)'
  BY <1>1, <1>3 DEF RingInv, Holds
<1>5. Writing'
  BY <1>1, <1>2, <1>3 DEF RingInv, Writing
<1>6. Reading'
  <2>1. consumer'.tail = tail /\ consumer'.to_read = 0 /\ consumer'.out = << >>
    BY <1>1 DEF IdleConsumer
  <2>2. consumer'.out = Run(First', Len(consumer'.out))
    BY <2>1, EmptyRun
  <2>3. consumer'.to_read <= Queued'
    BY <1>0, <1>3, <2>1
  <2>4. (load = "alternating" => producer.at = "idle")' /\ consumer'.tail = tail'
    <3>1. UNCHANGED <<tail, load, producer>>
      BY <1>1
    <3>2. load = "alternating" => producer.at = "idle"
      BY <1>1
    <3> QED  BY <2>1, <3>1, <3>2
  <2> QED  BY <2>2, <2>3, <2>4 DEF Reading
<1> QED  BY <1>1, <1>2, <1>3, <1>4, <1>5, <1>6 DEF RingInv

LEMMA ReadHeadInv ==
  ASSUME RingInv, ReadHead, TypeInv'
  PROVE  RingInv' /\ UNCHANGED <<load, published, Queued, First, played>>
<1> DEFINE n == to_read(consumer.want, wrapping_sub(head, consumer.tail))
<1>0. Queued \in 0 .. Capacity /\ First \in Nat /\ Capacity \in Nat /\ consumer \in ConsumerType
  BY Numbers
<1>1. /\ consumer.at = "head"
      /\ consumer' = [consumer EXCEPT !.to_read = n,
                                      !.at = IF n = 0 THEN "publish" ELSE "copy"]
      /\ UNCHANGED <<buf, head, tail, producer, produced, played, load>>
  BY DEF ReadHead
<1>2. /\ load = "alternating" => producer.at = "idle"
      /\ consumer.tail = tail /\ consumer.out = Run(First, Len(consumer.out))
  BY <1>1 DEF RingInv, Reading
<1>3. n <= Queued
  <2>1. wrapping_sub(head, consumer.tail) = Queued
    BY <1>2 DEF Queued
  <2>2. consumer.want \in Nat
    BY <1>0, Constants DEF ConsumerType
  <2> QED  BY <1>0, <2>1, <2>2 DEF to_read, Least
<1> HIDE DEF n
<1>4. published' = published
  BY <1>1 DEF published
<1>5. Queued' = Queued /\ First' = First /\ Positions'
  BY <1>1, <1>4, SamePositions
<1>6. Holds(buf, First, Queued)'
  BY <1>1, <1>5 DEF RingInv, Holds
<1>7. Writing'
  <2>1. producer.at # "drop"
    BY <1>1 DEF RingInv, Writing
  <2> QED  BY <1>1, <1>4, <1>5, <2>1 DEF RingInv, Writing
<1>8. Reading'
  <2>1. consumer'.tail = consumer.tail /\ consumer'.to_read = n /\ consumer'.out = consumer.out
    BY <1>0, <1>1 DEF ConsumerType
  <2> QED  BY <1>1, <1>2, <1>3, <1>5, <2>1 DEF Reading
<1> QED  BY <1>1, <1>4, <1>5, <1>6, <1>7, <1>8 DEF RingInv

LEMMA ReadCopyInv ==
  ASSUME RingInv, ReadCopy, TypeInv'
  PROVE  RingInv' /\ UNCHANGED <<load, published, Queued, First, played>>
<1> DEFINE i == Len(consumer.out)
           s == buf[masked(wrapping_add(consumer.tail, i))]
           out == Append(consumer.out, s)
<1>0. Queued \in 0 .. Capacity /\ First \in Nat /\ Capacity \in Nat /\ consumer \in ConsumerType
  BY Numbers
<1>1. /\ consumer.at = "copy"
      /\ consumer' = [consumer EXCEPT !.out = out,
                        !.at = IF Len(out) = consumer.to_read THEN "publish" ELSE @]
      /\ UNCHANGED <<buf, head, tail, producer, produced, played, load>>
  BY DEF ReadCopy
<1>2. /\ load = "alternating" => producer.at = "idle"
      /\ consumer.tail = tail /\ consumer.out = Run(First, i) /\ consumer.to_read <= Queued
  BY <1>1 DEF RingInv, Reading
<1>3. i \in Nat /\ i < consumer.to_read /\ consumer.to_read \in Nat /\ consumer.out \in Seq(Nat)
  <2>1. consumer.out \in Seq(0 .. MaxSamples) /\ consumer.to_read \in Nat
    BY <1>0, Constants DEF ConsumerType
  <2>2. i \in Nat /\ i < consumer.to_read
    BY <1>1, <2>1 DEF RingInv, TypeInv, InBuffer
  <2>3. consumer.out \in Seq(Nat)
    BY <1>0, <1>2, <2>2, RunSeq
  <2> QED  BY <2>1, <2>2, <2>3
<1> HIDE DEF i
<1>4. s = First + i + 1
  <2>1. First + i \in Nat /\ i \in 0 .. (Queued - 1) /\ tail = WordOf(First)
    BY <1>0, <1>2, <1>3 DEF RingInv, Positions
  <2>2. wrapping_add(consumer.tail, i) = WordOf(First + i)
    BY <1>0, <1>2, <1>3, <2>1, Advance
  <2>3. masked(wrapping_add(consumer.tail, i)) = SlotOf(First + i)
    BY <2>1, <2>2, Masked
  <2>4. buf[SlotOf(First + i)] = First + i + 1
    BY <2>1 DEF RingInv, Holds
  <2> QED  BY <2>3, <2>4
<1> HIDE DEF s
<1>5. out = Run(First, i + 1)
  <2>1. i + 1 \in Nat /\ s \in Nat
    BY <1>0, <1>3, <1>4
  <2>2. out \in Seq(Nat) /\ Len(out) = i + 1
    BY <1>3, <2>1, AppendProperties DEF i
  <2>3. Run(First, i + 1) \in Seq(Nat) /\ Len(Run(First, i + 1)) = i + 1
    BY <1>0, <2>1, RunSeq
  <2>4. ASSUME NEW j \in 1 .. (i + 1)  PROVE out[j] = Run(First, i + 1)[j]
    <3>1. Run(First, i + 1)[j] = First + j
      BY <1>0, <2>1, RunSeq
    <3>2. CASE j = i + 1
      <4>1. out[i + 1] = s
        <5>1. consumer.out \in Seq(Nat) /\ s \in Nat
          BY <1>3, <2>1
        <5>2. Append(consumer.out, s)[Len(consumer.out) + 1] = s
          BY <5>1, AppendProperties, Zenon
        <5> QED  BY <5>2 DEF i
      <4>2. s = First + j
        BY <1>0, <1>3, <1>4, <3>2
      <4> QED  BY <3>1, <3>2, <4>1, <4>2, Zenon
    <3>3. CASE j \in 1 .. i
      <4>1. out[j] = consumer.out[j]
        BY <1>3, <2>1, <3>3, AppendProperties DEF i
      <4>2. Run(First, i)[j] = First + j
        BY <1>0, <1>3, <3>3, RunSeq
      <4> QED  BY <1>2, <3>1, <4>1, <4>2
    <3>4. j = i + 1 \/ j \in 1 .. i
      BY <1>3
    <3> QED  BY <3>2, <3>3, <3>4
  <2> HIDE DEF out
  <2> QED  BY <2>2, <2>3, <2>4, SeqEqual
<1>6. Len(out) = i + 1
  BY <1>0, <1>3, <1>5, RunSeq
<1> HIDE DEF out
<1>7. published' = published
  BY <1>1 DEF published
<1>8. Queued' = Queued /\ First' = First /\ Positions'
  BY <1>1, <1>7, SamePositions
<1>9. Holds(buf, First, Queued)'
  BY <1>1, <1>8 DEF RingInv, Holds
<1>10. Writing'
  <2>1. producer.at # "drop"
    BY <1>1 DEF RingInv, Writing
  <2> QED  BY <1>1, <1>7, <1>8, <2>1 DEF RingInv, Writing
<1>11. Reading'
  <2>1. consumer'.tail = consumer.tail /\ consumer'.to_read = consumer.to_read
        /\ consumer'.out = out
    BY <1>0, <1>1 DEF ConsumerType
  <2>2. consumer'.out = Run(First', Len(consumer'.out))
    BY <1>5, <1>6, <1>8, <2>1
  <2> QED  BY <1>1, <1>2, <1>8, <2>1, <2>2 DEF Reading
<1> QED  BY <1>1, <1>7, <1>8, <1>9, <1>10, <1>11 DEF RingInv

LEMMA ReadPublishInv ==
  ASSUME RingInv, ReadPublish, TypeInv'
  PROVE  /\ RingInv'
         /\ UNCHANGED <<load, published>>
         /\ \E n \in 0 .. Queued :
              First' = First + n /\ Queued' = Queued - n /\ played' = played \o Run(First, n)
<1> DEFINE n == consumer.to_read
<1>0. /\ published \in Nat /\ Queued \in 0 .. Capacity /\ First \in Nat /\ Capacity \in Nat
      /\ published = First + Queued /\ consumer \in ConsumerType /\ producer \in ProducerType
      /\ producer.len \in Nat
  BY Numbers
<1>1. /\ consumer.at = "publish" /\ tail' = wrapping_add(consumer.tail, n)
      /\ played' = played \o consumer.out /\ consumer' = IdleConsumer
      /\ consumer'.at = "idle"
      /\ UNCHANGED <<buf, head, producer, produced, load>>
  BY DEF ReadPublish, IdleConsumer
<1>2. /\ consumer.tail = tail /\ n <= Queued /\ consumer.out = Run(First, Len(consumer.out))
      /\ Len(consumer.out) = n
  BY <1>1 DEF RingInv, Reading, TypeInv, InBuffer
<1>3. n \in 0 .. Queued
  <2>1. n \in Nat
    BY <1>0, Constants DEF ConsumerType
  <2> QED  BY <1>0, <1>2, <2>1
<1> HIDE DEF n
<1>4. First + n \in Nat /\ Queued - n \in 0 .. Capacity /\ published = (First + n) + (Queued - n)
      /\ n \in Nat
  BY <1>0, <1>3
<1>5. published' = published
  BY <1>1 DEF published
<1>6. tail' = WordOf(First + n)
  BY <1>0, <1>1, <1>2, <1>4, Advance DEF RingInv, Positions
<1>7. Queued' = Queued - n
  <2>1. head' = WordOf((First + n) + (Queued - n))
    BY <1>1, <1>4 DEF RingInv, Positions
  <2>2. wrapping_sub(head', tail') = Queued - n
    BY <1>4, <1>6, <2>1, Between
  <2> QED  BY <2>2 DEF Queued, wrapping_sub
<1>8. First' = First + n
  BY <1>0, <1>4, <1>5, <1>7 DEF First
<1>9. Positions'
  <2>1. head' = WordOf(published')
    BY <1>1, <1>5 DEF RingInv, Positions
  <2> QED  BY <1>0, <1>4, <1>5, <1>6, <1>7, <1>8, <2>1 DEF Positions, WordOf
<1>10. Holds(buf, First, Queued)'
  <2>1. Holds(buf, First, Queued) /\ Queued \in Nat
    BY <1>0 DEF RingInv
  <2>2. Holds(buf, First + n, Queued - n)
    BY <1>0, <1>3, <2>1, HoldsRest
  <2> QED  BY <1>1, <1>7, <1>8, <2>2 DEF Holds
<1>11. Writing'
  <2>1. producer.at # "drop"
    BY <1>1 DEF RingInv, Writing
  <2>2. producer.at # "idle" => Queued + producer.len <= Capacity
    BY <2>1 DEF RingInv, Writing
  <2>3. producer.at # "idle" => Queued' + producer.len <= Capacity
    BY <1>0, <1>3, <1>7, <2>2
  <2>4. Holds(buf, published, producer.i) => Holds(buf, published, producer.i)'
    BY <1>1, <1>5 DEF Holds
  <2> QED  BY <1>1, <2>1, <2>3, <2>4 DEF RingInv, Writing
<1>12. Reading'
  BY <1>1 DEF Reading
<1> QED  BY <1>1, <1>2, <1>3, <1>5, <1>7, <1>8, <1>9, <1>10, <1>11, <1>12 DEF RingInv

-----------------------------------------------------------------------------
(* Every step is one of the queue or leaves it alone.                      *)

LEMMA NextRingInv ==
  ASSUME MaxWrite <= Capacity, RingInv, [Next]_vars
  PROVE  RingInv'
<1>1. TypeInv'
  BY NextTypeInv DEF RingInv
<1>2. CASE UNCHANGED vars
  <2>1. published' = published
    BY <1>2 DEF vars, published
  <2>2. Queued' = Queued /\ First' = First /\ Positions'
    BY <1>2, <2>1, SamePositions DEF vars
  <2> QED  BY <1>1, <1>2, <2>1, <2>2 DEF RingInv, Holds, Writing, Reading, vars
<1>3. CASE Producer
  BY <1>1, <1>3, WriteBeginInv, WriteDropInv, WriteCopyInv, WritePublishInv DEF Producer
<1>4. CASE Consumer
  BY <1>1, <1>4, ReadBeginInv, ReadHeadInv, ReadCopyInv, ReadPublishInv DEF Consumer
<1> QED  BY <1>2, <1>3, <1>4 DEF Next

LEMMA InitQueue ==
  ASSUME Init, "any" \notin Loads
  PROVE  Fifo!Init
<1>1. RingInv
  BY InitRingInv
<1>2. published = 0
  BY DEF Init, published, IdleProducer
<1>3. Queued = 0
  BY <1>1, <1>2 DEF RingInv, Positions
<1>4. Window = << >>
  BY <1>1, <1>3, WindowIsRun, EmptyRun
<1> QED  BY <1>2, <1>4 DEF Init, Fifo!Init

(* A step that moves no position and plays nothing. *)
LEMMA SameQueue ==
  ASSUME RingInv, RingInv', UNCHANGED <<load, published, Queued, First, played>>
  PROVE  UNCHANGED Fifo!vars
<1>1. Window = Run(First, Queued) /\ Window' = Run(First', Queued')
  BY WindowIsRun, WindowIsRunPrime
<1>2. Window' = Window
  BY <1>1
<1> QED  BY <1>2 DEF Fifo!vars

LEMMA StepQueue ==
  ASSUME MaxWrite <= Capacity, RingInv, [Next]_vars
  PROVE  [Fifo!Next]_Fifo!vars
<1>1. TypeInv' /\ RingInv'
  BY NextTypeInv, NextRingInv DEF RingInv
<1>2. Window = Run(First, Queued) /\ Window' = Run(First', Queued')
  BY <1>1, WindowIsRun, WindowIsRunPrime
<1>0. First \in Nat /\ Queued \in Nat /\ published = First + Queued /\ published \in Nat
  BY Numbers, Constants
<1>3. Len(Window) = Queued
  BY <1>0, <1>2, RunSeq
<1>4. CASE UNCHANGED vars
  <2>1. UNCHANGED <<load, published, Queued, First, played>>
    BY <1>4 DEF vars, published, Queued, First, wrapping_sub
  <2> QED  BY <1>1, <2>1, SameQueue
<1>5. ASSUME NEW n \in 1 .. MaxWrite, WriteBegin(n)  PROVE [Fifo!Next]_Fifo!vars
  BY <1>1, <1>5, WriteBeginInv DEF Fifo!vars
<1>6. CASE WriteDrop
  <2>1. PICK k \in 1 .. Queued : First' = First + k /\ Queued' = Queued - k
    BY <1>1, <1>6, WriteDropInv
  <2>2. UNCHANGED <<load, published, played>> /\ load = "alternating"
    BY <1>1, <1>6, WriteDropInv
  <2>3. k \in 0 .. Queued
    OBVIOUS
  <2>4. Window' = SubSeq(Window, k + 1, Len(Window))
    BY <1>0, <1>2, <2>1, <2>3, RunSplit
  <2>5. Fifo!Drop(k)
    BY <2>2, <2>4 DEF Fifo!Drop
  <2> QED  BY <1>3, <2>1, <2>5 DEF Fifo!Next
<1>7. CASE WriteCopy
  BY <1>1, <1>7, WriteCopyInv, SameQueue
<1>8. CASE WritePublish
  <2>1. PICK n \in Nat \ {0} : published' = published + n /\ Queued' = Queued + n
    BY <1>1, <1>8, WritePublishInv
  <2>2. UNCHANGED <<load, First, played>>
    BY <1>1, <1>8, WritePublishInv
  <2>3. Window' = Window \o Run(published, n)
    BY <1>0, <1>2, <2>1, <2>2, RunAppend
  <2>4. Fifo!Write(n)
    BY <2>1, <2>2, <2>3 DEF Fifo!Write, Run
  <2>5. n \in 1 .. (published' - published)
    BY <1>0, <2>1
  <2> QED  BY <2>4, <2>5 DEF Fifo!Next
<1>9. ASSUME NEW n \in 1 .. MaxRead, ReadBegin(n)  PROVE [Fifo!Next]_Fifo!vars
  BY <1>1, <1>9, ReadBeginInv, SameQueue
<1>10. CASE ReadHead
  BY <1>1, <1>10, ReadHeadInv, SameQueue
<1>11. CASE ReadCopy
  BY <1>1, <1>11, ReadCopyInv, SameQueue
<1>12. CASE ReadPublish
  <2>1. PICK n \in 0 .. Queued :
          First' = First + n /\ Queued' = Queued - n /\ played' = played \o Run(First, n)
    BY <1>1, <1>12, ReadPublishInv
  <2>2. UNCHANGED <<load, published>>
    BY <1>1, <1>12, ReadPublishInv
  <2>3. CASE n = 0
    <3>1. played \in Seq(0 .. MaxSamples)
      BY DEF RingInv, TypeInv, TypeOK
    <3>2. played' = played
      BY <2>1, <2>3, <3>1, EmptyRun, ConcatEmptySeq
    <3>3. First' = First /\ Queued' = Queued
      BY <1>0, <2>1, <2>3
    <3> QED  BY <1>1, <2>2, <3>2, <3>3, SameQueue
  <2>4. CASE n # 0
    <3>1. Window' = SubSeq(Window, n + 1, Len(Window)) /\ SubSeq(Window, 1, n) = Run(First, n)
      BY <1>0, <1>2, <2>1, RunSplit
    <3>2. Fifo!Read(n)
      BY <2>1, <2>2, <3>1 DEF Fifo!Read
    <3>3. n \in 1 .. Len(Window)
      BY <1>0, <1>3, <2>4
    <3> QED  BY <3>2, <3>3 DEF Fifo!Next
  <2> QED  BY <2>3, <2>4
<1> QED
  BY <1>4, <1>5, <1>6, <1>7, <1>8, <1>9, <1>10, <1>11, <1>12 DEF Next, Producer, Consumer

(* Unless both the consumer is late and the callbacks overlap, the ring is *)
(* a queue: the device plays the samples in the order of their production, *)
(* none twice and none torn, and only an overrun loses any, the oldest. A  *)
(* process callback may not bring more than the buffer holds.              *)
THEOREM FifoImplemented ==
  ASSUME "any" \notin Loads, MaxWrite <= Capacity
  PROVE  Spec => ImplementsFifo
<1>1. Init => RingInv /\ Fifo!Init
  BY InitRingInv, InitQueue
<1>2. RingInv /\ [Next]_vars => RingInv' /\ [Fifo!Next]_Fifo!vars
  BY NextRingInv, StepQueue
<1> QED  BY <1>1, <1>2, PTL DEF Spec, ImplementsFifo, Fifo!Spec
=============================================================================
