--------------------------- MODULE DmaEngineProofs ---------------------------
(***************************************************************************)
(* Proofs about DmaEngine, for any number of words, any depth of the FIFO  *)
(* and any waits of the buses: the engine of pointers, flags and registers *)
(* is the engine of PpuCore, whose FIFO is a sequence.                     *)
(***************************************************************************)
EXTENDS DmaEngine, SequenceTheorems, TLAPS

USE DmaAssumption DEF DmaAssumption

----------------------------------------------------------------------------
\* Reads accepted by the bus whose words have not been written.
inFlight == stored + Len(pending)

DmaTypeOK ==
  /\ dma_engine_start \in BOOLEAN
  /\ started \in BOOLEAN /\ done \in BOOLEAN /\ read_select \in BOOLEAN
  /\ fifo_empty \in BOOLEAN /\ fifo_full \in BOOLEAN
  /\ last_write_collision \in BOOLEAN /\ clash \in BOOLEAN
  /\ length \in 0 .. NumWords /\ writelength \in 0 .. NumWords
  /\ estimated_wraddress \in Slot /\ wraddress \in Slot /\ rdaddress_reg \in Slot
  /\ frame \in {0, 1}
  /\ ram \in [Slot -> Datum] /\ pending \in Seq(Datum)

(***************************************************************************)
(* What is still to be read and what is in flight is what is still to be   *)
(* written; a read is on the bus only if there is room for its answer.     *)
(***************************************************************************)
Lengths ==
  /\ writelength = length + inFlight
  /\ inFlight <= DEPTH
  /\ ~started => writelength = 0
  /\ started => ~done
  /\ read_select => length # 0 /\ inFlight # DEPTH
  /\ inFlight = DEPTH => fifo_full

\* The addresses follow the lengths.
Addresses ==
  started => /\ readaddress = NumWords - length
             /\ writelength # 0 => writeaddress = NumWords - writelength

\* The words come in behind the ones that are stored, the answers of the reads
\* under way behind those.
Pointers ==
  /\ fifo_empty => wraddress = rdaddress_reg
  /\ estimated_wraddress = Down(Minus(rdaddress_reg, inFlight))

(***************************************************************************)
(* A word that was written while it was addressed is in the register       *)
(* beside the memory as long as it is the next one, and that register is   *)
(* not looked at any more when the FIFO has run empty.                     *)
(***************************************************************************)
WordBeside ==
  /\ clash => last_write_collision
  /\ last_write_collision => ~fifo_empty /\ last_write_data = ram[rdaddress_reg]

DmaInv == DmaTypeOK /\ Lengths /\ Addresses /\ Pointers /\ WordBeside

----------------------------------------------------------------------------
\* Pointers into the FIFO go round it.
LEMMA PointersGoRound ==
  ASSUME NEW p \in Slot, NEW k \in 0 .. DEPTH
  PROVE  /\ Minus(p, k) \in Slot /\ Down(p) \in Slot
         /\ Minus(p, 0) = p /\ Minus(p, DEPTH) = p
         /\ k # DEPTH => /\ Down(Minus(p, k)) = Minus(p, k + 1)
                         /\ Minus(Down(p), k) = Minus(p, k + 1)
BY DEF Minus, Down, Slot

\* Within one turn they are all different.
LEMMA PointersDiffer ==
  ASSUME NEW p \in Slot, NEW j \in 0 .. DEPTH - 1, NEW k \in 0 .. DEPTH - 1,
         Minus(p, j) = Minus(p, k)
  PROVE  j = k
BY DEF Minus, Slot

\* The distance of two pointers, between a word and a whole turn.
Distance(p, q) == IF q < p THEN p - q ELSE p + DEPTH - q

\* It is the one number of words that leads from one to the other.
LEMMA DistanceIs ==
  ASSUME NEW p \in Slot, NEW q \in Slot
  PROVE  /\ Distance(p, q) \in 1 .. DEPTH /\ Minus(p, Distance(p, q)) = q
         /\ \A k \in 1 .. DEPTH : q = Minus(p, k) => Distance(p, q) = k
BY DEF Distance, Minus, Slot

\* How many words are stored, and that the write pointer is behind them.
LEMMA StoredIs ==
  ASSUME DmaTypeOK, Pointers
  PROVE  /\ stored \in 0 .. DEPTH
         /\ fifo_empty <=> stored = 0
         /\ wraddress = Minus(rdaddress_reg, stored)
<1>1. rdaddress_reg \in Slot /\ wraddress \in Slot
  BY DEF DmaTypeOK
<1>2. CASE fifo_empty
  BY <1>1, <1>2, PointersGoRound DEF stored, Pointers
<1>3. CASE ~fifo_empty
  <2>1. stored = Distance(rdaddress_reg, wraddress)
    BY <1>3 DEF stored, Distance
  <2> QED BY <1>1, <1>3, <2>1, DistanceIs
<1> QED BY <1>2, <1>3

----------------------------------------------------------------------------
\* The words of a memory from one pointer on.
Words(mem, p, n) == [i \in 1 .. n |-> mem[Minus(p, i - 1)]]

\* They are a sequence of that many words.
LEMMA WordsAre ==
  ASSUME NEW mem \in [Slot -> Datum], NEW p \in Slot, NEW n \in 0 .. DEPTH
  PROVE  /\ Words(mem, p, n) \in Seq(Datum) /\ Len(Words(mem, p, n)) = n
         /\ \A i \in 1 .. n : Words(mem, p, n)[i] = mem[Minus(p, i - 1)]
<1>1. \A i \in 1 .. n : i - 1 \in 0 .. DEPTH
  OBVIOUS
<1>2. \A i \in 1 .. n : mem[Minus(p, i - 1)] \in Datum
  BY <1>1, PointersGoRound
<1>3. Words(mem, p, n) \in [1 .. n -> Datum]
  BY <1>2 DEF Words
<1>4. n \in Nat
  OBVIOUS
<1>5. Words(mem, p, n) \in Seq(Datum) /\ Len(Words(mem, p, n)) = n
  BY <1>3, <1>4, LenProperties, IsASeq DEF Words
<1> QED BY <1>5 DEF Words

\* What is in flight, as a sequence: the stored words, then those to come.
LEMMA FlightIs ==
  ASSUME NEW mem \in [Slot -> Datum], NEW p \in Slot, NEW n \in 0 .. DEPTH,
         NEW rest \in Seq(Datum)
  PROVE  /\ Words(mem, p, n) \o rest \in Seq(Datum)
         /\ Len(Words(mem, p, n) \o rest) = n + Len(rest)
         /\ \A i \in 1 .. n + Len(rest) :
              (Words(mem, p, n) \o rest)[i] =
                IF i <= n THEN mem[Minus(p, i - 1)] ELSE rest[i - n]
<1> DEFINE s == Words(mem, p, n)
<1>1. s \in Seq(Datum) /\ Len(s) = n /\ \A i \in 1 .. n : s[i] = mem[Minus(p, i - 1)]
  BY WordsAre
<1>2. Len(rest) \in Nat
  BY LenProperties
<1> HIDE DEF s
<1>3. /\ s \o rest \in Seq(Datum) /\ Len(s \o rest) = n + Len(rest)
      /\ \A i \in 1 .. n + Len(rest) :
           (s \o rest)[i] = IF i <= n THEN s[i] ELSE rest[i - n]
  <2>1. /\ s \o rest \in Seq(Datum) /\ Len(s \o rest) = Len(s) + Len(rest)
        /\ \A i \in 1 .. Len(s) + Len(rest) :
             (s \o rest)[i] = IF i <= Len(s) THEN s[i] ELSE rest[i - Len(s)]
    BY <1>1, ConcatProperties
  <2> QED BY <1>1, <2>1
<1>4. \A i \in 1 .. n + Len(rest) :
        (s \o rest)[i] = IF i <= n THEN mem[Minus(p, i - 1)] ELSE rest[i - n]
  <2> SUFFICES ASSUME NEW i \in 1 .. n + Len(rest)
               PROVE  (s \o rest)[i] = IF i <= n THEN mem[Minus(p, i - 1)] ELSE rest[i - n]
    OBVIOUS
  <2>1. CASE i <= n
    <3>1. i \in 1 .. n
      BY <1>2, <2>1
    <3> QED BY <1>1, <1>3, <2>1, <3>1
  <2>2. CASE ~(i <= n)
    BY <1>3, <2>2
  <2> QED BY <2>1, <2>2
<1> QED BY <1>3, <1>4 DEF s

\* The oldest word can be taken: it is the one at the read pointer, and what is
\* in flight is then what follows it.
CanLeave(mem, p, n, rest) ==
  mem \in [Slot -> Datum] /\ p \in Slot /\ n \in 1 .. DEPTH /\ rest \in Seq(Datum)
OldestFirst(mem, p, n, rest) ==
  /\ Words(mem, p, n) \o rest # <<>>
  /\ Head(Words(mem, p, n) \o rest) = mem[p]
Shortened(mem, p, n, rest) ==
  Tail(Words(mem, p, n) \o rest) = Words(mem, Down(p), n - 1) \o rest

\* A word leaves at the read pointer.
LEMMA WordLeaves ==
  ASSUME NEW mem, NEW p, NEW n, NEW rest, CanLeave(mem, p, n, rest)
  PROVE  OldestFirst(mem, p, n, rest) /\ Shortened(mem, p, n, rest)
<1>0. mem \in [Slot -> Datum] /\ p \in Slot /\ n \in 1 .. DEPTH /\ rest \in Seq(Datum)
  BY DEF CanLeave
<1> USE <1>0
<1> DEFINE s == Words(mem, p, n) \o rest
           t == Words(mem, Down(p), n - 1) \o rest
<1>1. n \in 0 .. DEPTH /\ n - 1 \in 0 .. DEPTH /\ Down(p) \in Slot /\ Len(rest) \in Nat
  BY PointersGoRound, LenProperties
<1>2. /\ s \in Seq(Datum) /\ Len(s) = n + Len(rest)
      /\ \A i \in 1 .. n + Len(rest) :
           s[i] = IF i <= n THEN mem[Minus(p, i - 1)] ELSE rest[i - n]
  BY <1>1, FlightIs
<1>3. /\ t \in Seq(Datum) /\ Len(t) = (n - 1) + Len(rest)
      /\ \A i \in 1 .. (n - 1) + Len(rest) :
           t[i] = IF i <= n - 1 THEN mem[Minus(Down(p), i - 1)] ELSE rest[i - (n - 1)]
  <2> HIDE DEF s, t
  <2>1. \A q \in Slot : \A m \in 0 .. DEPTH :
          /\ Words(mem, q, m) \o rest \in Seq(Datum)
          /\ Len(Words(mem, q, m) \o rest) = m + Len(rest)
          /\ \A i \in 1 .. m + Len(rest) :
               (Words(mem, q, m) \o rest)[i] = IF i <= m THEN mem[Minus(q, i - 1)] ELSE rest[i - m]
    BY FlightIs
  <2> QED BY <1>1, <2>1 DEF t
<1> HIDE DEF s, t
<1>4. s # <<>>
  BY <1>1, <1>2, EmptySeq
<1>5. Head(s) = s[1]
  BY <1>2, <1>4
<1>6. Tail(s) \in Seq(Datum) /\ Len(Tail(s)) = Len(s) - 1
      /\ \A i \in 1 .. Len(Tail(s)) : Tail(s)[i] = s[i + 1]
  BY <1>2, <1>4, HeadTailProperties
<1>7. s[1] = mem[p]
  <2>1. 1 \in 1 .. n + Len(rest) /\ 1 - 1 = 0 /\ Minus(p, 0) = p
    BY <1>1, PointersGoRound
  <2> QED BY <1>1, <1>2, <2>1
<1>8. ASSUME NEW i \in 1 .. Len(t) PROVE Tail(s)[i] = t[i]
  <2>1. Tail(s)[i] = s[i + 1] /\ i + 1 \in 1 .. n + Len(rest) /\ i \in 1 .. (n - 1) + Len(rest)
    BY <1>1, <1>2, <1>3, <1>6
  <2>2. CASE i <= n - 1
    <3>1. Minus(Down(p), i - 1) = Minus(p, (i - 1) + 1)
      <4>1. i - 1 \in 0 .. DEPTH /\ i - 1 # DEPTH
        BY <1>1, <2>1, <2>2
      <4> QED BY <4>1, PointersGoRound
    <3>2. (i - 1) + 1 = (i + 1) - 1 /\ i + 1 <= n
      BY <1>1, <2>1, <2>2
    <3> QED BY <1>2, <1>3, <2>1, <2>2, <3>1, <3>2
  <2>3. CASE ~(i <= n - 1)
    <3>1. (i + 1) - n = i - (n - 1) /\ ~(i + 1 <= n)
      BY <1>1, <2>1, <2>3
    <3> QED BY <1>2, <1>3, <2>1, <2>3, <3>1
  <2> QED BY <2>2, <2>3
<1>9. Len(Tail(s)) = Len(t)
  BY <1>1, <1>2, <1>3, <1>6
<1>10. Tail(s) = t
  BY <1>3, <1>6, <1>8, <1>9, SeqEqual
<1>11. OldestFirst(mem, p, n, rest)
  BY <1>4, <1>5, <1>7 DEF s, OldestFirst
<1>12. Shortened(mem, p, n, rest)
  BY <1>10 DEF s, t, Shortened
<1> QED BY <1>11, <1>12

\* A memory after a word was written.
Put(mem, q, word) == [mem EXCEPT ![q] = word]

\* The answer to the oldest read comes in behind the stored words: what is in
\* flight stays the same.
CanCome(mem, p, n, rest, mem2) ==
  /\ mem \in [Slot -> Datum] /\ p \in Slot /\ n \in 0 .. DEPTH - 1
  /\ rest \in Seq(Datum) /\ rest # <<>>
  /\ mem2 \in [Slot -> Datum] /\ mem2 = Put(mem, Minus(p, n), Head(rest))
SameFlight(mem, p, n, rest, mem2) ==
  Words(mem2, p, n + 1) \o Tail(rest) = Words(mem, p, n) \o rest

\* The border moves.
LEMMA WordComes ==
  ASSUME NEW mem, NEW p, NEW n, NEW rest, NEW mem2, CanCome(mem, p, n, rest, mem2)
  PROVE  SameFlight(mem, p, n, rest, mem2)
<1>0. /\ mem \in [Slot -> Datum] /\ p \in Slot /\ n \in 0 .. DEPTH - 1
      /\ rest \in Seq(Datum) /\ rest # <<>>
      /\ mem2 \in [Slot -> Datum] /\ mem2 = Put(mem, Minus(p, n), Head(rest))
  BY DEF CanCome
<1> USE <1>0
<1> DEFINE s == Words(mem, p, n) \o rest
           t == Words(mem2, p, n + 1) \o Tail(rest)
<1>1. n \in 0 .. DEPTH /\ n + 1 \in 0 .. DEPTH /\ Minus(p, n) \in Slot /\ Len(rest) \in Nat
  <2>1. n \in 0 .. DEPTH /\ n + 1 \in 0 .. DEPTH
    OBVIOUS
  <2> QED BY <2>1, PointersGoRound, LenProperties
<1>2. /\ Head(rest) \in Datum /\ Head(rest) = rest[1] /\ Tail(rest) \in Seq(Datum)
      /\ Len(Tail(rest)) = Len(rest) - 1
      /\ \A i \in 1 .. Len(Tail(rest)) : Tail(rest)[i] = rest[i + 1]
  BY HeadTailProperties
<1>3. mem2 \in [Slot -> Datum] /\ \A q \in Slot : mem2[q] = IF q = Minus(p, n) THEN rest[1] ELSE mem[q]
  BY <1>1, <1>2 DEF Put
<1>4. /\ s \in Seq(Datum) /\ Len(s) = n + Len(rest)
      /\ \A i \in 1 .. n + Len(rest) :
           s[i] = IF i <= n THEN mem[Minus(p, i - 1)] ELSE rest[i - n]
  <2> HIDE DEF s
  <2>1. \A m \in 0 .. DEPTH :
          /\ Words(mem, p, m) \o rest \in Seq(Datum)
          /\ Len(Words(mem, p, m) \o rest) = m + Len(rest)
          /\ \A i \in 1 .. m + Len(rest) :
               (Words(mem, p, m) \o rest)[i] = IF i <= m THEN mem[Minus(p, i - 1)] ELSE rest[i - m]
    BY FlightIs
  <2> QED BY <1>1, <2>1 DEF s
<1>5. /\ t \in Seq(Datum) /\ Len(t) = (n + 1) + Len(Tail(rest))
      /\ \A i \in 1 .. (n + 1) + Len(Tail(rest)) :
           t[i] = IF i <= n + 1 THEN mem2[Minus(p, i - 1)] ELSE Tail(rest)[i - (n + 1)]
  <2>1. n + 1 \in 0 .. DEPTH /\ Tail(rest) \in Seq(Datum) /\ mem2 \in [Slot -> Datum]
    BY <1>1, <1>2, <1>3
  <2> HIDE DEF t
  <2>2. \A m \in 0 .. DEPTH : \A u \in Seq(Datum) :
          /\ Words(mem2, p, m) \o u \in Seq(Datum)
          /\ Len(Words(mem2, p, m) \o u) = m + Len(u)
          /\ \A i \in 1 .. m + Len(u) :
               (Words(mem2, p, m) \o u)[i] = IF i <= m THEN mem2[Minus(p, i - 1)] ELSE u[i - m]
    BY <2>1, FlightIs
  <2> QED BY <2>1, <2>2 DEF t
<1> HIDE DEF s, t
<1>6. Len(rest) >= 1 /\ Len(t) = Len(s)
  BY <1>1, <1>2, <1>4, <1>5, EmptySeq
<1>7. ASSUME NEW i \in 1 .. Len(s) PROVE t[i] = s[i]
  <2>1. CASE i <= n
    <3>1. i - 1 \in 0 .. DEPTH - 1 /\ i - 1 \in 0 .. DEPTH /\ i - 1 # n /\ i <= n + 1
      BY <1>1, <2>1
    <3>2. Minus(p, i - 1) \in Slot /\ Minus(p, i - 1) # Minus(p, n)
      BY <3>1, PointersGoRound, PointersDiffer
    <3> QED BY <1>3, <1>4, <1>5, <1>6, <2>1, <3>1, <3>2
  <2>2. CASE i = n + 1
    <3>1. i - 1 = n /\ i - n = 1 /\ ~(i <= n) /\ i <= n + 1
      BY <1>1, <2>2
    <3> QED BY <1>1, <1>3, <1>4, <1>5, <1>6, <2>2, <3>1
  <2>3. CASE i > n + 1
    <3>1. /\ ~(i <= n) /\ ~(i <= n + 1) /\ (i - (n + 1)) + 1 = i - n
          /\ i - (n + 1) \in 1 .. Len(Tail(rest))
      BY <1>1, <1>2, <1>4, <2>3
    <3> QED BY <1>2, <1>4, <1>5, <1>6, <3>1
  <2> QED BY <1>1, <1>4, <2>1, <2>2, <2>3
<1>8. t = s
  BY <1>4, <1>5, <1>6, <1>7, SeqEqual
<1> QED BY <1>8 DEF s, t, SameFlight

\* A read joins at the end.
LEMMA WordAsked ==
  ASSUME NEW s \in Seq(Datum), NEW rest \in Seq(Datum), NEW e \in Datum
  PROVE  s \o Append(rest, e) = Append(s \o rest, e)
<1>1. <<e>> \in Seq(Datum)
  OBVIOUS
<1>2. s \o rest \in Seq(Datum)
  BY ConcatProperties
<1>3. Append(rest, e) = rest \o <<e>> /\ Append(s \o rest, e) = (s \o rest) \o <<e>>
  BY <1>2, AppendIsConcat
<1> QED BY <1>1, <1>3, ConcatAssociative

----------------------------------------------------------------------------
\* The word on the way to VRAM is the one at the read pointer, whether it comes
\* from the memory or from the register beside it.
LEMMA BesideIs ==
  DmaInv => fifo_rd_data = ram[rdaddress_reg]
<1> SUFFICES ASSUME DmaInv
             PROVE  fifo_rd_data = ram[rdaddress_reg]
  OBVIOUS
<1>1. CASE last_write_collision
  BY <1>1 DEF DmaInv, WordBeside, fifo_rd_data
<1>2. CASE ~last_write_collision
  <2>1. ~clash
    BY <1>2 DEF DmaInv, WordBeside
  <2> QED BY <1>2, <2>1 DEF fifo_rd_data, fifo_ram_q
<1> QED BY <1>1, <1>2

\* The FIFO of PpuCore is what is stored and what is still to come.
LEMMA FifoIs ==
  DmaInv => fifo = Words(ram, rdaddress_reg, stored) \o pending
<1> SUFFICES ASSUME DmaInv
             PROVE  fifo = Words(ram, rdaddress_reg, stored) \o pending
  OBVIOUS
<1>1. fifo_rd_data = ram[rdaddress_reg]
  BY BesideIs
<1>2. rdaddress_reg \in Slot /\ Minus(rdaddress_reg, 1 - 1) = rdaddress_reg
  <2>1. rdaddress_reg \in Slot /\ 1 - 1 = 0
    BY DEF DmaInv, DmaTypeOK
  <2> QED BY <2>1, PointersGoRound
<1>3. [i \in 1 .. stored |->
         IF i = 1 THEN fifo_rd_data ELSE ram[Minus(rdaddress_reg, i - 1)]]
      = Words(ram, rdaddress_reg, stored)
  BY <1>1, <1>2 DEF Words
<1> QED BY <1>3 DEF fifo

\* With nothing in flight the FIFO of PpuCore is empty.
LEMMA NothingInFlight ==
  DmaInv /\ stored = 0 /\ pending = <<>> => fifo = <<>>
<1> SUFFICES ASSUME DmaInv, stored = 0, pending = <<>>
             PROVE  fifo = <<>>
  OBVIOUS
<1>1. /\ ram \in [Slot -> Datum] /\ rdaddress_reg \in Slot /\ stored \in 0 .. DEPTH
      /\ pending \in Seq(Datum) /\ Len(pending) = 0
  BY StoredIs, EmptySeq DEF DmaInv, DmaTypeOK
<1>2. fifo \in Seq(Datum) /\ Len(fifo) = 0
  BY <1>1, FlightIs, FifoIs
<1> QED BY <1>2, EmptySeq

----------------------------------------------------------------------------
\* What a clock does to the words in flight.
asked(bus) == IF inc_read(bus) THEN 1 ELSE 0
came(bus) == IF fifo_write(bus) THEN 1 ELSE 0
left(bus) == IF fifo_read(bus) THEN 1 ELSE 0

\* Only what is there can move.
LEMMA MovesAreSound ==
  ASSUME DmaInv, NEW bus \in Bus
  PROVE  /\ asked(bus) \in {0, 1} /\ came(bus) \in {0, 1} /\ left(bus) \in {0, 1}
         /\ stored \in 0 .. DEPTH /\ Len(pending) \in Nat
         /\ length \in Nat /\ writelength \in Nat
         /\ inFlight = stored + Len(pending) /\ inFlight <= DEPTH
         /\ writelength = length + inFlight
         /\ inc_read(bus) => length # 0 /\ inFlight # DEPTH /\ started
         /\ fifo_write(bus) => Len(pending) # 0 /\ pending # <<>>
         /\ fifo_read(bus) => stored # 0 /\ ~fifo_empty
<1>1. asked(bus) \in {0, 1} /\ came(bus) \in {0, 1} /\ left(bus) \in {0, 1}
  BY DEF asked, came, left
<1>2. pending \in Seq(Datum) /\ stored \in 0 .. DEPTH /\ (fifo_empty <=> stored = 0)
  BY StoredIs DEF DmaInv, DmaTypeOK
<1>3. Len(pending) \in Nat /\ (Len(pending) = 0 => pending = <<>>)
  BY <1>2, LenProperties, EmptySeq
<1>4. length \in Nat /\ writelength \in Nat
  BY DEF DmaInv, DmaTypeOK
<1>5. /\ inFlight = stored + Len(pending) /\ inFlight <= DEPTH
      /\ writelength = length + inFlight
  BY DEF DmaInv, Lengths, inFlight
<1>6. inc_read(bus) => length # 0 /\ inFlight # DEPTH /\ started
  <2> SUFFICES ASSUME inc_read(bus) PROVE length # 0 /\ inFlight # DEPTH /\ started
    OBVIOUS
  <2>1. length # 0 /\ inFlight # DEPTH
    BY DEF inc_read, DmaInv, Lengths
  <2>2. writelength # 0
    BY <1>2, <1>3, <1>4, <1>5, <2>1
  <2> QED BY <2>1, <2>2 DEF DmaInv, Lengths
<1>7. fifo_write(bus) => pending # <<>>
  BY DEF fifo_write, Bus
<1>8. fifo_read(bus) => ~fifo_empty
  BY DEF fifo_read, write_select
<1> QED BY <1>1, <1>2, <1>3, <1>4, <1>5, <1>6, <1>7, <1>8

\* The pointers and the empty flag say how many words are stored.
LEMMA StoredFrom ==
  ASSUME NEW p \in Slot, NEW q \in Slot, NEW n \in 0 .. DEPTH, q = Minus(p, n), n # 0
  PROVE  (IF q < p THEN p - q ELSE p + DEPTH - q) = n
<1>1. n \in 1 .. DEPTH
  OBVIOUS
<1>2. Distance(p, q) = n
  BY <1>1, DistanceIs
<1> QED BY <1>2 DEF Distance

\* The FIFO counts right: a word more for an answer, one less for a write.
LEMMA FifoCounts ==
  ASSUME DmaInv, ~done, NEW bus \in Bus, Fifo(bus)
  PROVE  /\ stored' = (stored + came(bus)) - left(bus)
         /\ fifo_empty' \in BOOLEAN /\ wraddress' \in Slot /\ rdaddress_reg' \in Slot
         /\ rdaddress_reg' = IF fifo_read(bus) THEN Down(rdaddress_reg) ELSE rdaddress_reg
         /\ fifo_empty' => wraddress' = rdaddress_reg'
         /\ fifo_write(bus) => ~fifo_empty'
         /\ ~fifo_read(bus) /\ ~fifo_empty => ~fifo_empty'
<1> DEFINE r == rdaddress_reg
           w == wraddress
           n == stored
<1>1. /\ r \in Slot /\ w \in Slot /\ fifo_empty \in BOOLEAN
      /\ n \in 0 .. DEPTH /\ (fifo_empty <=> n = 0) /\ w = Minus(r, n)
  BY StoredIs DEF DmaInv, DmaTypeOK
<1>2. /\ r' = IF fifo_read(bus) THEN Down(r) ELSE r
      /\ w' = IF fifo_write(bus) THEN Down(w) ELSE w
      /\ fifo_empty' = p1_fifo_empty(bus)
  BY DEF Fifo, rdaddress, flush_fifo
<1>3. p1_fifo_empty(bus) <=> \/ ~fifo_inc(bus) /\ fifo_empty
                             \/ fifo_dec(bus) /\ w = Down(r)
  BY DEF p1_fifo_empty, flush_fifo
<1>4. fifo_empty' \in BOOLEAN
  BY <1>2 DEF p1_fifo_empty
<1>5. r' \in Slot /\ w' \in Slot
  BY <1>1, <1>2, PointersGoRound
<1>6. fifo_write(bus) => n \in 0 .. DEPTH - 1
  BY <1>1, MovesAreSound
<1>7. fifo_read(bus) => n # 0 /\ ~fifo_empty
  BY MovesAreSound
<1>8. stored' = IF fifo_empty' THEN 0 ELSE IF w' < r' THEN r' - w' ELSE r' + DEPTH - w'
  BY DEF stored
<1> HIDE DEF n, r, w
<1>9. CASE fifo_read(bus) /\ fifo_write(bus)
  <2>1. n \in 0 .. DEPTH /\ n # 0 /\ n # DEPTH /\ ~fifo_empty'
    BY <1>2, <1>3, <1>6, <1>7, <1>9 DEF fifo_inc, fifo_dec
  <2>2. w' = Minus(r', n)
    BY <1>1, <1>2, <1>9, <2>1, PointersGoRound
  <2>3. stored' = n
    BY <1>5, <1>8, <2>1, <2>2, StoredFrom
  <2>4. came(bus) = 1 /\ left(bus) = 1
    BY <1>9 DEF came, left
  <2>5. stored' = (n + came(bus)) - left(bus)
    BY <2>1, <2>3, <2>4
  <2> QED BY <1>2, <1>4, <1>5, <1>9, <2>1, <2>5 DEF n, r, w
<1>10. CASE fifo_read(bus) /\ ~fifo_write(bus)
  <2>1. n - 1 \in 0 .. DEPTH /\ n - 1 # DEPTH /\ (n - 1) + 1 = n /\ n - 1 \in 0 .. DEPTH - 1
    BY <1>1, <1>7, <1>10
  <2>2. r' = Down(r) /\ w' = w
    BY <1>2, <1>10
  <2>3. w' = Minus(r', n - 1)
    BY <1>1, <2>1, <2>2, PointersGoRound
  <2>4. fifo_empty' <=> w' = r'
    BY <1>2, <1>3, <1>7, <1>10, <2>2 DEF fifo_inc, fifo_dec
  <2>5. w' = r' <=> n - 1 = 0
    <3>1. Minus(r', 0) = r' /\ 0 \in 0 .. DEPTH - 1
      BY <1>5, PointersGoRound
    <3> QED BY <1>5, <2>1, <2>3, <3>1, PointersDiffer
  <2>6. stored' = n - 1
    <3>1. CASE fifo_empty'
      BY <1>8, <2>4, <2>5, <3>1
    <3>2. CASE ~fifo_empty'
      BY <1>5, <1>8, <2>1, <2>3, <2>4, <2>5, <3>2, StoredFrom
    <3> QED BY <3>1, <3>2
  <2>7. came(bus) = 0 /\ left(bus) = 1
    BY <1>10 DEF came, left
  <2>8. stored' = (n + came(bus)) - left(bus)
    BY <1>1, <2>6, <2>7
  <2> QED BY <1>2, <1>4, <1>5, <1>10, <2>4, <2>8 DEF n, r, w
<1>11. CASE ~fifo_read(bus) /\ fifo_write(bus)
  <2>1. /\ n \in 0 .. DEPTH /\ n # DEPTH /\ n + 1 \in 0 .. DEPTH /\ n + 1 # 0
    BY <1>6, <1>11
  <2>2. ~fifo_empty'
    BY <1>2, <1>3, <1>11 DEF fifo_inc, fifo_dec
  <2>3. w' = Minus(r', n + 1)
    BY <1>1, <1>2, <1>11, <2>1, PointersGoRound
  <2>4. stored' = n + 1
    BY <1>5, <1>8, <2>1, <2>2, <2>3, StoredFrom
  <2>5. came(bus) = 1 /\ left(bus) = 0
    BY <1>11 DEF came, left
  <2>6. stored' = (n + came(bus)) - left(bus)
    BY <2>1, <2>4, <2>5
  <2> QED BY <1>2, <1>4, <1>5, <1>11, <2>2, <2>6 DEF n, r, w
<1>12. CASE ~fifo_read(bus) /\ ~fifo_write(bus)
  <2>1. r' = r /\ w' = w
    BY <1>2, <1>12
  <2>2. fifo_empty' <=> fifo_empty
    BY <1>2, <1>3, <1>12 DEF fifo_inc, fifo_dec
  <2>3. stored' = n
    <3>1. CASE fifo_empty
      BY <1>1, <1>8, <2>2, <3>1
    <3>2. CASE ~fifo_empty
      BY <1>1, <1>5, <1>8, <2>1, <2>2, <3>2, StoredFrom
    <3> QED BY <3>1, <3>2
  <2>4. came(bus) = 0 /\ left(bus) = 0
    BY <1>12 DEF came, left
  <2>5. stored' = (n + came(bus)) - left(bus)
    BY <1>1, <2>3, <2>4
  <2>6. fifo_empty' => w' = r'
    BY <2>1, <2>2 DEF DmaInv, Pointers, r, w
  <2> QED BY <1>2, <1>4, <1>5, <1>12, <2>2, <2>5, <2>6 DEF n, r, w
<1> QED BY <1>9, <1>10, <1>11, <1>12

\* The word a read asks for is a word of the frame.
LEMMA AskedIsDatum ==
  ASSUME DmaInv, started, NEW bus \in Bus, inc_read(bus)
  PROVE  <<frame, readaddress>> \in Datum
<1>1. readaddress = NumWords - length /\ length \in 0 .. NumWords /\ length # 0
  BY MovesAreSound DEF DmaInv, DmaTypeOK, Addresses
<1>2. readaddress \in Word /\ frame \in {0, 1}
  BY <1>1 DEF Word, DmaInv, DmaTypeOK
<1> QED BY <1>2 DEF Datum

\* The answers to come: a new read joins them, the oldest leaves them.
LEMMA PendingCounts ==
  ASSUME DmaInv, NEW bus \in Bus, Buses(bus), started
  PROVE  /\ pending' \in Seq(Datum)
         /\ Len(pending') = (Len(pending) + asked(bus)) - came(bus)
<1>1. pending \in Seq(Datum) /\ Len(pending) \in Nat
  BY LenProperties DEF DmaInv, DmaTypeOK
<1> DEFINE rest == IF bus.readdatavalid THEN Tail(pending) ELSE pending
<1>2. rest \in Seq(Datum) /\ Len(rest) = Len(pending) - came(bus)
  <2>1. CASE bus.readdatavalid
    <3>1. pending # <<>> /\ came(bus) = 1
      BY <2>1 DEF Bus, came, fifo_write
    <3> QED BY <1>1, <2>1, <3>1, HeadTailProperties
  <2>2. CASE ~bus.readdatavalid
    BY <1>1, <2>2 DEF came, fifo_write
  <2> QED BY <2>1, <2>2
<1>3. pending' = IF inc_read(bus) THEN Append(rest, <<frame, readaddress>>) ELSE rest
  BY DEF Buses
<1> HIDE DEF rest
<1>4. came(bus) \in {0, 1}
  BY DEF came
<1>5. CASE inc_read(bus)
  <2>1. <<frame, readaddress>> \in Datum
    BY <1>5, AskedIsDatum
  <2>2. asked(bus) = 1
    BY <1>5 DEF asked
  <2> QED BY <1>1, <1>2, <1>3, <1>4, <1>5, <2>1, <2>2, AppendProperties
<1>6. CASE ~inc_read(bus)
  <2>1. asked(bus) = 0
    BY <1>6 DEF asked
  <2> QED BY <1>1, <1>2, <1>3, <1>4, <1>6, <2>1
<1> QED BY <1>5, <1>6

\* The pointer that runs ahead for the reads still to be answered, and the
\* full flag that it gives: no room left means full.
LEMMA RoomIsKnown ==
  ASSUME DmaInv, ~done, NEW bus \in Bus, Fifo(bus),
         inFlight' = (inFlight + asked(bus)) - left(bus)
  PROVE  /\ estimated_wraddress' = Down(Minus(rdaddress_reg', inFlight'))
         /\ estimated_wraddress' \in Slot
         /\ fifo_full' \in BOOLEAN /\ fifo_full' = p1_fifo_full(bus)
         /\ inFlight' \in 0 .. DEPTH
         /\ inFlight' = DEPTH => fifo_full'
<1> DEFINE r == rdaddress_reg
           m == inFlight
<1>1. /\ r \in Slot /\ m \in 0 .. DEPTH
      /\ estimated_wraddress = Down(Minus(r, m))
  BY MovesAreSound DEF DmaInv, DmaTypeOK, Pointers
<1>2. /\ r' = rdaddress(bus)
      /\ r' = IF fifo_read(bus) THEN Down(r) ELSE r
      /\ estimated_wraddress' = IF inc_read(bus) THEN Down(estimated_wraddress)
                                ELSE estimated_wraddress
      /\ fifo_full' = p1_fifo_full(bus)
  BY DEF Fifo, rdaddress, flush_fifo
<1>3. p1_fifo_full(bus) <=> \/ ~fifo_dec(bus) /\ fifo_full
                            \/ inc_read(bus) /\ estimated_wraddress = r'
  BY <1>2 DEF p1_fifo_full, flush_fifo
<1>4. inc_read(bus) => m # DEPTH
  BY MovesAreSound
<1>5. fifo_read(bus) => m # 0
  BY MovesAreSound
<1>6. m = DEPTH => fifo_full
  BY DEF DmaInv, Lengths
<1>7. /\ asked(bus) = IF inc_read(bus) THEN 1 ELSE 0
      /\ left(bus) = IF fifo_read(bus) THEN 1 ELSE 0
  BY DEF asked, left
<1>8. fifo_full' \in BOOLEAN
  BY <1>2 DEF p1_fifo_full
<1>9. Minus(r, m) \in Slot /\ Down(Minus(r, m)) \in Slot /\ Down(Down(Minus(r, m))) \in Slot
  BY <1>1, PointersGoRound
<1> HIDE DEF m, r
<1>10. CASE inc_read(bus) /\ fifo_read(bus)
  <2>1. m' = m /\ m # DEPTH /\ r' = Down(r)
    BY <1>1, <1>2, <1>4, <1>7, <1>10 DEF m
  <2>2. estimated_wraddress' = Down(Down(Minus(r, m)))
    BY <1>1, <1>2, <1>10
  <2>3. Down(Minus(r, m)) = Minus(r, m + 1) /\ Minus(Down(r), m) = Minus(r, m + 1)
    BY <1>1, <2>1, PointersGoRound
  <2> QED BY <1>1, <1>2, <1>8, <1>9, <2>1, <2>2, <2>3 DEF m, r
<1>11. CASE inc_read(bus) /\ ~fifo_read(bus)
  <2>1. m' = m + 1 /\ m # DEPTH /\ r' = r /\ m' \in 0 .. DEPTH
    BY <1>1, <1>2, <1>4, <1>7, <1>11 DEF m
  <2>2. estimated_wraddress' = Down(Down(Minus(r, m)))
    BY <1>1, <1>2, <1>11
  <2>3. Down(Minus(r, m)) = Minus(r, m + 1)
    BY <1>1, <2>1, PointersGoRound
  <2>4. m' = DEPTH => estimated_wraddress = r'
    BY <1>1, <2>1, <2>3, PointersGoRound
  <2>5. m' = DEPTH => fifo_full'
    BY <1>2, <1>3, <1>11, <2>4
  <2> QED BY <1>2, <1>8, <1>9, <2>1, <2>2, <2>3, <2>5 DEF m, r
<1>12. CASE ~inc_read(bus) /\ fifo_read(bus)
  <2>1. /\ m' = m - 1 /\ r' = Down(r) /\ m - 1 \in 0 .. DEPTH /\ m - 1 # DEPTH
        /\ (m - 1) + 1 = m
    BY <1>1, <1>2, <1>5, <1>7, <1>12 DEF m
  <2>2. estimated_wraddress' = Down(Minus(r, m))
    BY <1>1, <1>2, <1>12
  <2>3. Minus(Down(r), m - 1) = Minus(r, m)
    BY <1>1, <2>1, PointersGoRound
  <2> QED BY <1>2, <1>8, <1>9, <2>1, <2>2, <2>3 DEF m, r
<1>13. CASE ~inc_read(bus) /\ ~fifo_read(bus)
  <2>1. m' = m /\ r' = r
    BY <1>1, <1>2, <1>7, <1>13 DEF m
  <2>2. estimated_wraddress' = estimated_wraddress
    BY <1>2, <1>13
  <2>3. m' = DEPTH => fifo_full'
    BY <1>2, <1>3, <1>6, <1>13, <2>1 DEF fifo_dec
  <2> QED BY <1>1, <1>2, <1>8, <1>9, <2>1, <2>2, <2>3 DEF m, r
<1> QED BY <1>10, <1>11, <1>12, <1>13

----------------------------------------------------------------------------
\* A clock without a transfer: nothing moves, and a start loads the lengths.
LEMMA IdleClock ==
  ASSUME DmaInv, ~started, NEW bus \in Bus, Clock(bus)
  PROVE  DmaInv' /\ Core!DmaIdle
<1>1. /\ writelength = 0 /\ length = 0 /\ stored = 0 /\ Len(pending) = 0 /\ inFlight = 0
      /\ fifo_empty /\ pending = <<>>
  <2>1. writelength = 0
    BY DEF DmaInv, Lengths
  <2>2. length = 0 /\ stored = 0 /\ Len(pending) = 0 /\ inFlight = 0
    BY <2>1, MovesAreSound
  <2>3. fifo_empty <=> stored = 0
    BY StoredIs DEF DmaInv
  <2>4. pending \in Seq(Datum)
    BY DEF DmaInv, DmaTypeOK
  <2> QED BY <2>1, <2>2, <2>3, <2>4, EmptySeq
<1>2. ~read_select /\ ~last_write_collision /\ ~clash
  BY <1>1 DEF DmaInv, Lengths, WordBeside
<1>3. ~inc_read(bus) /\ ~fifo_read(bus) /\ ~fifo_write(bus)
  BY <1>1, <1>2, MovesAreSound DEF inc_read, fifo_read, write_select
<1>4. begin <=> dma_engine_start
  BY DEF begin
<1>5. /\ started' = dma_engine_start /\ done' = FALSE
      /\ length' = (IF dma_engine_start THEN NumWords ELSE 0)
      /\ writelength' = (IF dma_engine_start THEN NumWords ELSE 0)
  <2>1. dma_engine_start \in BOOLEAN
    BY DEF DmaInv, DmaTypeOK
  <2>2. started' = dma_engine_start /\ done' = FALSE
    BY <1>4, <2>1 DEF Clock, EngineClock
  <2>3. /\ length' = (IF dma_engine_start THEN NumWords ELSE 0)
        /\ writelength' = (IF dma_engine_start THEN NumWords ELSE 0)
    BY <1>1, <1>3, <1>4 DEF Clock, EngineClock, p1_length, p1_writelength
  <2> QED BY <2>2, <2>3
<1>6. /\ dma_engine_start => readaddress' = 0 /\ writeaddress' = 0
      /\ read_select' = FALSE
  BY <1>2, <1>4 DEF Clock, EngineClock, ReadMaster
<1>7. /\ rdaddress_reg' = (IF done THEN 0 ELSE rdaddress_reg)
      /\ wraddress' = (IF done THEN 0 ELSE wraddress)
      /\ estimated_wraddress' = (IF done THEN DEPTH - 1 ELSE estimated_wraddress)
  BY <1>3 DEF Clock, Fifo, rdaddress, flush_fifo
<1>8. fifo_empty' = TRUE /\ fifo_full' \in BOOLEAN
  BY <1>1, <1>3 DEF Clock, Fifo, p1_fifo_empty, p1_fifo_full, fifo_inc, fifo_dec
<1>9. last_write_collision' = FALSE /\ clash' = FALSE /\ ram' = ram
  BY <1>2, <1>3 DEF Clock, Fifo, write_collision
<1>10. pending' = <<>> /\ vramC' = vramC
  BY <1>1, <1>3 DEF Clock, Buses, fifo_write
<1>11. stored' = 0 /\ inFlight' = 0
  <2>1. stored' = 0
    BY <1>8 DEF stored
  <2>2. Len(<<>>) = 0
    BY EmptySeq
  <2>3. Len(pending') = 0
    BY <1>10, <2>2
  <2> QED BY <2>1, <2>3 DEF inFlight
<1>12. DmaTypeOK'
  <2>1. dma_engine_start' \in BOOLEAN
    BY DEF Clock, Ppu
  <2>2. frame' \in {0, 1}
    BY DEF Clock, Ppu, DmaInv, DmaTypeOK
  <2>3. length' \in 0 .. NumWords /\ writelength' \in 0 .. NumWords
    BY <1>5
  <2>4. estimated_wraddress' \in Slot /\ wraddress' \in Slot /\ rdaddress_reg' \in Slot
    BY <1>7 DEF DmaInv, DmaTypeOK, Slot
  <2>5. started' \in BOOLEAN /\ done' \in BOOLEAN /\ read_select' \in BOOLEAN
    BY <1>5, <1>6 DEF DmaInv, DmaTypeOK
  <2>6. ram' \in [Slot -> Datum] /\ pending' \in Seq(Datum)
    <3>1. <<>> \in Seq(Datum)
      BY EmptySeq
    <3> QED BY <1>9, <1>10, <3>1 DEF DmaInv, DmaTypeOK
  <2>7. /\ fifo_empty' \in BOOLEAN /\ fifo_full' \in BOOLEAN
        /\ last_write_collision' \in BOOLEAN /\ clash' \in BOOLEAN
    BY <1>8, <1>9
  <2> QED BY <2>1, <2>2, <2>3, <2>4, <2>5, <2>6, <2>7 DEF DmaTypeOK
<1>13. Lengths'
  <2>1. writelength' = length' + inFlight'
    BY <1>5, <1>11
  <2>2. inFlight' <= DEPTH /\ inFlight' # DEPTH
    BY <1>11
  <2>3. ~started' => writelength' = 0
    BY <1>5
  <2> QED BY <1>5, <1>6, <2>1, <2>2, <2>3 DEF Lengths
<1>14. Addresses'
  BY <1>5, <1>6 DEF Addresses
<1>15. Pointers'
  <2>1. wraddress' = rdaddress_reg'
    BY <1>1, <1>7 DEF DmaInv, Pointers
  <2>2. estimated_wraddress' = Down(rdaddress_reg')
    <3>1. Minus(rdaddress_reg, 0) = rdaddress_reg
      BY PointersGoRound DEF DmaInv, DmaTypeOK
    <3>2. estimated_wraddress = Down(rdaddress_reg)
      BY <1>1, <3>1 DEF DmaInv, Pointers
    <3> QED BY <1>7, <3>2 DEF Down
  <2>3. rdaddress_reg' \in Slot
    BY <1>12 DEF DmaTypeOK
  <2>4. Minus(rdaddress_reg', 0) = rdaddress_reg'
    BY <2>3, PointersGoRound
  <2> QED BY <1>11, <2>1, <2>2, <2>4 DEF Pointers
<1>16. WordBeside'
  BY <1>9 DEF WordBeside
<1>17. DmaInv'
  BY <1>12, <1>13, <1>14, <1>15, <1>16 DEF DmaInv
<1>18. fifo = <<>> /\ fifo' = <<>>
  <2>1. fifo = <<>>
    BY <1>1, NothingInFlight
  <2>2. (DmaInv /\ stored = 0 /\ pending = <<>>)'
    BY <1>10, <1>11, <1>17
  <2>3. (fifo = <<>>)'
    BY <2>2, NothingInFlight, PTL
  <2> QED BY <2>1, <2>3
<1>19. Core!DmaIdle
  <2>1. (NumWords - length)' = (IF dma_engine_start THEN 0 ELSE NumWords - length)
    BY <1>1, <1>5
  <2>2. (NumWords - writelength)' = (IF dma_engine_start THEN 0 ELSE NumWords - writelength)
    BY <1>1, <1>5
  <2> QED BY <1>5, <1>10, <1>18, <2>1, <2>2 DEF Core!DmaIdle
<1> QED BY <1>17, <1>19

\* A clock of a transfer: lengths and addresses follow what moves, and the
\* transfer is over when all words are written.
LEMMA BusyCounts ==
  ASSUME DmaInv, started, NEW bus \in Bus, Clock(bus)
  PROVE  /\ ~done /\ started' = (writelength # 0) /\ done' = (writelength = 0)
         /\ length' = length - asked(bus) /\ writelength' = writelength - left(bus)
         /\ length' \in 0 .. NumWords /\ writelength' \in 0 .. NumWords
         /\ readaddress' = readaddress + asked(bus)
         /\ writelength' # 0 => writeaddress' = writeaddress + left(bus)
         /\ stored' = (stored + came(bus)) - left(bus)
         /\ inFlight' = (inFlight + asked(bus)) - left(bus)
         /\ writelength' = length' + inFlight'
<1>1. ~done /\ ~begin
  BY DEF DmaInv, Lengths, begin
<1>2. started' = (writelength # 0) /\ done' = (writelength = 0)
  BY <1>1 DEF Clock, EngineClock
<1>3. /\ length \in 0 .. NumWords /\ writelength \in 0 .. NumWords
      /\ stored \in Nat /\ Len(pending) \in Nat
      /\ inFlight = stored + Len(pending) /\ writelength = length + inFlight
      /\ inc_read(bus) => length # 0
      /\ fifo_read(bus) => stored # 0
  BY MovesAreSound DEF DmaInv, DmaTypeOK
<1>4. /\ asked(bus) = IF inc_read(bus) THEN 1 ELSE 0
      /\ left(bus) = IF fifo_read(bus) THEN 1 ELSE 0
      /\ came(bus) \in {0, 1}
  BY DEF asked, left, came
<1>5. readaddress \in Nat
  BY <1>3 DEF DmaInv, Addresses
<1>6. length' = IF inc_read(bus) /\ length # 0 THEN length - 1 ELSE length
  BY <1>1 DEF Clock, EngineClock, p1_length
<1>7. length' = length - asked(bus) /\ length' \in 0 .. NumWords
  BY <1>3, <1>4, <1>6
<1>8. writelength' = IF fifo_read(bus) /\ writelength # 0 THEN writelength - 1 ELSE writelength
  BY <1>1 DEF Clock, EngineClock, p1_writelength
<1>9. fifo_read(bus) => writelength # 0
  BY <1>3
<1>10. writelength' = writelength - left(bus) /\ writelength' \in 0 .. NumWords
  <2>1. CASE fifo_read(bus)
    <3>1. left(bus) = 1 /\ writelength' = writelength - 1 /\ writelength # 0
      BY <1>4, <1>8, <1>9, <2>1
    <3> QED BY <1>3, <3>1
  <2>2. CASE ~fifo_read(bus)
    <3>1. left(bus) = 0 /\ writelength' = writelength
      BY <1>4, <1>8, <2>2
    <3> QED BY <1>3, <3>1
  <2> QED BY <2>1, <2>2
<1>11. readaddress' = readaddress + asked(bus)
  <2>1. readaddress' = IF inc_read(bus) THEN readaddress + 1 ELSE readaddress
    BY <1>1 DEF Clock, EngineClock
  <2> QED BY <1>4, <1>5, <2>1
<1>12. writelength' # 0 => writeaddress' = writeaddress + left(bus)
  <2> SUFFICES ASSUME writelength' # 0 PROVE writeaddress' = writeaddress + left(bus)
    OBVIOUS
  <2>1. writelength' = p1_writelength(bus)
    BY DEF Clock, EngineClock
  <2>2. writeaddress' = IF fifo_read(bus) THEN writeaddress + 1 ELSE writeaddress
    BY <1>1, <2>1 DEF Clock, EngineClock
  <2>3. writelength # 0
    BY <1>3, <1>8
  <2>4. writeaddress \in Int
    BY <1>3, <2>3 DEF DmaInv, Addresses
  <2> QED BY <1>4, <2>2, <2>4
<1>13. stored' = (stored + came(bus)) - left(bus)
  BY <1>1, FifoCounts DEF Clock
<1>14. Len(pending') = (Len(pending) + asked(bus)) - came(bus)
  BY PendingCounts DEF Clock
<1>15. inFlight' = stored' + Len(pending')
  BY DEF inFlight
<1>16. inFlight' = (inFlight + asked(bus)) - left(bus)
  <2>1. /\ asked(bus) \in {0, 1} /\ left(bus) \in {0, 1} /\ came(bus) \in {0, 1}
        /\ stored \in Nat /\ Len(pending) \in Nat /\ inFlight = stored + Len(pending)
    BY <1>3, <1>4
  <2>2. \A s, q, c, l, a \in Int : ((s + c) - l) + ((q + a) - c) = ((s + q) + a) - l
    OBVIOUS
  <2>3. inFlight' = ((stored + came(bus)) - left(bus))
                    + ((Len(pending) + asked(bus)) - came(bus))
    BY <1>13, <1>14, <1>15
  <2>4. /\ asked(bus) \in Int /\ left(bus) \in Int /\ came(bus) \in Int
        /\ stored \in Int /\ Len(pending) \in Int
    BY <2>1
  <2> QED BY <2>1, <2>2, <2>3, <2>4
<1>17. writelength' = length' + inFlight'
  BY <1>3, <1>4, <1>7, <1>10, <1>16
<1> QED BY <1>1, <1>2, <1>7, <1>10, <1>11, <1>12, <1>13, <1>16, <1>17

\* A transfer keeps the lengths, and asks for a word only if there is room.
LEMMA BusyLengths ==
  ASSUME DmaInv, started, NEW bus \in Bus, Clock(bus)
  PROVE  Lengths' /\ read_select' \in BOOLEAN
<1>1. /\ ~done /\ started' = (writelength # 0) /\ done' = (writelength = 0)
      /\ length' = length - asked(bus) /\ writelength' = writelength - left(bus)
      /\ inFlight' = (inFlight + asked(bus)) - left(bus)
      /\ writelength' = length' + inFlight'
      /\ writelength' \in 0 .. NumWords /\ length' \in 0 .. NumWords
  BY BusyCounts
<1>2. /\ inFlight' \in 0 .. DEPTH /\ (inFlight' = DEPTH => fifo_full')
      /\ fifo_full' = p1_fifo_full(bus)
  BY <1>1, RoomIsKnown DEF Clock
<1>3. /\ asked(bus) = IF inc_read(bus) THEN 1 ELSE 0
      /\ left(bus) = IF fifo_read(bus) THEN 1 ELSE 0
  BY DEF asked, left
<1>4. /\ length \in 0 .. NumWords /\ writelength \in Nat /\ stored \in Nat /\ inFlight \in 0 .. DEPTH
      /\ fifo_read(bus) => stored # 0
      /\ inFlight = stored + Len(pending) /\ Len(pending) \in Nat
      /\ writelength = length + inFlight
  BY MovesAreSound DEF DmaInv, DmaTypeOK
<1>5. read_select' = (IF read_select /\ bus.read_waitrequest THEN TRUE
                      ELSE ~p1_done_read(bus) /\ ~p1_fifo_full(bus))
  BY DEF Clock, ReadMaster
<1>6. read_select' \in BOOLEAN
  BY <1>5 DEF p1_done_read, p1_fifo_full
<1>7. ASSUME read_select' PROVE length' # 0 /\ inFlight' # DEPTH
  <2>1. CASE read_select /\ bus.read_waitrequest
    <3>1. ~inc_read(bus)
      BY <2>1 DEF inc_read
    <3>2. length # 0 /\ inFlight # DEPTH
      BY <2>1 DEF DmaInv, Lengths
    <3> QED BY <1>1, <1>3, <1>4, <3>1, <3>2
  <2>2. CASE ~(read_select /\ bus.read_waitrequest)
    <3>1. ~p1_done_read(bus) /\ ~p1_fifo_full(bus)
      BY <1>5, <1>7, <2>2
    <3>2. length # 0 /\ ~(inc_read(bus) /\ length = 1)
      BY <3>1 DEF p1_done_read
    <3>3. length' # 0
      BY <1>1, <1>3, <1>4, <3>2
    <3>4. inFlight' # DEPTH
      BY <1>2, <3>1
    <3> QED BY <3>3, <3>4
  <2> QED BY <2>1, <2>2
<1>8. ~started' => writelength' = 0
  <2> SUFFICES ASSUME ~started' PROVE writelength' = 0
    OBVIOUS
  <2>1. writelength = 0
    BY <1>1
  <2>2. stored = 0
    BY <1>4, <2>1
  <2>3. left(bus) = 0
    BY <1>3, <1>4, <2>2
  <2>4. writelength' = writelength - left(bus)
    BY <1>1
  <2> QED BY <2>1, <2>3, <2>4
<1>9. started' => ~done'
  BY <1>1
<1>10. inFlight' <= DEPTH
  BY <1>2
<1> QED BY <1>1, <1>2, <1>6, <1>7, <1>8, <1>9, <1>10 DEF Lengths

\* A transfer keeps the word beside the memory.
LEMMA BusyWord ==
  ASSUME DmaInv, started, NEW bus \in Bus, Clock(bus)
  PROVE  /\ WordBeside' /\ ram' \in [Slot -> Datum]
         /\ last_write_collision' \in BOOLEAN /\ clash' \in BOOLEAN
<1>1. ~done /\ Fifo(bus)
  BY DEF DmaInv, Lengths, Clock
<1>2. /\ rdaddress_reg' \in Slot /\ rdaddress_reg' = rdaddress(bus)
      /\ rdaddress_reg' = (IF fifo_read(bus) THEN Down(rdaddress_reg) ELSE rdaddress_reg)
      /\ fifo_write(bus) => ~fifo_empty'
      /\ ~fifo_read(bus) /\ ~fifo_empty => ~fifo_empty'
  BY <1>1, FifoCounts DEF Fifo
<1>3. /\ ram \in [Slot -> Datum] /\ wraddress \in Slot /\ pending \in Seq(Datum)
      /\ last_write_collision \in BOOLEAN
  BY DEF DmaInv, DmaTypeOK
<1>4. fifo_write(bus) => Head(pending) \in Datum
  BY <1>3, MovesAreSound, HeadTailProperties
<1>5. /\ last_write_collision' = (IF write_collision(bus) THEN TRUE
                                  ELSE last_write_collision /\ ~fifo_read(bus))
      /\ last_write_data' = (IF write_collision(bus) THEN Head(pending) ELSE last_write_data)
      /\ ram' = (IF fifo_write(bus) THEN [ram EXCEPT ![wraddress] = Head(pending)] ELSE ram)
      /\ clash' = write_collision(bus)
  BY <1>1 DEF Fifo
<1>6. write_collision(bus) <=> fifo_write(bus) /\ wraddress = rdaddress_reg'
  BY <1>2 DEF write_collision
<1>7. write_collision(bus) \in BOOLEAN
  BY DEF write_collision
<1>8. ram' \in [Slot -> Datum]
  BY <1>3, <1>4, <1>5
<1>9. clash' \in BOOLEAN /\ last_write_collision' \in BOOLEAN /\ (clash' => last_write_collision')
  BY <1>3, <1>5, <1>7
<1>10. ASSUME last_write_collision'
       PROVE  ~fifo_empty' /\ last_write_data' = ram'[rdaddress_reg']
  <2>1. CASE write_collision(bus)
    BY <1>2, <1>3, <1>5, <1>6, <2>1
  <2>2. CASE ~write_collision(bus)
    <3>1. last_write_collision /\ ~fifo_read(bus) /\ last_write_data' = last_write_data
      BY <1>5, <1>10, <2>2
    <3>2. ~fifo_empty /\ last_write_data = ram[rdaddress_reg] /\ rdaddress_reg' = rdaddress_reg
      BY <1>2, <3>1 DEF DmaInv, WordBeside
    <3>3. ram'[rdaddress_reg] = ram[rdaddress_reg]
      BY <1>2, <1>3, <1>5, <1>6, <2>2, <3>2
    <3> QED BY <1>2, <3>1, <3>2, <3>3
  <2> QED BY <2>1, <2>2
<1> QED BY <1>8, <1>9, <1>10 DEF WordBeside

\* A transfer keeps the invariant.
LEMMA BusyKeepsInv ==
  ASSUME DmaInv, started, NEW bus \in Bus, Clock(bus)
  PROVE  DmaInv'
<1>1. Lengths' /\ read_select' \in BOOLEAN
  BY BusyLengths
<1>2. /\ WordBeside' /\ ram' \in [Slot -> Datum]
      /\ last_write_collision' \in BOOLEAN /\ clash' \in BOOLEAN
  BY BusyWord
<1>3. /\ ~done /\ started' = (writelength # 0) /\ done' = (writelength = 0)
      /\ length' = length - asked(bus) /\ writelength' = writelength - left(bus)
      /\ length' \in 0 .. NumWords /\ writelength' \in 0 .. NumWords
      /\ readaddress' = readaddress + asked(bus)
      /\ writelength' # 0 => writeaddress' = writeaddress + left(bus)
      /\ inFlight' = (inFlight + asked(bus)) - left(bus)
  BY BusyCounts
<1>4. /\ fifo_empty' \in BOOLEAN /\ wraddress' \in Slot /\ rdaddress_reg' \in Slot
      /\ fifo_empty' => wraddress' = rdaddress_reg'
  BY <1>3, FifoCounts DEF Clock
<1>5. /\ estimated_wraddress' = Down(Minus(rdaddress_reg', inFlight'))
      /\ estimated_wraddress' \in Slot /\ fifo_full' \in BOOLEAN
  BY <1>3, RoomIsKnown DEF Clock
<1>6. pending' \in Seq(Datum)
  BY PendingCounts DEF Clock
<1>7. Pointers'
  BY <1>4, <1>5 DEF Pointers
<1>8. Addresses'
  <2>1. /\ readaddress = NumWords - length
        /\ writelength # 0 => writeaddress = NumWords - writelength
        /\ length \in Nat /\ writelength \in Nat
        /\ asked(bus) \in {0, 1} /\ left(bus) \in {0, 1}
    BY MovesAreSound DEF DmaInv, Addresses
  <2>2. readaddress' = NumWords - length'
    BY <1>3, <2>1
  <2>3. writelength' # 0 => writeaddress' = NumWords - writelength'
    <3>1. writelength' # 0 => writelength # 0
      BY <1>3, <2>1
    <3> QED BY <1>3, <2>1, <3>1
  <2> QED BY <2>2, <2>3 DEF Addresses
<1>9. DmaTypeOK'
  <2>1. dma_engine_start' \in BOOLEAN
    BY DEF Clock, Ppu
  <2>2. frame' \in {0, 1}
    BY DEF Clock, Ppu, DmaInv, DmaTypeOK
  <2>3. started' \in BOOLEAN /\ done' \in BOOLEAN
    BY <1>3
  <2> QED BY <1>1, <1>2, <1>3, <1>4, <1>5, <1>6, <2>1, <2>2, <2>3 DEF DmaTypeOK
<1> QED BY <1>1, <1>2, <1>7, <1>8, <1>9 DEF DmaInv

\* The end of a transfer: all is written and nothing moves any more.
LEMMA TransferFinishes ==
  ASSUME DmaInv, started, writelength = 0, NEW bus \in Bus, Clock(bus)
  PROVE  Core!DmaFinish
<1>1. /\ length = 0 /\ stored = 0 /\ Len(pending) = 0 /\ pending = <<>>
      /\ ~inc_read(bus) /\ ~fifo_read(bus) /\ ~fifo_write(bus)
  <2>1. length = 0 /\ stored = 0 /\ Len(pending) = 0
    BY MovesAreSound
  <2> QED BY <2>1, MovesAreSound, EmptySeq DEF DmaInv, DmaTypeOK
<1>2. asked(bus) = 0 /\ left(bus) = 0 /\ came(bus) = 0
  BY <1>1 DEF asked, left, came
<1>3. /\ started' = FALSE /\ done' = TRUE /\ length' = 0 /\ writelength' = 0
      /\ stored' = 0
  <2>1. started' = FALSE /\ done' = TRUE
    BY BusyCounts
  <2>2. /\ length' = length - asked(bus) /\ writelength' = writelength - left(bus)
        /\ stored' = (stored + came(bus)) - left(bus)
    BY BusyCounts
  <2>3. length' = 0 /\ writelength' = 0 /\ stored' = 0
    BY <1>1, <1>2, <2>2
  <2> QED BY <2>1, <2>3
<1>4. pending' = <<>> /\ vramC' = vramC
  BY <1>1 DEF Clock, Buses, fifo_write
<1>5. fifo' = <<>>
  <2>1. (DmaInv /\ stored = 0 /\ pending = <<>>)'
    BY <1>3, <1>4, BusyKeepsInv
  <2>2. (fifo = <<>>)'
    BY <2>1, NothingInFlight, PTL
  <2> QED BY <2>2
<1>6. /\ NumWords - writelength = NumWords
      /\ (NumWords - length)' = NumWords - length
      /\ (NumWords - writelength)' = NumWords - writelength
  BY <1>1, <1>3
<1> QED BY <1>3, <1>4, <1>5, <1>6 DEF Core!DmaFinish

\* What stays of the words in flight.
kept(bus) == IF fifo_read(bus) THEN Tail(fifo) ELSE fifo

\* A clock of a transfer takes the oldest word out of the sequence and puts the
\* word that was asked for behind the others.
LEMMA FifoMoves ==
  ASSUME DmaInv, started, NEW bus \in Bus, Clock(bus)
  PROVE  /\ fifo_read(bus) => fifo # <<>> /\ fifo_rd_data = Head(fifo)
         /\ fifo' = IF inc_read(bus) THEN Append(kept(bus), <<frame, readaddress>>) ELSE kept(bus)
<1> DEFINE p == rdaddress_reg
           n == stored
           rest == IF bus.readdatavalid THEN Tail(pending) ELSE pending
           sum == n + came(bus)
<1>1. /\ ram \in [Slot -> Datum] /\ p \in Slot /\ n \in 0 .. DEPTH /\ pending \in Seq(Datum)
      /\ wraddress = Minus(p, n)
      /\ fifo = Words(ram, p, n) \o pending
  BY StoredIs, FifoIs DEF DmaInv, DmaTypeOK
<1>2. /\ fifo_write(bus) => Len(pending) # 0 /\ pending # <<>>
      /\ fifo_read(bus) => n # 0
      /\ Len(pending) \in Nat /\ n + Len(pending) <= DEPTH
  BY MovesAreSound
<1>3. rest \in Seq(Datum)
  BY <1>1, <1>2, HeadTailProperties DEF fifo_write
<1>4. ~done
  BY DEF DmaInv, Lengths
<1>5. /\ ram' = (IF fifo_write(bus) THEN [ram EXCEPT ![wraddress] = Head(pending)] ELSE ram)
      /\ pending' = (IF inc_read(bus) THEN Append(rest, <<frame, readaddress>>) ELSE rest)
      /\ p' = (IF fifo_read(bus) THEN Down(p) ELSE p)
  BY <1>4 DEF Clock, Fifo, Buses, rdaddress, flush_fifo
<1>6. fifo' = Words(ram', p', stored') \o pending'
  <2>1. DmaInv'
    BY BusyKeepsInv
  <2>2. (fifo = Words(ram, rdaddress_reg, stored) \o pending)'
    BY <2>1, FifoIs, PTL
  <2> QED BY <2>2 DEF Words, Minus
<1>7. stored' = sum - left(bus)
  BY BusyCounts
<1>8. /\ sum \in 0 .. DEPTH /\ (fifo_read(bus) => sum \in 1 .. DEPTH)
      /\ ram' \in [Slot -> Datum]
      /\ Words(ram', p, sum) \o rest = fifo
  <2>1. CASE fifo_write(bus)
    <3>1. came(bus) = 1 /\ rest = Tail(pending) /\ pending # <<>> /\ n \in 0 .. DEPTH - 1
      BY <1>1, <1>2, <2>1 DEF came, fifo_write
    <3>2. ram' = [ram EXCEPT ![Minus(p, n)] = Head(pending)]
      BY <1>1, <1>5, <2>1
    <3> HIDE DEF p, n, rest
    <3>3. /\ ram' \in [Slot -> Datum]
          /\ Words(ram', p, n + 1) \o Tail(pending) = Words(ram, p, n) \o pending
      <4> DEFINE mem == ram'
      <4>1. /\ ram \in [Slot -> Datum] /\ p \in Slot /\ n \in 0 .. DEPTH - 1
            /\ pending \in Seq(Datum) /\ pending # <<>>
            /\ mem = Put(ram, Minus(p, n), Head(pending))
        BY <1>1, <3>1, <3>2 DEF Put
      <4>2. mem \in [Slot -> Datum]
        BY <4>1, HeadTailProperties DEF Put
      <4> HIDE DEF mem
      <4>4. Words(mem, p, n + 1) \o Tail(pending) = Words(ram, p, n) \o pending
        <5>1. CanCome(ram, p, n, pending, mem)
          BY <4>1, <4>2 DEF CanCome
        <5>2. SameFlight(ram, p, n, pending, mem)
          BY <5>1, WordComes, Zenon
        <5> QED BY <5>2 DEF SameFlight
      <4> QED BY <4>2, <4>4 DEF mem
    <3>4. sum = n + 1 /\ sum \in 1 .. DEPTH /\ sum \in 0 .. DEPTH
      BY <1>1, <3>1
    <3> QED BY <1>1, <3>1, <3>3, <3>4
  <2>2. CASE ~fifo_write(bus)
    <3>1. came(bus) = 0 /\ rest = pending /\ ram' = ram
      BY <1>5, <2>2 DEF came, fifo_write
    <3> HIDE DEF p, n, rest
    <3>2. sum = n
      BY <1>1, <3>1
    <3> QED BY <1>1, <1>2, <3>1, <3>2
  <2> QED BY <2>1, <2>2
<1> HIDE DEF rest, sum
<1>9. /\ Words(ram', p', stored') \o rest = kept(bus)
      /\ stored' \in 0 .. DEPTH /\ p' \in Slot
  <2>1. CASE fifo_read(bus)
    <3>1. left(bus) = 1 /\ p' = Down(p) /\ sum \in 1 .. DEPTH
      BY <1>5, <1>8, <2>1 DEF left
    <3>2. stored' = sum - 1 /\ stored' \in 0 .. DEPTH
      BY <1>7, <3>1
    <3> HIDE DEF p
    <3>3. Tail(Words(ram', p, sum) \o rest) = Words(ram', Down(p), sum - 1) \o rest
      <4> DEFINE mem == ram'
      <4>1. mem \in [Slot -> Datum] /\ p \in Slot /\ sum \in 1 .. DEPTH /\ rest \in Seq(Datum)
        BY <1>1, <1>3, <1>8, <3>1
      <4> HIDE DEF mem
      <4>2. Tail(Words(mem, p, sum) \o rest) = Words(mem, Down(p), sum - 1) \o rest
        <5>1. CanLeave(mem, p, sum, rest)
          BY <4>1 DEF CanLeave
        <5>2. Shortened(mem, p, sum, rest)
          BY <5>1, WordLeaves, Zenon
        <5> QED BY <5>2 DEF Shortened
      <4> QED BY <4>2 DEF mem
    <3>4. Down(p) \in Slot
      BY <1>1, PointersGoRound
    <3> QED BY <1>8, <2>1, <3>1, <3>2, <3>3, <3>4 DEF kept
  <2>2. CASE ~fifo_read(bus)
    <3>1. left(bus) = 0 /\ p' = p
      BY <1>5, <2>2 DEF left
    <3>2. stored' = sum
      BY <1>7, <1>8, <3>1
    <3> QED BY <1>1, <1>8, <2>2, <3>1, <3>2 DEF kept
  <2> QED BY <2>1, <2>2
<1>10. fifo_read(bus) => fifo # <<>> /\ fifo_rd_data = Head(fifo)
  <2> SUFFICES ASSUME fifo_read(bus) PROVE fifo # <<>> /\ fifo_rd_data = Head(fifo)
    OBVIOUS
  <2>1. n \in 1 .. DEPTH
    BY <1>1, <1>2
  <2>2. fifo # <<>> /\ Head(fifo) = ram[p]
    <3> HIDE DEF p, n
    <3>1. CanLeave(ram, p, n, pending)
      BY <1>1, <2>1 DEF CanLeave
    <3>2. OldestFirst(ram, p, n, pending)
      BY <3>1, WordLeaves, Zenon
    <3> QED BY <1>1, <3>2 DEF OldestFirst
  <2>3. fifo_rd_data = ram[p]
    BY BesideIs
  <2> QED BY <2>2, <2>3
<1>11. CASE inc_read(bus)
  <2>1. <<frame, readaddress>> \in Datum
    BY <1>11, AskedIsDatum
  <2>2. Words(ram', p', stored') \in Seq(Datum)
    BY <1>8, <1>9, WordsAre
  <2>3. pending' = Append(rest, <<frame, readaddress>>)
    BY <1>5, <1>11
  <2>4. Words(ram', p', stored') \o Append(rest, <<frame, readaddress>>)
        = Append(Words(ram', p', stored') \o rest, <<frame, readaddress>>)
    BY <1>3, <2>1, <2>2, WordAsked
  <2> QED BY <1>6, <1>9, <1>10, <1>11, <2>3, <2>4
<1>12. CASE ~inc_read(bus)
  BY <1>5, <1>6, <1>9, <1>10, <1>12
<1> QED BY <1>11, <1>12

\* While words are left to be written a clock is a transfer of PpuCore.
LEMMA TransferMoves ==
  ASSUME DmaInv, started, writelength # 0, NEW bus \in Bus, Clock(bus)
  PROVE  Core!DmaTransfer
<1>1. /\ fifo_read(bus) => fifo # <<>> /\ fifo_rd_data = Head(fifo)
      /\ fifo' = IF inc_read(bus) THEN Append(kept(bus), <<frame, readaddress>>) ELSE kept(bus)
  BY FifoMoves
<1>2. /\ inc_read(bus) \in BOOLEAN /\ fifo_read(bus) \in BOOLEAN
  BY DEF inc_read, fifo_read, write_select
<1>3. started' = started /\ done' = done
  <2>1. ~done /\ started' = (writelength # 0) /\ done' = (writelength = 0)
    BY BusyCounts
  <2>2. started' = TRUE /\ done' = FALSE
    BY <2>1
  <2>3. started = TRUE /\ done = FALSE
    BY <2>1 DEF DmaInv, DmaTypeOK
  <2> QED BY <2>2, <2>3
<1>4. /\ length \in 0 .. NumWords /\ writelength \in 0 .. NumWords
      /\ inFlight \in Nat /\ inFlight <= DEPTH /\ writelength = length + inFlight
      /\ inc_read(bus) => length # 0 /\ inFlight # DEPTH
  BY MovesAreSound DEF DmaInv, DmaTypeOK
<1>5. readaddress = NumWords - length /\ writeaddress = NumWords - writelength
  BY DEF DmaInv, Addresses
<1>6. /\ (NumWords - length)' = (IF inc_read(bus) THEN (NumWords - length) + 1 ELSE NumWords - length)
      /\ (NumWords - writelength)' = (IF fifo_read(bus) THEN (NumWords - writelength) + 1
                                      ELSE NumWords - writelength)
  <2>1. length' = length - asked(bus) /\ writelength' = writelength - left(bus)
    BY BusyCounts
  <2> QED BY <1>4, <2>1 DEF asked, left
<1>7. inc_read(bus) => /\ NumWords - length < NumWords
                       /\ NumWords - length < (NumWords - writelength) + DEPTH
                       /\ NumWords - length \in Word
  BY <1>4 DEF Word
<1>8. inc_read(bus) => <<frame, readaddress>> = [w \in Word |-> <<frame, w>>][NumWords - length]
  BY <1>5, <1>7
<1>9. vramC' = IF fifo_read(bus) THEN [vramC EXCEPT ![NumWords - writelength] = Head(fifo)]
               ELSE vramC
  BY <1>1, <1>5 DEF Clock, Buses
<1>10. NumWords - writelength < NumWords
  BY <1>4
<1>11. fifo' = IF inc_read(bus)
               THEN Append(kept(bus), [w \in Word |-> <<frame, w>>][NumWords - length]) ELSE kept(bus)
  BY <1>1, <1>8
<1> QED BY <1>1, <1>2, <1>3, <1>6, <1>7, <1>9, <1>10, <1>11 DEF Core!DmaTransfer, Core!fifo_room, kept

----------------------------------------------------------------------------
\* Reset leaves the engine with nothing in flight.
LEMMA DmaInit == Init => DmaInv
<1> SUFFICES ASSUME Init PROVE DmaInv
  OBVIOUS
<1>1. <<>> \in Seq(Datum) /\ Len(<<>>) = 0
  BY EmptySeq
<1>2. DmaTypeOK
  <2>1. ram \in [Slot -> Datum]
    BY DEF Init, Datum
  <2>2. estimated_wraddress \in Slot /\ wraddress \in Slot /\ rdaddress_reg \in Slot
    BY DEF Init, Slot
  <2>3. pending \in Seq(Datum)
    BY <1>1 DEF Init
  <2>4. frame \in {0, 1} /\ length \in 0 .. NumWords /\ writelength \in 0 .. NumWords
    BY DEF Init
  <2>5. /\ dma_engine_start \in BOOLEAN
        /\ started \in BOOLEAN /\ done \in BOOLEAN /\ read_select \in BOOLEAN
        /\ fifo_empty \in BOOLEAN /\ fifo_full \in BOOLEAN
        /\ last_write_collision \in BOOLEAN /\ clash \in BOOLEAN
    BY DEF Init
  <2> QED BY <2>1, <2>2, <2>3, <2>4, <2>5 DEF DmaTypeOK
<1>3. stored = 0 /\ inFlight = 0
  <2>1. stored = 0
    BY DEF Init, stored
  <2>2. Len(pending) = 0
    BY <1>1 DEF Init
  <2> QED BY <2>1, <2>2 DEF inFlight
<1>4. Lengths /\ Addresses /\ WordBeside
  BY <1>3 DEF Init, Lengths, Addresses, WordBeside
<1>5. Pointers
  <2>1. Minus(0, 0) = 0 /\ Down(0) = DEPTH - 1
    BY DEF Minus, Down
  <2> QED BY <1>3, <2>1 DEF Init, Pointers
<1> QED BY <1>2, <1>4, <1>5 DEF DmaInv

\* A clock keeps the invariant, and is a clock of the engine of PpuCore.
LEMMA DmaStep ==
  ASSUME DmaInv, NEW bus \in Bus, Clock(bus)
  PROVE  DmaInv' /\ Core!DmaEngine
<1>1. CASE ~started
  BY <1>1, IdleClock DEF Core!DmaEngine
<1>2. CASE started /\ writelength = 0
  BY <1>2, BusyKeepsInv, TransferFinishes DEF Core!DmaEngine
<1>3. CASE started /\ writelength # 0
  BY <1>3, BusyKeepsInv, TransferMoves DEF Core!DmaEngine
<1> QED BY <1>1, <1>2, <1>3

\* Nothing happens to the invariant between the clocks.
LEMMA DmaStutter == DmaInv /\ UNCHANGED vars => DmaInv'
BY DEF vars, control, buffer, DmaInv, DmaTypeOK, Lengths, Addresses, Pointers, WordBeside,
       inFlight, stored

\* The registers of the engine (dma_engine.v) keep to each other for every
\* length of the transfer, depth of the FIFO and behaviour of the buses.
THEOREM DmaCorrect == Spec => []DmaInv
<1>1. DmaInv /\ [Next]_vars => DmaInv'
  BY DmaStep, DmaStutter DEF Next
<1> QED BY <1>1, DmaInit, PTL DEF Spec

\* The engine of pointers, flags and the register beside the memory is in every
\* clock the engine of PpuCore, whose FIFO is a sequence of words: nothing is
\* lost, repeated or reordered, and the FIFO never holds more than it can.
THEOREM EngineIsFifo == Spec => ImplementsDmaEngine
<1>1. DmaInv /\ [Next]_vars => [Core!DmaEngine]_vars
  BY DmaStep DEF Next
<1> QED BY <1>1, DmaCorrect, PTL DEF Spec, ImplementsDmaEngine

\* When the engine has reported the end of a transfer no read is under way and
\* no word is left in the FIFO, so the flush loses nothing and no answer is
\* taken for a word of the next frame.
THEOREM NothingIsLeft == Spec => []EndsDrained
<1>1. DmaInv => EndsDrained
  <2> SUFFICES ASSUME DmaInv, ~started
               PROVE  pending = <<>> /\ fifo_empty /\ ~read_select
    BY DEF EndsDrained
  <2>1. length \in Nat /\ stored \in Nat /\ Len(pending) \in Nat
        /\ writelength = length + (stored + Len(pending)) /\ writelength = 0
    BY StoredIs, LenProperties DEF DmaInv, DmaTypeOK, Lengths, inFlight
  <2>2. length = 0 /\ stored = 0 /\ Len(pending) = 0
    BY <2>1
  <2>3. pending = <<>>
    BY <2>2, EmptySeq DEF DmaInv, DmaTypeOK
  <2>4. fifo_empty
    BY <2>2, StoredIs DEF DmaInv
  <2>5. ~read_select
    BY <2>2 DEF DmaInv, Lengths
  <2> QED BY <2>3, <2>4, <2>5
<1> QED BY <1>1, DmaCorrect, PTL
==============================================================================
