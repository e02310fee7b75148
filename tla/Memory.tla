------------------------------- MODULE Memory -------------------------------
(***************************************************************************)
(* MemoryWrapper of memory_wrapper.cpp: a table of entries that are        *)
(* allocated when they are first written, each a vector of 32 bit words,   *)
(* behind accesses of one, two, four and eight bytes.                      *)
(*                                                                         *)
(* A byte is a digit to the base ByteSize, a word four of them, and the    *)
(* 32 bit address space is Entries vectors of EntryWords words.  Addresses *)
(* may exceed it: size_t has 64 bits.                                      *)
(***************************************************************************)
EXTENDS Integers, Sequences

CONSTANTS
  ByteSize,      (* values of a byte, 256                                  *)
  EntryWords,    (* words of an entry, 2^18                                *)
  Entries        (* kMapEntry, 2^12                                        *)

ASSUME MemoryAssumption ==
  /\ ByteSize \in Nat \ {0, 1}
  /\ EntryWords \in Nat \ {0} /\ EntryWords % 2 = 0
  /\ Entries \in Nat \ {0, 1}

\* What byte k of a value counts: ByteSize to the power of k.
Weight[k \in 0 .. 8] == IF k = 0 THEN 1 ELSE ByteSize * Weight[k - 1]

Byte == 0 .. ByteSize - 1
Word == 0 .. Weight[4] - 1
EntrySize == 4 * EntryWords
\* 2^32, the bytes that the wrapper holds.
MemorySize == Entries * EntrySize

\* Byte k of a value, its n lowest bytes, and the value of some bytes.
ByteOf(value, k) == (value \div Weight[k]) % ByteSize
BytesOf(value, n) == [k \in 1 .. n |-> ByteOf(value, k - 1)]
ValueOf(data) ==
  LET sum[k \in 0 .. Len(data)] ==
        IF k = 0 THEN 0 ELSE sum[k - 1] + data[k] * Weight[k - 1]
  IN sum[Len(data)]

-----------------------------------------------------------------------------

\* The constructor: nothing assigned.
MemoryWrapper ==
  [mapping |-> [entry \in 0 .. Entries - 1 |-> << >>],
   assigned |-> [entry \in 0 .. Entries - 1 |-> FALSE]]

Entry(i) == (i \div EntrySize) % Entries
WordOffset(i) == (i % EntrySize) \div 4
WordAddress(i) == i - (i % 4)

\* Vectors count their elements from 1 in the model.
Read32(mem, i) ==
  IF mem.assigned[Entry(i)] THEN mem.mapping[Entry(i)][WordOffset(i) + 1] ELSE 0

Write32(mem, i, value) ==
  LET entry == Entry(i)
      vector == IF mem.assigned[entry] THEN mem.mapping[entry]
                ELSE [k \in 1 .. EntryWords |-> 0]
  IN [mapping |-> [mem.mapping EXCEPT
        ![entry] = [vector EXCEPT ![WordOffset(i) + 1] = value % Weight[4]]],
      assigned |-> [mem.assigned EXCEPT ![entry] = TRUE]]

ReadByte(mem, i) == ByteOf(Read32(mem, WordAddress(i)), i % 4)

\* A faulty variant: the other bytes of the word are lost.
WriteByteAlone(mem, i, data) ==
  Write32(mem, WordAddress(i), data * Weight[i % 4])

WriteByte(mem, i, data) ==
  LET original == Read32(mem, WordAddress(i))
      masked == original - ByteOf(original, i % 4) * Weight[i % 4]
  IN Write32(mem, WordAddress(i), masked + data * Weight[i % 4])

\* Asserts that i is even.
Read16(mem, i) ==
  (Read32(mem, WordAddress(i)) \div Weight[i % 4]) % Weight[2]

\* A faulty variant: the halves of the word are exchanged.
Write16Swapped(mem, i, data) ==
  LET original == Read32(mem, WordAddress(i))
      low == original % Weight[2]
  IN Write32(mem, WordAddress(i),
             IF i % 4 = 0 THEN low + data * Weight[2]
                          ELSE original - low + data)

\* Asserts that i is even.
Write16(mem, i, data) ==
  LET original == Read32(mem, WordAddress(i))
      low == original % Weight[2]
  IN Write32(mem, WordAddress(i),
             IF i % 4 = 2 THEN low + data * Weight[2]
                          ELSE original - low + data)

\* Asserts that i is a multiple of 8.
Read64(mem, i) == Read32(mem, i) + Read32(mem, i + 4) * Weight[4]

\* Asserts that i is a multiple of 8.
Write64(mem, i, value) ==
  Write32(Write32(mem, i, value), i + 4, value \div Weight[4])

\* The loops of the callers: byte after byte from address i on.
WriteBytes(mem, i, data) ==
  LET after[k \in 0 .. Len(data)] ==
        IF k = 0 THEN mem ELSE WriteByte(after[k - 1], i + k - 1, data[k])
  IN after[Len(data)]

ReadBytes(mem, i, n) == [k \in 1 .. n |-> ReadByte(mem, i + k - 1)]

=============================================================================
