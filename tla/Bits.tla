--------------------------------- MODULE Bits ---------------------------------
(***************************************************************************)
(* Bits in memory (lib/bit/bit.h, bit.c).  A byte or a word is the set of  *)
(* its bits that are one, so that shifting a word is a translation and     *)
(* removing its first bit (word &= word - 1) a difference; words are read  *)
(* as on a little-endian machine.                                          *)
(***************************************************************************)
EXTENDS Integers, Sequences, SequencesExt

CONSTANTS
  CHAR_BIT,   \* bits of a byte
  WordBytes,  \* sizeof(ITER_UINT)
  MaxBytes    \* bytes of the memory

ASSUME BitsAssumption == {CHAR_BIT, WordBytes, MaxBytes} \subseteq Nat \ {0}

VARIABLES
  data,    \* the memory, byte by byte
  ones,    \* the positions that should be one, by what was done
  it,      \* the iterator; size 0 and no word when there is none
  wanted,  \* the value whose positions the iterator visits
  found    \* what bit_iterator_next has returned

bitVars == <<data, ones, it, wanted, found>>

SIZE_MAX == -1
AllOnes == 0 .. CHAR_BIT * WordBytes - 1
Toggled(a, b) == (a \ b) \cup (b \ a)
NoIterator == [word |-> {}, xor |-> {}, base |-> 0, next |-> 0, end |-> -1]

BitsInit ==
  /\ data = [i \in 1 .. MaxBytes |-> {}] /\ ones = {}
  /\ it = NoIterator /\ wanted = TRUE /\ found = <<>>
-----------------------------------------------------------------------------
bit_test(d, pos) == pos % CHAR_BIT \in d[pos \div CHAR_BIT + 1]
bit_set(d, pos) == [d EXCEPT ![pos \div CHAR_BIT + 1] = @ \cup {pos % CHAR_BIT}]
bit_clear(d, pos) == [d EXCEPT ![pos \div CHAR_BIT + 1] = @ \ {pos % CHAR_BIT}]

bit_ctz(word) == Min(word)
bit_count(word) == Cardinality(word)

WordBits == CHAR_BIT * WordBytes
ShiftLeft(word, k) == {b + k : b \in {c \in word : c + k < WordBits}}
ShiftRight(word, k) == {b - k : b \in {c \in word : c >= k}}
bit_rotl(word, r) == ShiftLeft(word, r) \cup ShiftRight(word, WordBits - r)
bit_rotr(word, r) == ShiftRight(word, r) \cup ShiftLeft(word, WordBits - r)

\* Each byte is masked and shifted to the opposite place, up or down.
bswap(word) ==
  LET byte(i) == {b \in word : b \div CHAR_BIT = i}
      by(i) == CHAR_BIT * (WordBytes - 1 - 2 * i)
  IN  UNION {IF by(i) >= 0 THEN ShiftLeft(byte(i), by(i)) ELSE ShiftRight(byte(i), -by(i)) :
             i \in 0 .. WordBytes - 1}

(***************************************************************************)
(* bit_index: the word is shifted past each one that is found, and the     *)
(* positions, counted from 1, add up.                                      *)
(***************************************************************************)
bit_index(word, offset) ==
  LET s[k \in 0 .. bit_count(word)] ==
        IF k = 0 THEN [x |-> word, prev |-> 0, indexes |-> <<>>]
        ELSE LET a == bit_ctz(s[k - 1].x)
                 pos == s[k - 1].prev + a + 1
             IN  [x |-> {b - a - 1 : b \in s[k - 1].x \ {a}}, prev |-> pos,
                  indexes |-> Append(s[k - 1].indexes, offset + pos)]
  IN  s[bit_count(word)].indexes

\* n bytes of memory from byte `from` on, as the low bits of a word.
Loaded(from, n) ==
  {b \in 0 .. n * CHAR_BIT - 1 : bit_test(data, from * CHAR_BIT + b)}

\* A word is written to the memory from byte `from` on.
Store(d, from, word) ==
  [i \in DOMAIN d |->
     IF i - 1 \in from .. from + WordBytes - 1
     THEN {b \in 0 .. CHAR_BIT - 1 : (i - 1 - from) * CHAR_BIT + b \in word}
     ELSE d[i]]

(***************************************************************************)
(* bit_iterator_init.  The bytes that are left over when the size is not a *)
(* whole number of words come first, in a word whose other bits look as if *)
(* they had the value that is not wanted.                                  *)
(***************************************************************************)
\* Mutant: the left over bits look as if they were zero.
iterator_zeros(size, set) ==
  LET xor == IF set THEN {} ELSE AllOnes
      n == IF size % WordBytes = 0 THEN WordBytes ELSE size % WordBytes
  IN  IF size = 0 THEN [NoIterator EXCEPT !.end = 0]
      ELSE [word |-> Toggled(Loaded(0, n), xor), xor |-> xor, base |-> 0, next |-> n, end |-> size]

bit_iterator_init(size, set) ==
  LET xor == IF set THEN {} ELSE AllOnes
      n == IF size % WordBytes = 0 THEN WordBytes ELSE size % WordBytes
      rest == {b \in xor : b >= n * CHAR_BIT}
  IN  IF size = 0 THEN [NoIterator EXCEPT !.end = 0]
      ELSE [word |-> Toggled(Loaded(0, n) \cup rest, xor), xor |-> xor,
            base |-> 0, next |-> n, end |-> size]
-----------------------------------------------------------------------------
BitSet(pos) ==
  /\ it = NoIterator
  /\ data' = bit_set(data, pos) /\ ones' = ones \cup {pos}
  /\ UNCHANGED <<it, wanted, found>>

BitClear(pos) ==
  /\ it = NoIterator
  /\ data' = bit_clear(data, pos) /\ ones' = ones \ {pos}
  /\ UNCHANGED <<it, wanted, found>>

(***************************************************************************)
(* A word is loaded, rotated or its bytes are swapped, and stored again;   *)
(* place says where each bit of the word should go.                        *)
(***************************************************************************)
Rewrite(from, word, place) ==
  LET base == from * CHAR_BIT
      in(pos) == pos - base \in AllOnes
  IN  /\ it = NoIterator
      /\ data' = Store(data, from, word)
      /\ ones' = {pos \in ones : ~in(pos)} \cup
                 {base + place[pos - base] : pos \in {o \in ones : in(o)}}
      /\ UNCHANGED <<it, wanted, found>>

RotateLeft(from, r) ==
  LET place == [b \in AllOnes |-> (b + r) % WordBits]
  IN  Rewrite(from, bit_rotl(Loaded(from, WordBytes), r), place)

RotateRight(from, r) ==
  LET place == [b \in AllOnes |-> (b + WordBits - r) % WordBits]
  IN  Rewrite(from, bit_rotr(Loaded(from, WordBytes), r), place)

SwapBytes(from) ==
  LET place == [b \in AllOnes |->
                 (WordBytes - 1 - b \div CHAR_BIT) * CHAR_BIT + (b % CHAR_BIT)]
  IN  Rewrite(from, bswap(Loaded(from, WordBytes)), place)

BitIteratorInit(size, set) ==
  /\ it = NoIterator
  /\ it' = bit_iterator_init(size, set)
  /\ wanted' = set
  /\ UNCHANGED <<data, ones, found>>

\* bit_iterator_next: to the next word, or to the first one of this.
NextWord ==
  /\ it # NoIterator /\ it.word = {} /\ it.next < it.end
  /\ it' = [it EXCEPT !.word = Toggled(Loaded(it.next, WordBytes), it.xor),
                      !.base = it.next * CHAR_BIT,
                      !.next = @ + WordBytes]
  /\ UNCHANGED <<data, ones, wanted, found>>

NextBit ==
  /\ it.word # {}
  /\ found' = Append(found, it.base + bit_ctz(it.word))
  /\ it' = [it EXCEPT !.word = @ \ {bit_ctz(@)}]
  /\ UNCHANGED <<data, ones, wanted>>

NoMoreBits ==
  /\ it # NoIterator /\ it.word = {} /\ it.next >= it.end
  /\ SIZE_MAX \notin ToSet(found)
  /\ found' = Append(found, SIZE_MAX)
  /\ UNCHANGED <<data, ones, it, wanted>>

BitsNext ==
  \/ \E pos \in 0 .. CHAR_BIT * MaxBytes - 1 : BitSet(pos) \/ BitClear(pos)
  \/ \E from \in 0 .. MaxBytes - WordBytes :
       \/ SwapBytes(from)
       \/ \E r \in 1 .. WordBits - 1 : RotateLeft(from, r) \/ RotateRight(from, r)
  \/ \E size \in 0 .. MaxBytes, set \in BOOLEAN : BitIteratorInit(size, set)
  \/ NextWord \/ NextBit \/ NoMoreBits

BitsSpec == BitsInit /\ [][BitsNext]_bitVars
-----------------------------------------------------------------------------
\* These are the least of the positions, in order and each once.
Leads(seq, positions) ==
  /\ ToSet(seq) \subseteq positions
  /\ \A i, j \in DOMAIN seq : i < j => seq[i] < seq[j]
  /\ \A pos \in positions \ ToSet(seq) : \A i \in DOMAIN seq : seq[i] < pos

(***************************************************************************)
(* Whatever was set, cleared, rotated and swapped before, the iterator     *)
(* returns the positions below its size that have the wanted value, in     *)
(* order and each once, and SIZE_MAX only after all of them, for sizes     *)
(* that are not whole words too; and bit_index agrees with it on a word    *)
(* (bit.h, bit_iterator_next).                                             *)
(***************************************************************************)
IteratorExact ==
  it # NoIterator =>
    LET all == {pos \in 0 .. it.end * CHAR_BIT - 1 : (pos \in ones) = wanted}
        done == SIZE_MAX \in ToSet(found)
        bits == IF done THEN Front(found) ELSE found
        index == bit_index(it.word, it.base)
    IN  /\ Leads(bits, all) /\ (done => ToSet(bits) = all)
        /\ Leads([i \in DOMAIN index |-> index[i] - 1], all \ ToSet(bits))
        /\ Len(index) = bit_count(it.word)
=============================================================================
