-------------------------------- MODULE Random --------------------------------
(***************************************************************************)
(* The pseudo-random numbers of the solver (lib/core/random.c and          *)
(* random_utils.c) with words of W bits instead of 64: splitmix seeds the  *)
(* generator, xoshiro draws words, a masked word that exceeds the range is *)
(* drawn again, and random_subset draws from shrinking ranges.             *)
(* Multiplying by a constant of splitmix keeps words apart, as it is odd;  *)
(* the shifts are brought into 1 .. W - 1.                                 *)
(***************************************************************************)
EXTENDS Integers, Bitwise, SequencesExt

CONSTANTS
  W,          \* bits of a word
  Gamma,      \* what splitmix adds to its counter
  Mul1, Mul2, \* what it multiplies by
  MaxSample   \* bound on the arrays that are sampled

ASSUME RandomAssumption ==
  /\ W \in Nat /\ W > 1 /\ MaxSample \in Nat
  /\ \A c \in {Gamma, Mul1, Mul2} : c \in 0 .. 2 ^ W - 1 /\ c % 2 = 1

VARIABLES
  state,   \* the four words of the generator
  range,   \* min and max of the request that is served and its generator, or <<>>
  result,  \* what the last request returned, with its range; <<>> while there is none
  sample   \* the draws of random_subset and the array it leaves, or <<>>

randomVars == <<state, range, result, sample>>

SignedWords == -(2 ^ (W - 1)) .. 2 ^ (W - 1) - 1
ToSigned(x) == IF x < 2 ^ (W - 1) THEN x ELSE x - 2 ^ W
Plus(x, y) == (x + y) % 2 ^ W
Times(x, y) == (x * y) % 2 ^ W
By(k) == 1 + (k % (W - 1))
Left(x, k) == (x * 2 ^ By(k)) % 2 ^ W
Right(x, k) == x \div 2 ^ By(k)
rotl(x, k) == Left(x, k) + x \div 2 ^ (W - By(k))

\* splitmix64_next, for the counter x after it was advanced.
splitmix_next(x) ==
  LET a == Times(x ^^ Right(x, 30), Mul1)
      b == Times(a ^^ Right(a, 27), Mul2)
  IN  b ^^ Right(b, 31)

\* Mutant: the counter does not advance from one word to the next.
SeedSameWord(seed) == [i \in 1 .. 4 |-> splitmix_next(Plus(seed, Gamma))]

pseudo_random_seed(seed) == [i \in 1 .. 4 |-> splitmix_next(Plus(seed, i * Gamma))]

\* xoshiro_random: what it returns and the state it leaves.
xoshiro_result(s) == Plus(rotl(Plus(s[1], s[4]), 23), s[1])

xoshiro_state(s) ==
  LET c == s[3] ^^ s[1]
      d == s[4] ^^ s[2]
  IN  <<s[1] ^^ d, s[2] ^^ c, c ^^ Left(s[2], 17), rotl(d, 45)>>

Span(r) == (r[2] - r[1]) % 2 ^ W

\* bit_clz_u64, of a word that is not 0.
bit_clz(x) == W - Cardinality({k \in 0 .. W - 1 : x >= 2 ^ k})

\* Mutant: one bit less than the span has.
MaskShort(r) == (2 ^ W - 1) \div 2 ^ (bit_clz(Span(r) | 1) + 1)

Mask(r) == (2 ^ W - 1) \div 2 ^ bit_clz(Span(r) | 1)
-----------------------------------------------------------------------------
Seeded == {pseudo_random_seed(seed) : seed \in 0 .. 2 ^ W - 1}

RandomInit ==
  /\ state \in Seeded
  /\ range = <<>> /\ result = <<>> /\ sample = <<>>

\* pseudo_random_in_range is called, with max >= min as it asserts.
Request(min, max) ==
  /\ range = <<>> /\ result = <<>> /\ sample = <<>> /\ max >= min
  /\ range' = <<min, max, "pseudo">>
  /\ UNCHANGED <<state, result, sample>>

\* real_random_in_range, which leaves state alone: it is enough to try it from the seeds.
RealRequest(min, max) ==
  /\ range = <<>> /\ result = <<>> /\ sample = <<>> /\ max >= min /\ state \in Seeded
  /\ range' = <<min, max, "real">>
  /\ UNCHANGED <<state, result, sample>>

\* One round of the loop: a word is masked, and taken unless it exceeds the span.
Taken(word) ==
  LET drawn == word & Mask(range)
  IN  IF drawn > Span(range)
      THEN UNCHANGED <<range, result>>
      ELSE /\ result' = <<ToSigned(Plus(range[1], drawn)), range>>
           /\ range' = <<>>

Draw ==
  /\ range # <<>> /\ range[3] = "pseudo"
  /\ Taken(xoshiro_result(state)) /\ state' = xoshiro_state(state)
  /\ UNCHANGED sample

\* random_bytes: what the device or rand() gives may be any word.
RealDraw ==
  /\ range # <<>> /\ range[3] = "real"
  /\ \E word \in 0 .. 2 ^ W - 1 : Taken(word)
  /\ UNCHANGED <<state, sample>>

(***************************************************************************)
(* random_subset for an array of n elements, of which the first k are      *)
(* drawn: element i changes places with one from i on.                     *)
(***************************************************************************)
\* Mutant: an element may change places with one that is already drawn.
SubsetDrawsAny(n, k) == [0 .. k - 1 -> 0 .. n - 1]

SubsetDraws(n, k) == {js \in [0 .. k - 1 -> 0 .. n - 1] : \A i \in 0 .. k - 1 : js[i] >= i}

random_subset(n, k, js) ==
  LET swap(a, i) == [a EXCEPT ![i] = a[js[i]], ![js[i]] = a[i]]
  IN  FoldLeft(swap, [i \in 0 .. n - 1 |-> i], [i \in 1 .. k |-> i - 1])

\* From the seeds, as it does not depend on state; random_shuffle takes k = n - 1.
Subset(n, k) ==
  /\ range = <<>> /\ result = <<>> /\ sample = <<>> /\ state \in Seeded
  /\ \E js \in SubsetDraws(n, k) :
       sample' = [n |-> n, k |-> k, draws |-> js, of |-> random_subset(n, k, js)]
  /\ UNCHANGED <<state, range, result>>

\* The caller has used what a request returned.
Used ==
  /\ result # <<>> /\ result' = <<>>
  /\ UNCHANGED <<state, range, sample>>

RandomNext ==
  \/ \E min, max \in SignedWords : Request(min, max) \/ RealRequest(min, max)
  \/ Draw \/ RealDraw \/ Used
  \/ \E n \in 1 .. MaxSample : \E k \in 0 .. n : Subset(n, k)
-----------------------------------------------------------------------------
(***************************************************************************)
(* A request returns a number of its range, ranges that overflow a signed  *)
(* word included; at least half of the masked words are in range; no seed  *)
(* leads to the state 0, in which every draw would be 0; and different     *)
(* draws of random_subset leave different samples, so that fair draws make *)
(* them equally likely (random.c: "preserving uniform distribution").      *)
(***************************************************************************)
InRange ==
  /\ result # <<>> => result[1] \in result[2][1] .. result[2][2]
  /\ range # <<>> => Span(range) <= Mask(range) /\ Mask(range) <= 2 * Span(range) + 1

NeverZero == state # <<0, 0, 0, 0>>

SamplesApart ==
  sample # <<>> =>
    \A js \in SubsetDraws(sample.n, sample.k) :
      (\A i \in 0 .. sample.k - 1 :
         random_subset(sample.n, sample.k, js)[i] = sample.of[i]) => js = sample.draws

DrawsFair == InRange /\ NeverZero /\ SamplesApart
=============================================================================
