---------------------------- MODULE Compression -----------------------------
(***************************************************************************)
(* The two compression functions whose inner loop is not the one of their  *)
(* standard: TrantorSHA1Transform() keeps 16 words of the 80 and renames   *)
(* its variables instead of moving them (crypto/sha1.cc), and              *)
(* trantor_sha3_keccakf() works in place, with tables for the places and   *)
(* the rotations of the lanes (crypto/sha3.cc).  The standard goes along,  *)
(* step by step.  A word is the set of the positions of its ones.          *)
(***************************************************************************)
EXTENDS Integers, SequencesExt, TLC

CONSTANTS
  Buffers,   \* blocks of 64 bytes
  MaxBlocks  \* BOUND on the blocks compressed one after the other

VARIABLES
  sha1,      \* state, block->l, a to e, and the calls of R0() to R4() made
  fips180,   \* the hash, the words and the variables of the standard
  keccak,    \* st and r
  fips202,   \* the lanes of the standard, by x and y
  begun      \* blocks begun

compression == <<sha1, fips180, keccak, fips202, begun>>

Rol(word, n, width) == {(b + n) % width : b \in word}
Xor(x, y) == (x \ y) \cup (y \ x)

\* Modulo 2^32: a carry comes from where both have a one, through places where
\* one has.
Sum(x, y) ==
  LET carry[i \in 0..32] ==
        /\ i > 0
        /\ IF (i - 1 \in x) = (i - 1 \in y) THEN i - 1 \in x ELSE carry[i - 1]
  IN {i \in 0..31 : (i \in Xor(x, y)) # carry[i]}

\* Bytes in memory, from their first, and the words a host takes them for.
Ones(byte) == {k \in 0..7 : (byte \div 2^k) % 2 = 1}
Word(bytes, i, width, little) ==
  UNION {{k + 8 * (IF little THEN j ELSE width - 1 - j) : k \in Ones(bytes[i * width + j + 1])} :
            j \in 0..(width - 1)}

-----------------------------------------------------------------------------
(* SHA-1 *)

H0 ==
  [k \in 0..4 |->
    << {0, 8, 9, 13, 16, 18, 22, 24, 25, 26, 29, 30},
       {0, 3, 7, 8, 9, 11, 13, 15, 16, 18, 19, 22, 23, 24, 25, 26, 27, 29, 30, 31},
       {1, 2, 3, 4, 5, 6, 7, 10, 11, 12, 14, 15, 17, 19, 20, 21, 23, 27, 28, 31},
       {1, 2, 4, 5, 6, 10, 12, 14, 17, 20, 21, 28},
       {4, 5, 6, 7, 8, 13, 14, 15, 17, 20, 22, 23, 24, 25, 30, 31} >>[k + 1]]

\* The constants of the four groups of 20 steps, 5A827999 to CA62C1D6.
Added(i) ==
  << {0, 3, 4, 7, 8, 11, 12, 13, 14, 17, 23, 25, 27, 28, 30},
     {0, 5, 7, 8, 9, 11, 13, 14, 15, 16, 19, 20, 22, 23, 25, 26, 27, 29, 30},
     {2, 3, 4, 6, 7, 10, 11, 12, 13, 15, 16, 17, 19, 20, 24, 25, 26, 27, 31},
     {1, 2, 4, 6, 7, 8, 14, 15, 17, 21, 22, 25, 27, 30, 31} >>[1 + i \div 20]

\* Swaps the bytes of a word on a host that keeps the low one first.
blk0(word, little) ==
  LET Low(x) == x % 16 < 8 IN
  IF little THEN {x \in Rol(word, 24, 32) : ~Low(x)} \cup {x \in Rol(word, 8, 32) : Low(x)}
  ELSE word

Mix(l, places) == Rol(FoldLeft(LAMBDA x, p : Xor(x, l[p % 16]), {}, places), 1, 32)

blkLate(l, i) == Mix(l, <<i + 12, i + 8, i + 2, i>>)

\* The word of step i takes the place of the one 16 steps before.
blk(l, i) == Mix(l, <<i + 13, i + 8, i + 2, i>>)

\* R0() to R4() with the variables of the i-th call: a to e, one further back
\* each time.
R(s, i) ==
  LET At(k) == (k - i) % 5
      l == [s.l EXCEPT ![i % 16] = IF i < 16 THEN blk0(@, s.little) ELSE blk(s.l, i)]
      w == s.v[At(1)]  x == s.v[At(2)]  y == s.v[At(3)]
      mix == IF i < 20 THEN Xor(w \cap Xor(x, y), y)
             ELSE IF i \in 40..59 THEN ((w \cup x) \cap y) \cup (w \cap x)
             ELSE Xor(Xor(w, x), y)
      z == Sum(Sum(Sum(Sum(s.v[At(4)], mix), l[i % 16]), Added(i)), Rol(s.v[At(0)], 5, 32))
  IN [s EXCEPT !.l = l, !.v[At(4)] = z, !.v[At(1)] = Rol(@, 30, 32), !.i = i + 1]

-----------------------------------------------------------------------------
(* Keccak-f *)

keccakf_rndc ==
  << {0}, {1, 7, 15}, {1, 3, 7, 15, 63}, {15, 31, 63}, {0, 1, 3, 7, 15}, {0, 31},
     {0, 7, 15, 31, 63}, {0, 3, 15, 63}, {1, 3, 7}, {3, 7}, {0, 3, 15, 31}, {1, 3, 31},
     {0, 1, 3, 7, 15, 31}, {0, 1, 3, 7, 63}, {0, 3, 7, 15, 63}, {0, 1, 15, 63}, {1, 15, 63},
     {7, 63}, {1, 3, 15}, {1, 3, 31, 63}, {0, 7, 15, 31, 63}, {7, 15, 63}, {0, 31},
     {3, 15, 31, 63} >>

keccakf_rotc ==
  <<1, 3, 6, 10, 15, 21, 28, 36, 45, 55, 2, 14, 27, 41, 56, 8, 25, 43, 62, 18, 39, 61, 20, 44>>

keccakf_piln ==
  <<10, 7, 11, 17, 18, 3, 5, 16, 8, 21, 24, 4, 15, 23, 19, 13, 12, 2, 20, 14, 22, 9, 6, 1>>

Theta(st) ==
  LET bc == [i \in 0..4 |-> FoldLeft(Xor, st[i], [k \in 1..4 |-> st[i + 5 * k]])]
  IN [j \in 0..24 |-> Xor(st[j], Xor(bc[(j + 4) % 5], Rol(bc[(j + 1) % 5], 1, 64)))]

\* Each lane goes to the next of the places of the table; bc[0] keeps the one
\* that is there.
RhoPi(st) ==
  FoldLeft(LAMBDA s, i : [st |-> [s.st EXCEPT ![keccakf_piln[i]] = Rol(s.t, keccakf_rotc[i], 64)],
                          t |-> s.st[keccakf_piln[i]]],
           [st |-> st, t |-> st[1]], [i \in 1..24 |-> i]).st

Chi(st) ==
  [j \in 0..24 |-> LET row == 5 * (j \div 5) IN
     Xor(st[j], st[row + ((j + 2) % 5)] \ st[row + ((j + 1) % 5)])]

\* One turn of the loop of trantor_sha3_keccakf().
Turn(st, r) == [Chi(RhoPi(Theta(st))) EXCEPT ![0] = Xor(@, keccakf_rndc[r + 1])]

-----------------------------------------------------------------------------
(* The standards: FIPS 180 for SHA-1. *)

Expanded(W, buffer, t) ==
  IF t < 16 THEN Word(buffer, t, 4, FALSE)
  ELSE Rol(Xor(Xor(W[t - 3], W[t - 8]), Xor(W[t - 14], W[t - 16])), 1, 32)

Chosen(t, b, c, d) ==
  CASE t < 20 -> (b \cap c) \cup (d \ b)
    [] t \in 40..59 -> (b \cap c) \cup (b \cap d) \cup (c \cap d)
    [] OTHER -> Xor(b, Xor(c, d))

\* A step on a to e: all of them move on.
Moved(s, word, t) ==
  << Sum(Sum(Rol(s[1], 5, 32), Chosen(t, s[2], s[3], s[4])), Sum(s[5], Sum(Added(t), word))),
     s[1], Rol(s[2], 30, 32), s[3], s[4] >>

-----------------------------------------------------------------------------
(* FIPS 202 for Keccak-f *)

Places == (0..4) \X (0..4)

Steps(n) == [i \in 1..n |-> i]

\* The register of 8 bits from which the bits of the constants come.
Shifted(register, i) ==
  LET up == {b + 1 : b \in register}
  IN (IF 8 \in up THEN Xor(up, {0, 4, 5, 6}) ELSE up) \ {8}

RoundConstant(r) ==
  LET start == FoldLeft(LAMBDA reg, i : FoldLeft(Shifted, reg, Steps(7)), {0}, Steps(r))
  IN {2^j - 1 : j \in {k \in 0..6 : 0 \in FoldLeft(Shifted, start, Steps(k))}}

\* Rotations: that of the t-th place on the walk from (1, 0) to (y, 2x + 3y) is
\* the sum of the numbers up to t.
Offset ==
  LET Walk(s, t) ==
        [x |-> s.y, y |-> (2 * s.x + 3 * s.y) % 5,
         of |-> [s.of EXCEPT ![s.x, s.y] = ((t * (t + 1)) \div 2) % 64]]
  IN FoldLeft(Walk, [x |-> 1, y |-> 0, of |-> [p \in Places |-> 0]], Steps(24)).of

Round(A, r) ==
  LET column == [x \in 0..4 |-> FoldLeft(LAMBDA c, y : Xor(c, A[x, y]), {}, <<0, 1, 2, 3, 4>>)]
      theta == [p \in Places |->
                  Xor(A[p], Xor(column[(p[1] + 4) % 5], Rol(column[(p[1] + 1) % 5], 1, 64)))]
      rho == [p \in Places |-> Rol(theta[p], Offset[p], 64)]
      pi == [p \in Places |-> rho[(p[1] + 3 * p[2]) % 5, p[1]]]
      chi == [p \in Places |-> Xor(pi[p], pi[(p[1] + 2) % 5, p[2]] \ pi[(p[1] + 1) % 5, p[2]])]
  IN [chi EXCEPT ![0, 0] = Xor(@, RoundConstant(r))]

-----------------------------------------------------------------------------
NoWords == [t \in {} |-> {}]

Init ==
  /\ sha1 = [little |-> TRUE, state |-> H0, l |-> NoWords, v |-> H0, i |-> 81]
  /\ fips180 = [buffer |-> <<>>, H |-> H0, W |-> NoWords, s |-> <<>>]
  /\ keccak = [st |-> [j \in 0..24 |-> {}], r |-> 24]
  /\ fips202 = [p \in Places |-> {}]
  /\ begun = 0

Begin == begun < MaxBlocks /\ sha1.i = 81 /\ keccak.r = 24 /\ begun' = begun + 1

TrantorSHA1Transform(little, buffer) ==
  /\ Begin
  /\ sha1' = [sha1 EXCEPT !.little = little, !.v = sha1.state, !.i = 0,
                          !.l = [i \in 0..15 |-> Word(buffer, i, 4, little)]]
  /\ fips180' = [fips180 EXCEPT !.buffer = buffer, !.W = NoWords,
                                !.s = [k \in 1..5 |-> fips180.H[k - 1]]]
  /\ UNCHANGED <<keccak, fips202>>

Step ==
  /\ sha1.i < 80
  /\ sha1' = R(sha1, sha1.i)
  /\ LET word == Expanded(fips180.W, fips180.buffer, sha1.i) IN
     fips180' = [fips180 EXCEPT !.W = (sha1.i :> word) @@ @, !.s = Moved(@, word, sha1.i)]
  /\ UNCHANGED <<keccak, fips202, begun>>

AddBack ==
  /\ sha1.i = 80
  /\ sha1' = [sha1 EXCEPT !.i = 81, !.state = [k \in 0..4 |-> Sum(@[k], sha1.v[k])]]
  /\ fips180' = [fips180 EXCEPT !.H = [k \in 0..4 |-> Sum(@[k], fips180.s[k + 1])]]
  /\ UNCHANGED <<keccak, fips202, begun>>

\* The bytes of the block, twice and a bit, are the 136 that SHA3-256 xors to the
\* 200 of the state.  A host of the other byte order takes them for the same.
trantor_sha3_keccakf(buffer) ==
  LET Into(j) == IF j < 17 THEN Word(buffer, j % 8, 8, TRUE) ELSE {} IN
  /\ Begin
  /\ keccak' = [st |-> [j \in 0..24 |-> Xor(keccak.st[j], Into(j))], r |-> 0]
  /\ fips202' = [p \in Places |-> Xor(fips202[p], Into(p[1] + 5 * p[2]))]
  /\ UNCHANGED <<sha1, fips180>>

KeccakRound ==
  /\ keccak.r < 24
  /\ keccak' = [st |-> Turn(keccak.st, keccak.r), r |-> keccak.r + 1]
  /\ fips202' = Round(fips202, keccak.r)
  /\ UNCHANGED <<sha1, fips180, begun>>

Next ==
  \/ \E little \in BOOLEAN, buffer \in Buffers : TrantorSHA1Transform(little, buffer)
  \/ \E buffer \in Buffers : trantor_sha3_keccakf(buffer)
  \/ Step \/ AddBack \/ KeccakRound

\* Whatever is kept, renamed and moved in place, is at every step what the
\* standard has: the variables, the last 16 words, and the lanes.
AsStandardised ==
  /\ sha1.state = fips180.H
  /\ sha1.i <= 80 =>
       /\ \A k \in 0..4 : sha1.v[(k - sha1.i) % 5] = fips180.s[k + 1]
       /\ \A t \in DOMAIN fips180.W : t >= sha1.i - 16 => sha1.l[t % 16] = fips180.W[t]
  /\ \A p \in Places : keccak.st[p[1] + 5 * p[2]] = fips202[p]
=============================================================================
