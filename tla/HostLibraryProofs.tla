--------------------------- MODULE HostLibraryProofs ---------------------------
(***************************************************************************)
(* Proofs about the Gen2 part of HostLibrary, for any commands of an       *)
(* application, any values of their arguments, any number of slots and any *)
(* size of the transmit buffer; and about its calibration, for any parts.  *)
(*                                                                         *)
(* First the codec: the pieces that an encoder packs lie one after the     *)
(* other in the bits, and a decoder, whose steps answer the encoder's one  *)
(* by one, stands before each of them in turn.  The functions that shift,  *)
(* add up and lay out are recursive: each exists by induction, and is the  *)
(* one the module chooses.  Then the list and the chip's copy of it:       *)
(* Gen2Inv is inductive, and says of every slot what was meant for it.     *)
(* Then the answers of tags.                                               *)
(*                                                                         *)
(* Of the calibration: a table is interpolated between its points and is   *)
(* exact at them; CalibrationInv says which calibration is in use and that *)
(* the analog offsets were taken from it; so an RSSI comes back as it was  *)
(* measured, and the attenuator chosen is the nearest.                     *)
(***************************************************************************)
EXTENDS HostLibrary, WellFoundedInduction, SequenceTheorems, TLAPS

Bits == Seq({0, 1})

(* The least of some numbers, and induction for a set of numbers. *)
LEMMA LeastNumber ==
    ASSUME NEW S \in SUBSET Nat, S # {}
    PROVE  \E n \in S : \A m \in S : n <= m
<1>1. PICK n \in S : \A m \in S : <<m, n>> \notin OpToRel(<, Nat)
  BY NatLessThanWellFounded, WFMin
<1>2. \A m \in S : ~(m < n)
  BY <1>1 DEF OpToRel
<1>3. QED
  BY <1>2

(* Induction on numbers, for a set of them. *)
LEMMA NumbersFollow ==
    ASSUME NEW S, 0 \in S, \A n \in Nat : n \in S => n + 1 \in S
    PROVE  \A n \in Nat : n \in S
<1> DEFINE Rest == {n \in Nat : n \notin S}
<1>1. SUFFICES ASSUME Rest # {} PROVE FALSE
  OBVIOUS
<1>2. PICK n \in Rest : \A m \in Rest : n <= m
  <2>1. Rest \in SUBSET Nat
    OBVIOUS
  <2> HIDE DEF Rest
  <2>2. QED
    BY <1>1, <2>1, LeastNumber
<1>3. n \in Nat /\ n \notin S /\ n # 0
  OBVIOUS
<1>4. n - 1 \in Nat /\ ~(n <= n - 1) /\ (n - 1) + 1 = n
  BY <1>3
<1>5. n - 1 \notin Rest
  BY <1>2, <1>4
<1>6. QED
  BY <1>3, <1>4, <1>5

-----------------------------------------------------------------------------
(* A recursion over 0 .. m whose step keeps to a set has a solution there. *)
Solves(f, first, Turn, m) ==
    f = [i \in 0 .. m |-> IF i = 0 THEN first ELSE Turn[<<i, f[i - 1]>>]]

(* A function that solves a recursion up to m is continued to m + 1. *)
LEMMA SolutionGoesOn ==
    ASSUME NEW first, NEW Turn, NEW m \in Nat, NEW f, Solves(f, first, Turn, m)
    PROVE  \E g : Solves(g, first, Turn, m + 1)
<1> DEFINE g == [i \in 0 .. m + 1 |-> IF i = m + 1 THEN Turn[<<i, f[m]>>] ELSE f[i]]
<1>1. ASSUME NEW i \in 0 .. m + 1
      PROVE  g[i] = IF i = 0 THEN first ELSE Turn[<<i, g[i - 1]>>]
  <2>1. CASE i = m + 1
    <3>1. i - 1 = m /\ m \in 0 .. m + 1 /\ m # m + 1 /\ i # 0
      BY <2>1
    <3>2. g[i] = Turn[<<i, f[m]>>] /\ g[m] = f[m]
      BY <2>1, <3>1
    <3> HIDE DEF g
    <3>3. QED
      BY <3>1, <3>2
  <2>2. CASE i # m + 1
    <3>1. i \in 0 .. m /\ (i # 0 => i - 1 \in 0 .. m + 1 /\ i - 1 # m + 1)
      BY <2>2
    <3>2. g[i] = f[i] /\ (i # 0 => g[i - 1] = f[i - 1])
      BY <2>2, <3>1
    <3> HIDE DEF g
    <3>3. f[i] = IF i = 0 THEN first ELSE Turn[<<i, f[i - 1]>>]
      BY <3>1 DEF Solves
    <3>4. QED
      BY <3>2, <3>3
  <2>3. QED
    BY <2>1, <2>2
<1>2. g = [i \in 0 .. m + 1 |-> g[i]]
  OBVIOUS
<1> HIDE DEF g
<1>3. Solves(g, first, Turn, m + 1)
  BY <1>1, <1>2 DEF Solves
<1>4. QED
  BY <1>3

(* A recursion on numbers has a solution, as far as wanted. *)
LEMMA SolutionExists ==
    ASSUME NEW S, NEW first \in S, NEW m \in Nat, NEW Turn,
           \A n \in 1 .. m, x \in S : Turn[<<n, x>>] \in S
    PROVE  \E f : Solves(f, first, Turn, m) /\ \A i \in 0 .. m : f[i] \in S
<1> DEFINE Sizes == {k \in Nat : \E f : Solves(f, first, Turn, k)}
<1>1. 0 \in Sizes
  <2> DEFINE f == [i \in 0 .. 0 |-> first]
  <2>1. \A i \in 0 .. 0 : i = 0
    OBVIOUS
  <2>2. f = [i \in 0 .. 0 |-> IF i = 0 THEN first ELSE Turn[<<i, f[i - 1]>>]]
    BY <2>1
  <2> HIDE DEF f
  <2>3. Solves(f, first, Turn, 0)
    BY <2>2 DEF Solves
  <2>4. QED
    BY <2>3
<1>2. ASSUME NEW k \in Nat, k \in Sizes PROVE k + 1 \in Sizes
  <2>1. \E g : Solves(g, first, Turn, k + 1)
    BY <1>2, SolutionGoesOn
  <2>2. QED
    BY <2>1
<1> HIDE DEF Sizes
<1>3. \A k \in Nat : k \in Sizes
  BY <1>1, <1>2, NumbersFollow
<1>4. PICK f : Solves(f, first, Turn, m)
  BY <1>3 DEF Sizes
<1> DEFINE Kept == {i \in Nat : i \in 0 .. m => f[i] \in S}
<1>5. \A i \in 0 .. m : f[i] = IF i = 0 THEN first ELSE Turn[<<i, f[i - 1]>>]
  BY <1>4 DEF Solves
<1>6. 0 \in Kept
  BY <1>5
<1>7. ASSUME NEW i \in Nat, i \in Kept PROVE i + 1 \in Kept
  <2>1. SUFFICES ASSUME i + 1 \in 0 .. m PROVE f[i + 1] \in S
    OBVIOUS
  <2> DEFINE j == i + 1
  <2>2. j \in 0 .. m /\ j # 0 /\ j - 1 = i /\ i \in 0 .. m /\ j \in 1 .. m
    BY <2>1
  <2> HIDE DEF j
  <2>3. f[j] = Turn[<<j, f[i]>>]
    BY <1>5, <2>2
  <2>4. f[i] \in S
    BY <1>7, <2>2
  <2>5. f[j] \in S
    BY <2>2, <2>3, <2>4
  <2>6. QED
    BY <2>5 DEF j
<1> HIDE DEF Kept
<1>8. \A i \in Nat : i \in Kept
  BY <1>6, <1>7, NumbersFollow
<1>9. QED
  BY <1>4, <1>8 DEF Kept

-----------------------------------------------------------------------------
(* value >> count. *)
Halves(value, f, m) == f = [n \in 0 .. m |-> IF n = 0 THEN value ELSE f[n - 1] \div 2]

(* So there is the function that Shifted() chooses, of numbers. *)
LEMMA HalvesExist ==
    ASSUME NEW value \in Nat, NEW m \in Nat
    PROVE  \E f : Halves(value, f, m) /\ \A n \in 0 .. m : f[n] \in Nat
<1> DEFINE Turn == [p \in (1 .. m) \X Nat |-> p[2] \div 2]
<1>1. \A n \in 1 .. m, x \in Nat : Turn[<<n, x>>] = x \div 2 /\ Turn[<<n, x>>] \in Nat
  OBVIOUS
<1> HIDE DEF Turn
<1>2. PICK f : Solves(f, value, Turn, m) /\ \A i \in 0 .. m : f[i] \in Nat
  BY <1>1, SolutionExists
<1>3. \A n \in 0 .. m : n # 0 => n \in 1 .. m /\ n - 1 \in 0 .. m
  OBVIOUS
<1>4. \A n \in 0 .. m : n # 0 => Turn[<<n, f[n - 1]>>] = f[n - 1] \div 2
  BY <1>1, <1>2, <1>3
<1>5. Halves(value, f, m)
  BY <1>2, <1>4 DEF Solves, Halves
<1>6. QED
  BY <1>2, <1>5

(* Whatever halves a value count times gives what is shifted out. *)
LEMMA ShiftedIs ==
    ASSUME NEW value \in Nat, NEW count \in Nat, NEW g, g[0] = value,
           \A n \in Nat : n < count => g[n + 1] = g[n] \div 2
    PROVE  G!Shifted(value, count) = g[count]
<1> DEFINE f == CHOOSE f : Halves(value, f, count)
           S == {n \in Nat : n <= count => f[n] = g[n]}
<1>1. Halves(value, f, count)
  BY HalvesExist
<1>2. G!Shifted(value, count) = f[count]
  BY DEF G!Shifted, Halves
<1> HIDE DEF f
<1>3. \A n \in 0 .. count : f[n] = IF n = 0 THEN value ELSE f[n - 1] \div 2
  BY <1>1 DEF Halves
<1>4. 0 \in S
  BY <1>3
<1>5. ASSUME NEW n \in Nat, n \in S PROVE n + 1 \in S
  <2>1. SUFFICES ASSUME n + 1 <= count PROVE f[n + 1] = g[n + 1]
    OBVIOUS
  <2> DEFINE j == n + 1
  <2>2. j \in 0 .. count /\ j # 0 /\ j - 1 = n /\ n < count
    BY <2>1
  <2>3. g[n + 1] = g[n] \div 2 /\ f[n] = g[n]
    BY <1>5, <2>2
  <2> HIDE DEF j
  <2>4. f[j] = f[n] \div 2
    BY <1>3, <2>2
  <2>5. QED
    BY <2>3, <2>4 DEF j
<1> HIDE DEF S
<1>6. \A n \in Nat : n \in S
  BY <1>4, <1>5, NumbersFollow
<1>7. QED
  BY <1>2, <1>6 DEF S

(* One shift more halves what was left. *)
LEMMA ShiftSteps ==
    ASSUME NEW value \in Nat
    PROVE  /\ G!Shifted(value, 0) = value
           /\ \A n \in Nat : /\ G!Shifted(value, n) \in Nat
                             /\ G!Shifted(value, n + 1) = G!Shifted(value, n) \div 2
<1>1. G!Shifted(value, 0) = value
  <2> DEFINE g == [n \in {0} |-> value]
  <2>1. g[0] = value /\ \A n \in Nat : ~(n < 0)
    OBVIOUS
  <2> HIDE DEF g
  <2>2. QED
    BY <2>1, ShiftedIs
<1>2. ASSUME NEW n \in Nat
      PROVE  /\ G!Shifted(value, n) \in Nat
             /\ G!Shifted(value, n + 1) = G!Shifted(value, n) \div 2
  <2> DEFINE m == n + 1
  <2>1. m \in Nat /\ n \in 0 .. m /\ m \in 0 .. m /\ m # 0 /\ m - 1 = n
    OBVIOUS
  <2>2. PICK f : Halves(value, f, m) /\ \A i \in 0 .. m : f[i] \in Nat
    BY <2>1, HalvesExist
  <2>3. f[0] = value
    BY <2>1, <2>2 DEF Halves
  <2>4. ASSUME NEW i \in Nat, i < m PROVE f[i + 1] = f[i] \div 2
    <3> DEFINE j == i + 1
    <3>1. j \in 0 .. m /\ j # 0 /\ j - 1 = i
      BY <2>1, <2>4
    <3> HIDE DEF j
    <3>2. f[j] = f[i] \div 2
      BY <2>2, <3>1 DEF Halves
    <3>3. QED
      BY <3>2 DEF j
  <2>5. \A i \in Nat : i < n => i < m
    OBVIOUS
  <2> HIDE DEF m
  <2>6. G!Shifted(value, m) = f[m]
    BY <2>1, <2>3, <2>4, ShiftedIs
  <2>7. G!Shifted(value, n) = f[n]
    BY <2>3, <2>4, <2>5, ShiftedIs
  <2>8. f[m] = f[n] \div 2
    BY <2>1, <2>2 DEF Halves
  <2>9. QED
    BY <2>1, <2>2, <2>6, <2>7, <2>8 DEF m
<1>3. QED
  BY <1>1, <1>2

(* The value of bits. *)
Sums(bits, f) ==
    f = [n \in 0 .. Len(bits) |-> IF n = 0 THEN 0 ELSE 2 * f[n - 1] + bits[n]]

(* There is the function that ValueOf() chooses. *)
LEMMA SumsExist == ASSUME NEW bits \in Bits PROVE \E f : Sums(bits, f)
<1> DEFINE m == Len(bits)
           Turn == [p \in (1 .. m) \X Nat |-> 2 * p[2] + bits[p[1]]]
<1>1. m \in Nat /\ \A n \in 1 .. m : bits[n] \in {0, 1}
  BY LenProperties, ElementOfSeq DEF Bits
<1> HIDE DEF m
<1>2. \A n \in 1 .. m, x \in Nat : Turn[<<n, x>>] = 2 * x + bits[n] /\ Turn[<<n, x>>] \in Nat
  BY <1>1
<1> HIDE DEF Turn
<1>3. PICK f : Solves(f, 0, Turn, m) /\ \A i \in 0 .. m : f[i] \in Nat
  BY <1>1, <1>2, SolutionExists
<1>4. \A n \in 0 .. m : n # 0 => n \in 1 .. m /\ n - 1 \in 0 .. m
  BY <1>1
<1>5. \A n \in 0 .. m : n # 0 => Turn[<<n, f[n - 1]>>] = 2 * f[n - 1] + bits[n]
  BY <1>2, <1>3, <1>4
<1>6. Sums(bits, f)
  BY <1>3, <1>5 DEF Solves, Sums, m
<1>7. QED
  BY <1>6

(* Whatever adds up the bits from the first gives their value. *)
LEMMA ValueIs ==
    ASSUME NEW bits \in Bits, NEW g, g[0] = 0,
           \A n \in 1 .. Len(bits) : g[n] = 2 * g[n - 1] + bits[n]
    PROVE  G!ValueOf(bits) = g[Len(bits)]
<1> DEFINE f == CHOOSE f : Sums(bits, f)
           m == Len(bits)
           S == {n \in Nat : n <= m => f[n] = g[n]}
<1>1. Sums(bits, f)
  BY SumsExist
<1>2. G!ValueOf(bits) = f[Len(bits)]
  BY DEF G!ValueOf, Sums
<1>3. Len(bits) \in Nat
  BY LenProperties DEF Bits
<1> HIDE DEF f
<1>4. \A n \in 0 .. Len(bits) : f[n] = IF n = 0 THEN 0 ELSE 2 * f[n - 1] + bits[n]
  BY <1>1 DEF Sums
<1>5. 0 \in S
  BY <1>3, <1>4
<1>6. ASSUME NEW n \in Nat, n \in S PROVE n + 1 \in S
  <2>1. SUFFICES ASSUME n + 1 <= m PROVE f[n + 1] = g[n + 1]
    OBVIOUS
  <2> DEFINE j == n + 1
  <2>2. j \in 1 .. m /\ j \in 0 .. m /\ j # 0 /\ j - 1 = n /\ n <= m
    BY <1>3, <2>1
  <2>3. f[n] = g[n]
    BY <1>6, <2>2
  <2> HIDE DEF j
  <2>4. f[j] = 2 * f[n] + bits[j] /\ g[j] = 2 * g[n] + bits[j]
    BY <1>4, <2>2
  <2>5. QED
    BY <2>3, <2>4 DEF j
<1> HIDE DEF S
<1>7. \A n \in Nat : n \in S
  BY <1>5, <1>6, NumbersFollow
<1>8. QED
  BY <1>2, <1>3, <1>7 DEF S

(* A value that fits has its bits, and its bits have that value. *)
LEMMA BitsAreBits ==
    ASSUME NEW value \in Nat, NEW count \in Nat
    PROVE  G!BitsOf(value, count) \in Bits /\ Len(G!BitsOf(value, count)) = count
<1>1. \A i \in 1 .. count : count - i \in Nat
  OBVIOUS
<1>2. \A i \in 1 .. count : G!Shifted(value, count - i) % 2 \in {0, 1}
  <2>1. \A x \in Nat : x % 2 \in {0, 1}
    OBVIOUS
  <2>2. QED
    BY <1>1, <2>1, ShiftSteps
<1>3. QED
  BY <1>2 DEF G!BitsOf, Bits

(* The bits of a number that fits have its value. *)
LEMMA ValueOfBits ==
    ASSUME NEW value \in Nat, NEW count \in Nat, G!Shifted(value, count) = 0
    PROVE  G!ValueOf(G!BitsOf(value, count)) = value
<1> DEFINE bits == G!BitsOf(value, count)
           g == [n \in 0 .. count |-> G!Shifted(value, count - n)]
<1>1. bits \in Bits /\ Len(bits) = count
  BY BitsAreBits
<1>2. g[0] = 0 /\ g[count] = value
  <2>1. count - 0 = count /\ count - count = 0 /\ 0 \in 0 .. count /\ count \in 0 .. count
    OBVIOUS
  <2>2. QED
    BY <2>1, ShiftSteps
<1>3. ASSUME NEW n \in 1 .. count PROVE g[n] = 2 * g[n - 1] + bits[n]
  <2> DEFINE k == count - n
  <2>1. k \in Nat /\ count - (n - 1) = k + 1 /\ n \in 0 .. count /\ n - 1 \in 0 .. count
    OBVIOUS
  <2>2. g[n] = G!Shifted(value, k) /\ g[n - 1] = G!Shifted(value, k + 1)
    BY <2>1
  <2>3. bits[n] = G!Shifted(value, k) % 2
    BY DEF G!BitsOf
  <2> HIDE DEF k, bits, g
  <2>4. G!Shifted(value, k) \in Nat /\ G!Shifted(value, k + 1) = G!Shifted(value, k) \div 2
    BY <2>1, ShiftSteps
  <2>5. \A x \in Nat : x = 2 * (x \div 2) + (x % 2)
    OBVIOUS
  <2>6. QED
    BY <2>2, <2>3, <2>4, <2>5
<1> HIDE DEF bits, g
<1>4. QED
  BY <1>1, <1>2, <1>3, ValueIs DEF bits

(* A byte is what fits in eight bits. *)
LEMMA EightShifts ==
    ASSUME NEW x \in Nat
    PROVE  /\ G!Shifted(x, 8) = x \div 256
           /\ G!Shifted(x, 8) = 0 <=> x < 256
<1> DEFINE s(n) == G!Shifted(x, n)
<1>1. /\ s(0) = x /\ s(1) = s(0) \div 2 /\ s(2) = s(1) \div 2 /\ s(3) = s(2) \div 2
      /\ s(4) = s(3) \div 2 /\ s(5) = s(4) \div 2 /\ s(6) = s(5) \div 2
      /\ s(7) = s(6) \div 2 /\ s(8) = s(7) \div 2
  <2>1. \A n \in Nat : s(n + 1) = s(n) \div 2
    BY ShiftSteps
  <2>2. /\ s(0 + 1) = s(0) \div 2 /\ s(1 + 1) = s(1) \div 2 /\ s(2 + 1) = s(2) \div 2
        /\ s(3 + 1) = s(3) \div 2 /\ s(4 + 1) = s(4) \div 2 /\ s(5 + 1) = s(5) \div 2
        /\ s(6 + 1) = s(6) \div 2 /\ s(7 + 1) = s(7) \div 2
    <3> HIDE DEF s
    <3>1. QED
      BY <2>1
  <2>3. s(0) = x
    BY ShiftSteps
  <2>4. QED
    BY <2>2, <2>3
<1>2. \A n \in Nat : s(n) \in Nat
  BY ShiftSteps
<1> HIDE DEF s
<1>3. /\ s(0) \in Nat /\ s(1) \in Nat /\ s(2) \in Nat /\ s(3) \in Nat /\ s(4) \in Nat
      /\ s(5) \in Nat /\ s(6) \in Nat /\ s(7) \in Nat /\ s(8) \in Nat
  BY <1>2
<1>4. /\ 2 * s(1) <= s(0) /\ s(0) < 2 * s(1) + 2 /\ 2 * s(2) <= s(1) /\ s(1) < 2 * s(2) + 2
      /\ 2 * s(3) <= s(2) /\ s(2) < 2 * s(3) + 2 /\ 2 * s(4) <= s(3) /\ s(3) < 2 * s(4) + 2
      /\ 2 * s(5) <= s(4) /\ s(4) < 2 * s(5) + 2 /\ 2 * s(6) <= s(5) /\ s(5) < 2 * s(6) + 2
      /\ 2 * s(7) <= s(6) /\ s(6) < 2 * s(7) + 2 /\ 2 * s(8) <= s(7) /\ s(7) < 2 * s(8) + 2
  BY <1>1, <1>3
<1>5. 256 * s(8) <= s(0) /\ s(0) < 256 * s(8) + 256
  BY <1>3, <1>4
<1>6. s(8) = s(0) \div 256 /\ (s(8) = 0 <=> s(0) < 256)
  BY <1>3, <1>5
<1>7. QED
  BY <1>1, <1>6 DEF s

(* Two bytes, the higher first, are the bits of their value. *)
LEMMA TwoBytes ==
    ASSUME NEW a \in 0 .. 255, NEW b \in 0 .. 255
    PROVE  /\ G!BitsOf(a, 8) \o G!BitsOf(b, 8) = G!BitsOf(256 * a + b, 16)
           /\ G!Shifted(256 * a + b, 16) = 0
<1> DEFINE x == 256 * a + b
           s(n) == G!Shifted(x, n)
           u(n) == G!Shifted(a, n)
           v(n) == G!Shifted(b, n)
<1>1. x \in Nat /\ a \in Nat /\ b \in Nat
  OBVIOUS
<1>2. \A y \in Nat : /\ G!Shifted(y, 0) = y
                     /\ G!Shifted(y, 1) = G!Shifted(y, 0) \div 2
                     /\ G!Shifted(y, 2) = G!Shifted(y, 1) \div 2
                     /\ G!Shifted(y, 3) = G!Shifted(y, 2) \div 2
                     /\ G!Shifted(y, 4) = G!Shifted(y, 3) \div 2
                     /\ G!Shifted(y, 5) = G!Shifted(y, 4) \div 2
                     /\ G!Shifted(y, 6) = G!Shifted(y, 5) \div 2
                     /\ G!Shifted(y, 7) = G!Shifted(y, 6) \div 2
                     /\ G!Shifted(y, 8) = G!Shifted(y, 7) \div 2
  <2> SUFFICES ASSUME NEW y \in Nat
               PROVE  /\ G!Shifted(y, 0) = y
                      /\ G!Shifted(y, 1) = G!Shifted(y, 0) \div 2
                      /\ G!Shifted(y, 2) = G!Shifted(y, 1) \div 2
                      /\ G!Shifted(y, 3) = G!Shifted(y, 2) \div 2
                      /\ G!Shifted(y, 4) = G!Shifted(y, 3) \div 2
                      /\ G!Shifted(y, 5) = G!Shifted(y, 4) \div 2
                      /\ G!Shifted(y, 6) = G!Shifted(y, 5) \div 2
                      /\ G!Shifted(y, 7) = G!Shifted(y, 6) \div 2
                      /\ G!Shifted(y, 8) = G!Shifted(y, 7) \div 2
    OBVIOUS
  <2>1. G!Shifted(y, 0) = y /\ \A n \in Nat : G!Shifted(y, n + 1) = G!Shifted(y, n) \div 2
    BY ShiftSteps
  <2>2. 1 = 0 + 1 /\ 2 = 1 + 1 /\ 3 = 2 + 1 /\ 4 = 3 + 1 /\ 5 = 4 + 1 /\ 6 = 5 + 1
        /\ 7 = 6 + 1 /\ 8 = 7 + 1
    OBVIOUS
  <2>3. QED
    BY <2>1
<1>3. \A n \in Nat : s(n) \in Nat /\ u(n) \in Nat /\ v(n) \in Nat
  BY <1>1, ShiftSteps, Zenon
<1>4. /\ s(1) = 128 * a + v(1) /\ s(2) = 64 * a + v(2) /\ s(3) = 32 * a + v(3)
      /\ s(4) = 16 * a + v(4) /\ s(5) = 8 * a + v(5) /\ s(6) = 4 * a + v(6)
      /\ s(7) = 2 * a + v(7) /\ s(8) = a
  <2>1. \A p \in Nat, q \in Nat : (2 * p + q) \div 2 = p + (q \div 2)
    OBVIOUS
  <2>2. s(0) = x /\ v(0) = b /\ v(8) = 0
    BY <1>1, <1>2, EightShifts
  <2> HIDE DEF s, v
  <2>3. /\ s(1) = s(0) \div 2 /\ s(2) = s(1) \div 2 /\ s(3) = s(2) \div 2 /\ s(4) = s(3) \div 2
        /\ s(5) = s(4) \div 2 /\ s(6) = s(5) \div 2 /\ s(7) = s(6) \div 2 /\ s(8) = s(7) \div 2
        /\ v(1) = v(0) \div 2 /\ v(2) = v(1) \div 2 /\ v(3) = v(2) \div 2 /\ v(4) = v(3) \div 2
        /\ v(5) = v(4) \div 2 /\ v(6) = v(5) \div 2 /\ v(7) = v(6) \div 2 /\ v(8) = v(7) \div 2
    BY <1>1, <1>2 DEF s, v
  <2>4. /\ v(0) \in Nat /\ v(1) \in Nat /\ v(2) \in Nat /\ v(3) \in Nat /\ v(4) \in Nat
        /\ v(5) \in Nat /\ v(6) \in Nat /\ v(7) \in Nat
    BY <1>3
  <2>5. s(1) = 128 * a + v(1)
    BY <1>1, <2>2, <2>3, <2>4
  <2>6. s(2) = 64 * a + v(2)
    BY <1>1, <2>3, <2>4, <2>5
  <2>7. s(3) = 32 * a + v(3)
    BY <1>1, <2>3, <2>4, <2>6
  <2>8. s(4) = 16 * a + v(4)
    BY <1>1, <2>3, <2>4, <2>7
  <2>9. s(5) = 8 * a + v(5)
    BY <1>1, <2>3, <2>4, <2>8
  <2>10. s(6) = 4 * a + v(6)
    BY <1>1, <2>3, <2>4, <2>9
  <2>11. s(7) = 2 * a + v(7)
    BY <1>1, <2>3, <2>4, <2>10
  <2>12. s(8) = a
    BY <1>1, <2>2, <2>3, <2>4, <2>11
  <2>13. QED
    BY <2>5, <2>6, <2>7, <2>8, <2>9, <2>10, <2>11, <2>12
<1>5. \A n \in 0 .. 8 : s(8 + n) = u(n)
  <2>1. \A n \in Nat : s((8 + n) + 1) = s(8 + n) \div 2 /\ u(n + 1) = u(n) \div 2
    BY <1>1, ShiftSteps
  <2>2. u(0) = a
    BY <1>1, <1>2
  <2> HIDE DEF s, u
  <2> DEFINE S == {n \in Nat : s(8 + n) = u(n)}
  <2>3. 0 \in S
    BY <1>4, <2>2
  <2>4. ASSUME NEW n \in Nat, n \in S PROVE n + 1 \in S
    <3>1. 8 + (n + 1) = (8 + n) + 1
      OBVIOUS
    <3>2. s(8 + (n + 1)) = s(8 + n) \div 2
      BY <2>1, <3>1
    <3>3. QED
      BY <2>1, <2>4, <3>2
  <2> HIDE DEF S
  <2>5. \A n \in Nat : n \in S
    BY <2>3, <2>4, NumbersFollow
  <2>6. QED
    BY <2>5 DEF S
<1>6. \A n \in 0 .. 7 : s(n) % 2 = v(n) % 2
  <2>1. s(0) = x /\ v(0) = b
    BY <1>1, <1>2
  <2> HIDE DEF s, v
  <2>2. /\ v(0) \in Nat /\ v(1) \in Nat /\ v(2) \in Nat /\ v(3) \in Nat /\ v(4) \in Nat
        /\ v(5) \in Nat /\ v(6) \in Nat /\ v(7) \in Nat
    BY <1>3
  <2>3. \A p \in Nat, q \in Nat : (2 * p + q) % 2 = q % 2
    OBVIOUS
  <2>4. s(0) % 2 = v(0) % 2 /\ s(1) % 2 = v(1) % 2 /\ s(2) % 2 = v(2) % 2 /\ s(3) % 2 = v(3) % 2
    BY <1>1, <1>4, <2>1, <2>2
  <2>5. s(4) % 2 = v(4) % 2 /\ s(5) % 2 = v(5) % 2 /\ s(6) % 2 = v(6) % 2 /\ s(7) % 2 = v(7) % 2
    BY <1>1, <1>4, <2>2
  <2>6. \A n \in 0 .. 7 : n = 0 \/ n = 1 \/ n = 2 \/ n = 3 \/ n = 4 \/ n = 5 \/ n = 6 \/ n = 7
    OBVIOUS
  <2>7. QED
    BY <2>4, <2>5, <2>6
<1>7. G!Shifted(x, 16) = 0
  <2>1. u(8) = 0
    BY <1>1, EightShifts
  <2>2. s(8 + 8) = u(8)
    BY <1>5
  <2>3. QED
    BY <2>1, <2>2
<1>8. G!BitsOf(a, 8) \o G!BitsOf(b, 8) = G!BitsOf(x, 16)
  <2> DEFINE high == G!BitsOf(a, 8)
             low == G!BitsOf(b, 8)
             both == G!BitsOf(x, 16)
  <2>1. /\ high \in Bits /\ Len(high) = 8 /\ low \in Bits /\ Len(low) = 8
        /\ both \in Bits /\ Len(both) = 16
    BY <1>1, BitsAreBits, Zenon
  <2>2. /\ \A i \in 1 .. 8 : high[i] = u(8 - i) % 2 /\ low[i] = v(8 - i) % 2
        /\ \A i \in 1 .. 16 : both[i] = s(16 - i) % 2
    BY DEF G!BitsOf
  <2> HIDE DEF high, low, both, s, u, v
  <2>3. \A i \in 1 .. 8 : both[i] = high[i]
    <3>1. \A i \in 1 .. 8 : 8 - i \in 0 .. 8 /\ 16 - i = 8 + (8 - i) /\ i \in 1 .. 16
      OBVIOUS
    <3>2. QED
      BY <1>5, <2>2, <3>1
  <2>4. \A i \in 9 .. 16 : both[i] = low[i - 8]
    <3>1. \A i \in 9 .. 16 : /\ 16 - i \in 0 .. 7 /\ 8 - (i - 8) = 16 - i
                             /\ i - 8 \in 1 .. 8 /\ i \in 1 .. 16
      OBVIOUS
    <3>2. QED
      BY <1>6, <2>2, <3>1
  <2> DEFINE joined == high \o low
  <2>5. /\ joined \in Seq({0, 1}) /\ Len(joined) = Len(high) + Len(low)
        /\ \A i \in 1 .. Len(high) + Len(low) :
              joined[i] = IF i <= Len(high) THEN high[i] ELSE low[i - Len(high)]
    BY <2>1, ConcatProperties, Zenon DEF Bits
  <2> HIDE DEF joined
  <2>6. \A i \in 1 .. 16 : joined[i] = both[i]
    <3>1. \A i \in 1 .. 16 : joined[i] = IF i <= 8 THEN high[i] ELSE low[i - 8]
      BY <2>1, <2>5
    <3>2. QED
      BY <2>3, <2>4, <3>1
  <2>7. joined \in Seq({0, 1}) /\ both \in Seq({0, 1}) /\ Len(joined) = 16 /\ Len(both) = 16
    BY <2>1, <2>5 DEF Bits
  <2>8. joined = both
    BY <2>6, <2>7, SeqEqual
  <2>9. QED
    BY <2>8 DEF joined, high, low, both
<1>9. QED
  BY <1>7, <1>8

-----------------------------------------------------------------------------
(* Extensible bit vectors. *)
Vectors(f, m) ==
    f = [v \in 0 .. m |->
            (IF v > 127 THEN f[v \div 128] ELSE << >>) \o G!BitsOf(128 + (v % 128), 8)]

(* The vectors of the numbers up to m give that of m + 1. *)
LEMMA VectorsGoOn ==
    ASSUME NEW m \in Nat, NEW f, Vectors(f, m)
    PROVE  \E g : Vectors(g, m + 1)
<1> DEFINE of(h, v) ==
               (IF v > 127 THEN h[v \div 128] ELSE << >>) \o G!BitsOf(128 + (v % 128), 8)
           g == [v \in 0 .. m + 1 |-> IF v = m + 1 THEN of(f, v) ELSE f[v]]
<1>1. ASSUME NEW v \in 0 .. m + 1 PROVE v > 127 => g[v \div 128] = f[v \div 128]
  <2>1. v > 127 => v \div 128 \in 0 .. m + 1 /\ v \div 128 # m + 1
    OBVIOUS
  <2>2. QED
    BY <2>1
<1>2. ASSUME NEW v \in 0 .. m + 1 PROVE g[v] = of(g, v)
  <2>1. of(g, v) = of(f, v)
    <3> HIDE DEF g
    <3>1. QED
      BY <1>1
  <2>2. CASE v = m + 1
    BY <2>1, <2>2
  <2>3. CASE v # m + 1
    <3>1. v \in 0 .. m /\ g[v] = f[v]
      BY <2>3
    <3> HIDE DEF g
    <3>2. f[v] = of(f, v)
      BY <3>1 DEF Vectors
    <3>3. QED
      BY <2>1, <3>1, <3>2
  <2>4. QED
    BY <2>2, <2>3
<1>3. g = [v \in 0 .. m + 1 |-> g[v]]
  OBVIOUS
<1> HIDE DEF g
<1>4. Vectors(g, m + 1)
  BY <1>2, <1>3 DEF Vectors
<1>5. QED
  BY <1>4

(* There is the function that Extended() chooses. *)
LEMMA VectorsExist == \A m \in Nat : \E f : Vectors(f, m)
<1> DEFINE Sizes == {k \in Nat : \E f : Vectors(f, k)}
<1>1. 0 \in Sizes
  <2> DEFINE f == [v \in 0 .. 0 |-> << >> \o G!BitsOf(128 + (v % 128), 8)]
  <2>1. \A v \in 0 .. 0 : ~(v > 127)
    OBVIOUS
  <2>2. Vectors(f, 0)
    BY <2>1 DEF Vectors
  <2> HIDE DEF f
  <2>3. QED
    BY <2>2
<1>2. ASSUME NEW k \in Nat, k \in Sizes PROVE k + 1 \in Sizes
  <2>1. \E g : Vectors(g, k + 1)
    BY <1>2, VectorsGoOn
  <2>2. QED
    BY <2>1
<1> HIDE DEF Sizes
<1>3. \A k \in Nat : k \in Sizes
  BY <1>1, <1>2, NumbersFollow
<1>4. QED
  BY <1>3 DEF Sizes

(* Each of its values is bits. *)
LEMMA VectorsAreBits ==
    ASSUME NEW m \in Nat, NEW f, Vectors(f, m)
    PROVE  \A v \in 0 .. m : f[v] \in Bits
<1> DEFINE S == {n \in Nat : \A v \in 0 .. m : v <= n => f[v] \in Bits}
<1>1. ASSUME NEW v \in 0 .. m, v > 127 => f[v \div 128] \in Bits PROVE f[v] \in Bits
  <2>1. f[v] = (IF v > 127 THEN f[v \div 128] ELSE << >>) \o G!BitsOf(128 + (v % 128), 8)
    BY DEF Vectors
  <2>2. 128 + (v % 128) \in Nat
    OBVIOUS
  <2>3. G!BitsOf(128 + (v % 128), 8) \in Bits
    BY <2>2, BitsAreBits
  <2>4. << >> \in Bits
    BY DEF Bits
  <2>5. QED
    BY <1>1, <2>1, <2>3, <2>4, ConcatProperties DEF Bits
<1>2. 0 \in S
  <2>1. \A v \in 0 .. m : v <= 0 => ~(v > 127)
    OBVIOUS
  <2>2. QED
    BY <1>1, <2>1
<1>3. ASSUME NEW n \in Nat, n \in S PROVE n + 1 \in S
  <2>1. SUFFICES ASSUME NEW v \in 0 .. m, v <= n + 1 PROVE f[v] \in Bits
    OBVIOUS
  <2>2. v > 127 => v \div 128 \in 0 .. m /\ v \div 128 <= n
    BY <2>1
  <2>3. v > 127 => f[v \div 128] \in Bits
    BY <1>3, <2>2
  <2>4. QED
    BY <1>1, <2>3
<1> HIDE DEF S
<1>4. \A n \in Nat : n \in S
  BY <1>2, <1>3, NumbersFollow
<1>5. QED
  BY <1>4 DEF S

(* An EBV is bits; of a value below 16384, of one byte or of two. *)
LEMMA EbvIsBits ==
    ASSUME NEW value \in Nat
    PROVE  G!bit_pack_ebv(value) \in Bits
<1>1. value % 128 \in Nat /\ value \div 128 \in Nat /\ << >> \in Bits
  BY DEF Bits
<1>2. \A v \in Nat : G!Extended(v) \in Bits
  <2> TAKE v \in Nat
  <2> DEFINE f == CHOOSE f : Vectors(f, v)
  <2>1. Vectors(f, v)
    BY VectorsExist
  <2>2. G!Extended(v) = f[v]
    BY DEF G!Extended, Vectors
  <2> HIDE DEF f
  <2>3. v \in 0 .. v
    OBVIOUS
  <2>4. QED
    BY <2>1, <2>2, <2>3, VectorsAreBits
<1>3. G!BitsOf(value % 128, 8) \in Bits
  BY <1>1, BitsAreBits
<1>4. QED
  BY <1>1, <1>2, <1>3, ConcatProperties DEF G!bit_pack_ebv, Bits

(* A number of at most fourteen bits is an EBV of one byte or of two. *)
LEMMA ShortEbv ==
    ASSUME NEW value \in Nat, value \div 128 < 128
    PROVE  /\ value < 128 => G!bit_pack_ebv(value) = G!BitsOf(value, 8)
           /\ value >= 128 => G!bit_pack_ebv(value) =
                G!BitsOf(128 + (value \div 128), 8) \o G!BitsOf(value % 128, 8)
<1>1. value % 128 \in Nat
  OBVIOUS
<1>2. G!BitsOf(value % 128, 8) \in Bits
  BY <1>1, BitsAreBits
<1>3. CASE value < 128
  <2>1. value % 128 = value /\ ~(value > 127)
    BY <1>3
  <2>2. QED
    BY <1>2, <1>3, <2>1, ConcatEmptySeq DEF G!bit_pack_ebv, Bits
<1>4. CASE value >= 128
  <2> DEFINE w == value \div 128
             f == CHOOSE f : Vectors(f, w)
  <2>1. w \in 0 .. w /\ ~(w > 127) /\ w % 128 = w /\ w \in Nat /\ 128 + w \in Nat
    BY <1>4
  <2>2. value > 127
    BY <1>4
  <2> HIDE DEF w
  <2>3. Vectors(f, w)
    BY <2>1, VectorsExist
  <2>4. G!Extended(w) = f[w]
    BY DEF G!Extended, Vectors
  <2> HIDE DEF f
  <2>5. f[w] = << >> \o G!BitsOf(128 + w, 8)
    BY <2>1, <2>3 DEF Vectors
  <2>6. G!Extended(w) = G!BitsOf(128 + w, 8)
    BY <2>1, <2>4, <2>5, BitsAreBits, ConcatEmptySeq DEF Bits
  <2>7. QED
    BY <1>4, <2>2, <2>6 DEF G!bit_pack_ebv, w
<1>5. QED
  BY <1>3, <1>4

(* The powers that bytes are taken by. *)
LEMMA PowersKnown ==
    256 ^ 0 = 1 /\ 256 ^ 1 = 256 /\ 128 ^ 0 = 1 /\ 128 ^ 1 = 128
OBVIOUS

(* One byte of an EBV is its number. *)
LEMMA EbvOfOneByte ==
    ASSUME NEW value \in 0 .. 127
    PROVE  G!bit_unpack_ebv(value, 1) = value
<1> DEFINE Piece(i) == (G!Byte(value, i) % 128) * 128 ^ i
           Sum(f) == f = [i \in 0 .. 1 |-> IF i = 0 THEN 0 ELSE f[i - 1] + Piece(i - 1)]
           g == [i \in 0 .. 1 |-> IF i = 0 THEN 0 ELSE 0 + Piece(0)]
           f == CHOOSE f : Sum(f)
<1>1. Piece(0) = value
  <2>1. (value \div 1) % 256 = value /\ value % 128 = value /\ value * 1 = value
    OBVIOUS
  <2>2. QED
    BY <2>1, PowersKnown DEF G!Byte
<1>2. G!bit_unpack_ebv(value, 1) = f[1]
  BY DEF G!bit_unpack_ebv
<1>3. Sum(g)
  <2> HIDE DEF Piece
  <2>1. \A i \in 0 .. 1 : i # 0 => i = 1 /\ i - 1 = 0 /\ Piece(i - 1) = Piece(0)
    OBVIOUS
  <2>2. g[0] = 0
    OBVIOUS
  <2>3. \A i \in 0 .. 1 :
            g[i] = IF i = 0 THEN 0 ELSE g[i - 1] + Piece(i - 1)
    BY <2>1, <2>2
  <2>4. QED
    BY <2>3
<1>4. Sum(f)
  <2> HIDE DEF g, Sum
  <2>1. QED
    BY <1>3
<1> HIDE DEF f, g, Piece
<1>5. f[0] = 0 /\ f[1] = f[0] + Piece(0)
  BY <1>4
<1>6. QED
  BY <1>1, <1>2, <1>5

(* Two bytes of an EBV are the number that was split into them. *)
LEMMA EbvOfTwoBytes ==
    ASSUME NEW a \in 0 .. 127, NEW b \in 0 .. 127
    PROVE  G!bit_unpack_ebv(256 * (128 + a) + b, 2) = 128 * a + b
<1> DEFINE value == 256 * (128 + a) + b
           Piece(i) == (G!Byte(value, i) % 128) * 128 ^ i
           Sum(f) == f = [i \in 0 .. 2 |-> IF i = 0 THEN 0 ELSE f[i - 1] + Piece(i - 1)]
           g == [i \in 0 .. 2 |-> IF i = 0 THEN 0
                                  ELSE IF i = 1 THEN 0 + Piece(0) ELSE (0 + Piece(0)) + Piece(1)]
           f == CHOOSE f : Sum(f)
<1>1. Piece(0) = b /\ Piece(1) = 128 * a
  <2>1. /\ (value \div 1) % 256 = b /\ b % 128 = b /\ b * 1 = b
        /\ (value \div 256) % 256 = 128 + a /\ (128 + a) % 128 = a /\ a * 128 = 128 * a
    OBVIOUS
  <2> HIDE DEF value
  <2>2. QED
    BY <2>1, PowersKnown DEF G!Byte
<1>2. G!bit_unpack_ebv(value, 2) = f[2]
  BY DEF G!bit_unpack_ebv
<1> HIDE DEF value
<1>3. Sum(g)
  <2> HIDE DEF Piece
  <2>1. \A i \in 0 .. 2 : i = 0 \/ (i = 1 /\ i - 1 = 0) \/ (i = 2 /\ i - 1 = 1)
    OBVIOUS
  <2>2. g[0] = 0 /\ g[1] = 0 + Piece(0) /\ g[2] = (0 + Piece(0)) + Piece(1)
    OBVIOUS
  <2> HIDE DEF g
  <2>3. \A i \in 0 .. 2 :
            g[i] = IF i = 0 THEN 0 ELSE g[i - 1] + Piece(i - 1)
    BY <2>1, <2>2
  <2>4. g = [i \in 0 .. 2 |-> g[i]]
    BY DEF g
  <2>5. QED
    BY <2>3, <2>4
<1>4. Sum(f)
  <2> HIDE DEF g, Sum
  <2>1. QED
    BY <1>3
<1> HIDE DEF f, g, Piece
<1>5. f[0] = 0 /\ f[1] = f[0] + Piece(0) /\ f[2] = f[1] + Piece(1)
  BY <1>4
<1>6. f[2] = 128 * a + b
  BY <1>1, <1>5
<1>7. QED
  BY <1>2, <1>6 DEF value

-----------------------------------------------------------------------------
(* Bits p lie in bits from a position on, and are what is cut out there. *)
Lies(bits, from, p) ==
    from + Len(p) <= Len(bits) /\ \A k \in 1 .. Len(p) : bits[from + k] = p[k]

(* A piece that lies in the bits is cut out of them again. *)
LEMMA CutOut ==
    ASSUME NEW bits \in Bits, NEW p \in Bits, NEW from \in Nat, Lies(bits, from, p)
    PROVE  SubSeq(bits, from + 1, from + Len(p)) = p
<1> DEFINE m == from + 1
           n == from + Len(p)
           cut == SubSeq(bits, m, n)
<1>1. Len(bits) \in Nat /\ Len(p) \in Nat
  BY LenProperties DEF Bits
<1>2. m \in Int /\ n \in Int /\ m \in Nat /\ n \in Nat
  BY <1>1
<1>3. \A i \in m .. n : bits[i] \in {0, 1}
  <2>1. \A i \in m .. n : i \in 1 .. Len(bits)
    BY <1>1 DEF Lies
  <2>2. QED
    BY <2>1, ElementOfSeq DEF Bits
<1>4. n - m + 1 = Len(p) /\ (m <= n \/ Len(p) = 0)
  BY <1>1
<1>5. \A k \in 1 .. Len(p) : m + k - 1 = from + k
  BY <1>1
<1> HIDE DEF m, n
<1>6. /\ SubSeq(bits, m, n) \in Seq({0, 1})
      /\ Len(SubSeq(bits, m, n)) = IF m <= n THEN n - m + 1 ELSE 0
      /\ \A i \in 1 .. n - m + 1 : SubSeq(bits, m, n)[i] = bits[m + i - 1]
  BY <1>2, <1>3, SubSeqProperties
<1> HIDE DEF cut
<1>7. cut \in Seq({0, 1}) /\ Len(cut) = Len(p)
  BY <1>1, <1>2, <1>4, <1>6 DEF cut
<1>8. \A i \in 1 .. Len(cut) : cut[i] = p[i]
  BY <1>4, <1>5, <1>6, <1>7 DEF cut, Lies
<1>9. cut = p
  BY <1>7, <1>8, SeqEqual DEF Bits
<1>10. QED
  BY <1>9 DEF cut, m, n

ReadAsTwo(bits, from, a, b) ==
    /\ Len(G!BitsOf(128 + a, 8) \o G!BitsOf(b, 8)) = 16
    /\ G!bit_unpack(bits, from, 8) = 128 + a
    /\ G!bit_unpack(bits, from + 8, 8) = b
    /\ G!bit_unpack(bits, from, 16) = 256 * (128 + a) + b

(* An EBV of two bytes is read as two bytes, and as its number. *)
LEMMA TwoBytesAreRead ==
    ASSUME NEW bits \in Bits, NEW from \in Nat, NEW a \in 0 .. 127, NEW b \in 0 .. 127,
           Lies(bits, from, G!BitsOf(128 + a, 8) \o G!BitsOf(b, 8))
    PROVE  ReadAsTwo(bits, from, a, b)
<1> DEFINE high == G!BitsOf(128 + a, 8)
           low == G!BitsOf(b, 8)
           p == high \o low
           value == 256 * (128 + a) + b
<1>1. /\ 128 + a \in Nat /\ b \in Nat /\ 128 + a < 256 /\ b < 256
      /\ 128 + a \in 0 .. 255 /\ b \in 0 .. 255 /\ value \in Nat
  OBVIOUS
<1>2. /\ high \in Bits /\ low \in Bits /\ Len(high) = 8 /\ Len(low) = 8
  BY <1>1, BitsAreBits, Zenon
<1>3. G!ValueOf(high) = 128 + a /\ G!ValueOf(low) = b
  <2>1. G!Shifted(128 + a, 8) = 0 /\ G!Shifted(b, 8) = 0
    BY <1>1, EightShifts, Zenon
  <2>2. QED
    BY <1>1, <2>1, ValueOfBits
<1>4. p = G!BitsOf(value, 16) /\ G!Shifted(value, 16) = 0
  BY <1>1, TwoBytes, Zenon
<1> HIDE DEF value
<1>5. p \in Bits /\ Len(p) = 16 /\ G!ValueOf(p) = value
  <2>1. G!BitsOf(value, 16) \in Bits /\ Len(G!BitsOf(value, 16)) = 16
    BY <1>1, BitsAreBits
  <2>2. G!ValueOf(G!BitsOf(value, 16)) = value
    BY <1>1, <1>4, ValueOfBits
  <2> HIDE DEF p
  <2>3. QED
    BY <1>4, <2>1, <2>2
<1> HIDE DEF high, low
<1>6. \A k \in 1 .. 16 : p[k] = IF k <= 8 THEN high[k] ELSE low[k - 8]
  <2>1. \A k \in 1 .. Len(high) + Len(low) :
           p[k] = IF k <= Len(high) THEN high[k] ELSE low[k - Len(high)]
    BY <1>2, ConcatProperties DEF Bits
  <2> HIDE DEF p
  <2>2. QED
    BY <1>2, <2>1
<1>7. Lies(bits, from, p)
  BY DEF high, low
<1> HIDE DEF p
<1>8. from + 16 <= Len(bits) /\ \A k \in 1 .. 16 : bits[from + k] = p[k]
  BY <1>5, <1>7 DEF Lies
<1>9. Len(bits) \in Nat
  BY LenProperties DEF Bits
<1>10. SubSeq(bits, from + 1, from + 16) = p
  BY <1>5, <1>7, CutOut
<1>11. SubSeq(bits, from + 1, from + 8) = high
  <2>1. \A k \in 1 .. 8 : bits[from + k] = high[k]
    <3> TAKE k \in 1 .. 8
    <3>1. k \in 1 .. 16 /\ k <= 8
      OBVIOUS
    <3>2. p[k] = high[k]
      BY <1>6, <3>1
    <3>3. bits[from + k] = p[k]
      BY <1>8, <3>1
    <3>4. QED
      BY <3>2, <3>3
  <2>2. from + 8 <= Len(bits)
    <3>1. from + 16 <= Len(bits)
      BY <1>8
    <3>2. QED
      BY <1>9, <3>1
  <2>3. Lies(bits, from, high)
    BY <1>2, <2>1, <2>2 DEF Lies
  <2>4. QED
    BY <1>2, <2>3, CutOut
<1>12. SubSeq(bits, (from + 8) + 1, (from + 8) + 8) = low
  <2> DEFINE next == from + 8
  <2>1. \A k \in 1 .. 8 : k + 8 \in 1 .. 16 /\ from + (k + 8) = next + k
                          /\ ~(k + 8 <= 8) /\ (k + 8) - 8 = k
    OBVIOUS
  <2>2. next \in Nat /\ next + 8 <= Len(bits)
    <3>1. from + 16 <= Len(bits)
      BY <1>8
    <3>2. QED
      BY <1>9, <3>1
  <2> HIDE DEF next
  <2>3. \A k \in 1 .. 8 : bits[next + k] = low[k]
    <3> TAKE k \in 1 .. 8
    <3>1. p[k + 8] = low[k]
      BY <1>6, <2>1
    <3>2. bits[from + (k + 8)] = p[k + 8]
      BY <1>8, <2>1
    <3>3. QED
      BY <2>1, <3>1, <3>2
  <2>4. Lies(bits, next, low)
    BY <1>2, <2>2, <2>3 DEF Lies
  <2>5. SubSeq(bits, next + 1, next + Len(low)) = low
    BY <1>2, <2>2, <2>4, CutOut
  <2>6. QED
    BY <1>2, <2>5 DEF next
<1>13. Len(high \o low) = 16
  BY <1>5 DEF p
<1>14. QED
  BY <1>3, <1>5, <1>10, <1>11, <1>12, <1>13
     DEF G!bit_unpack, high, low, value, ReadAsTwo

(* So is every EBV that the decoder has bytes enough for. *)
LEMMA EbvIsRead ==
    ASSUME NEW bits \in Bits, NEW from \in Nat, NEW value \in Nat, value \div 128 < 128,
           Lies(bits, from, G!bit_pack_ebv(value))
    PROVE  \E n \in {1, 2} :
              /\ Len(G!bit_pack_ebv(value)) = 8 * n
              /\ G!ebv_length_decode(bits, from) = n
              /\ G!bit_unpack_ebv(G!bit_unpack(bits, from, 8 * n), n) = value
<1> DEFINE p == G!bit_pack_ebv(value)
<1>1. p \in Bits
  BY EbvIsBits
<1>2. CASE value < 128
  <2>1. value \in 0 .. 127 /\ p = G!BitsOf(value, 8)
    BY <1>2, ShortEbv
  <2>2. Len(p) = 8 /\ G!ValueOf(p) = value
    <3>1. G!Shifted(value, 8) = 0
      BY <1>2, EightShifts
    <3>2. QED
      BY <2>1, <3>1, BitsAreBits, ValueOfBits
  <2>3. SubSeq(bits, from + 1, from + 8) = p
    <3>1. Lies(bits, from, p)
      OBVIOUS
    <3> HIDE DEF p
    <3>2. SubSeq(bits, from + 1, from + Len(p)) = p
      BY <1>1, <3>1, CutOut
    <3>3. QED
      BY <2>2, <3>2
  <2> HIDE DEF p
  <2>4. G!bit_unpack(bits, from, 8) = value
    BY <2>2, <2>3 DEF G!bit_unpack
  <2>5. G!ebv_length_decode(bits, from) = 1
    <3>1. G!Byte(value, 0) = value
      <4>1. (value \div 1) % 256 = value
        BY <2>1
      <4>2. QED
        BY <4>1, PowersKnown DEF G!Byte
    <3>2. QED
      BY <1>2, <2>4, <3>1 DEF G!ebv_length_decode
  <2>6. G!bit_unpack_ebv(value, 1) = value
    BY <2>1, EbvOfOneByte
  <2>7. Len(p) = 8 * 1 /\ 8 * 1 = 8 /\ 1 \in {1, 2}
    BY <2>2
  <2>8. QED
    BY <2>4, <2>5, <2>6, <2>7 DEF p
<1>3. CASE value >= 128
  <2> DEFINE a == value \div 128
             b == value % 128
             word == 256 * (128 + a) + b
  <2>1. /\ a \in 0 .. 127 /\ b \in 0 .. 127 /\ value = 128 * a + b
    BY <1>3
  <2>2. p = G!BitsOf(128 + a, 8) \o G!BitsOf(b, 8)
    BY <1>3, ShortEbv
  <2> HIDE DEF a, b
  <2>3. /\ Len(p) = 16 /\ G!bit_unpack(bits, from, 8) = 128 + a
        /\ G!bit_unpack(bits, from + 8, 8) = b /\ G!bit_unpack(bits, from, 16) = word
    <3>1. Lies(bits, from, p)
      OBVIOUS
    <3> HIDE DEF p
    <3>2. Lies(bits, from, G!BitsOf(128 + a, 8) \o G!BitsOf(b, 8))
      BY <2>2, <3>1
    <3>3. a \in 0 .. 127 /\ b \in 0 .. 127
      BY <2>1, Zenon
    <3>4. ReadAsTwo(bits, from, a, b)
      BY <3>2, <3>3, TwoBytesAreRead, Zenon
    <3>5. QED
      BY <2>2, <3>4 DEF ReadAsTwo
  <2>4. G!ebv_length_decode(bits, from) = 2
    <3>1. G!Byte(128 + a, 0) = 128 + a /\ G!Byte(b, 1) = 0
      <4>1. ((128 + a) \div 1) % 256 = 128 + a /\ (b \div 256) % 256 = 0
        BY <2>1
      <4>2. QED
        BY <4>1, PowersKnown DEF G!Byte
    <3>2. ~(128 + a < 128) /\ 0 < 128
      BY <2>1
    <3>3. QED
      BY <2>3, <3>1, <3>2 DEF G!ebv_length_decode
  <2>5. G!bit_unpack_ebv(word, 2) = value
    BY <2>1, EbvOfTwoBytes
  <2> HIDE DEF p, word
  <2>6. Len(p) = 8 * 2 /\ 8 * 2 = 16 /\ 2 \in {1, 2}
    BY <2>3
  <2>7. QED
    BY <2>3, <2>4, <2>5, <2>6 DEF p
<1>4. QED
  BY <1>2, <1>3

-----------------------------------------------------------------------------
(* Pieces laid one after the other: each lies where those before it end. *)
Chain(f, pieces, N) ==
    f = [n \in 0 .. N |-> IF n = 0 THEN << >> ELSE f[n - 1] \o pieces[n]]
ChainOfBits(f, pieces, N) ==
    /\ Chain(f, pieces, N)
    /\ \A n \in 1 .. N : pieces[n] \in Bits
    /\ \A n \in 0 .. N : f[n] \in Bits
Adds(f, pieces, n) ==
    /\ f[n] = f[n - 1] \o pieces[n]
    /\ Len(f[n - 1]) \in Nat /\ Len(pieces[n]) \in Nat
    /\ Len(f[n]) = Len(f[n - 1]) + Len(pieces[n])
    /\ \A k \in 1 .. Len(f[n - 1]) : f[n][k] = f[n - 1][k]
    /\ Lies(f[n], Len(f[n - 1]), pieces[n])

(* The pieces can be laid one after the other. *)
LEMMA ChainExists ==
    ASSUME NEW N \in Nat, NEW pieces, \A n \in 1 .. N : pieces[n] \in Bits
    PROVE  \E f : ChainOfBits(f, pieces, N)
<1> DEFINE Turn == [p \in (1 .. N) \X Bits |-> p[2] \o pieces[p[1]]]
<1>1. \A n \in 1 .. N, x \in Bits : Turn[<<n, x>>] = x \o pieces[n] /\ Turn[<<n, x>>] \in Bits
  <2> TAKE n \in 1 .. N, x \in Bits
  <2>1. Turn[<<n, x>>] = x \o pieces[n]
    OBVIOUS
  <2>2. x \o pieces[n] \in Bits
    BY ConcatProperties DEF Bits
  <2>3. QED
    BY <2>1, <2>2
<1> HIDE DEF Turn
<1>2. << >> \in Bits
  BY DEF Bits
<1>3. PICK f : Solves(f, << >>, Turn, N) /\ \A i \in 0 .. N : f[i] \in Bits
  BY <1>1, <1>2, SolutionExists
<1>4. \A n \in 0 .. N : n # 0 => n \in 1 .. N /\ n - 1 \in 0 .. N
  OBVIOUS
<1>5. \A n \in 0 .. N : n # 0 => Turn[<<n, f[n - 1]>>] = f[n - 1] \o pieces[n]
  BY <1>1, <1>3, <1>4
<1>6. Chain(f, pieces, N)
  BY <1>3, <1>5 DEF Solves, Chain
<1>7. QED
  BY <1>3, <1>6 DEF ChainOfBits

(* One piece more adds its bits behind the others. *)
LEMMA ChainStep ==
    ASSUME NEW N \in Nat, NEW pieces, NEW f, ChainOfBits(f, pieces, N), NEW n \in 1 .. N
    PROVE  Adds(f, pieces, n)
<1> DEFINE m == n - 1
           front == f[m]
           piece == pieces[n]
           both == f[n]
<1>1. m \in 0 .. N /\ n \in 0 .. N /\ n # 0
  OBVIOUS
<1>2. both = front \o piece
  BY <1>1 DEF ChainOfBits, Chain
<1>3. front \in Seq({0, 1}) /\ piece \in Seq({0, 1})
  BY <1>1 DEF ChainOfBits, Bits
<1> HIDE DEF m, front, piece, both
<1>4. Len(front) \in Nat /\ Len(piece) \in Nat
  BY <1>3, LenProperties
<1>5. /\ Len(both) = Len(front) + Len(piece)
      /\ \A i \in 1 .. Len(front) + Len(piece) :
            both[i] = IF i <= Len(front) THEN front[i] ELSE piece[i - Len(front)]
  BY <1>2, <1>3, ConcatProperties
<1>6. \A k \in 1 .. Len(front) : both[k] = front[k]
  BY <1>4, <1>5
<1>7. Lies(both, Len(front), piece)
  <2>1. \A k \in 1 .. Len(piece) : both[Len(front) + k] = piece[k]
    <3> TAKE k \in 1 .. Len(piece)
    <3> DEFINE i == Len(front) + k
    <3>1. i \in 1 .. Len(front) + Len(piece) /\ ~(i <= Len(front)) /\ i - Len(front) = k
      BY <1>4
    <3> HIDE DEF i
    <3>2. both[i] = piece[k]
      BY <1>5, <3>1
    <3>3. QED
      BY <3>2 DEF i
  <2>2. QED
    BY <1>4, <1>5, <2>1 DEF Lies
<1>8. QED
  BY <1>2, <1>4, <1>5, <1>6, <1>7 DEF m, front, piece, both, Adds

(* Every piece lies in the whole, behind those before it. *)
LEMMA ChainHolds ==
    ASSUME NEW N \in Nat, NEW pieces, NEW f, ChainOfBits(f, pieces, N), NEW n \in 1 .. N
    PROVE  Lies(f[N], Len(f[n - 1]), pieces[n]) /\ Len(f[n]) <= Len(f[N])
<1> DEFINE Kept(j) == /\ Len(f[n]) <= Len(f[j])
                      /\ \A k \in 1 .. Len(f[n]) : f[j][k] = f[n][k]
           S == {i \in Nat : n + i <= N => Kept(n + i)}
<1>1. n \in 0 .. N /\ n + 0 = n /\ n \in Nat
  OBVIOUS
<1>2. \A i \in 0 .. N : Len(f[i]) \in Nat
  BY LenProperties DEF ChainOfBits, Bits
<1>3. 0 \in S
  <2>1. Kept(n)
    BY <1>1, <1>2
  <2>2. QED
    BY <1>1, <2>1
<1>4. ASSUME NEW i \in Nat, i \in S PROVE i + 1 \in S
  <2>1. SUFFICES ASSUME n + (i + 1) <= N PROVE Kept(n + (i + 1))
    OBVIOUS
  <2> DEFINE j == n + (i + 1)
  <2>2. j \in 1 .. N /\ j - 1 = n + i /\ n + i <= N
    BY <2>1
  <2>3. Kept(n + i)
    BY <1>4, <2>2
  <2> HIDE DEF j, S
  <2>4. /\ Len(f[j - 1]) \in Nat /\ Len(pieces[j]) \in Nat
        /\ Len(f[j]) = Len(f[j - 1]) + Len(pieces[j])
        /\ \A k \in 1 .. Len(f[j - 1]) : f[j][k] = f[j - 1][k]
    <3>1. Adds(f, pieces, j)
      BY <2>2, ChainStep
    <3>2. QED
      BY <3>1 DEF Adds
  <2> DEFINE h == f[j - 1]
             g == f[j]
  <2>5. /\ Len(f[n]) \in Nat /\ Len(f[n]) <= Len(h)
        /\ \A k \in 1 .. Len(f[n]) : h[k] = f[n][k]
    BY <1>1, <1>2, <2>2, <2>3
  <2>6. /\ Len(h) \in Nat /\ Len(h) <= Len(g)
        /\ \A k \in 1 .. Len(h) : g[k] = h[k]
    <3> DEFINE c == Len(pieces[j])
    <3>1. c \in Nat /\ Len(h) \in Nat /\ Len(g) = Len(h) + c
      BY <2>4
    <3> HIDE DEF c
    <3>2. \A k \in 1 .. Len(h) : g[k] = h[k]
      BY <2>4
    <3> HIDE DEF g, h
    <3>3. QED
      BY <3>1, <3>2
  <2> HIDE DEF g, h
  <2>7. Len(g) \in Nat
    BY <1>2, <2>2 DEF g
  <2>8. Len(f[n]) <= Len(g) /\ \A k \in 1 .. Len(f[n]) : g[k] = f[n][k]
    BY <2>5, <2>6, <2>7
  <2>9. Kept(j)
    BY <2>8 DEF g
  <2>10. QED
    BY <2>9 DEF j
<1>5. Kept(N)
  <2> HIDE DEF S
  <2>1. \A i \in Nat : i \in S
    BY <1>3, <1>4, NumbersFollow
  <2>2. N - n \in Nat /\ n + (N - n) = N
    OBVIOUS
  <2>3. N - n \in S
    BY <2>1, <2>2
  <2>4. QED
    BY <2>2, <2>3 DEF S
<1>6. /\ Len(f[n]) = Len(f[n - 1]) + Len(pieces[n])
      /\ Len(f[n - 1]) \in Nat /\ Len(pieces[n]) \in Nat
      /\ Lies(f[n], Len(f[n - 1]), pieces[n])
  <2>1. Adds(f, pieces, n)
    BY ChainStep
  <2>2. QED
    BY <2>1 DEF Adds
<1> DEFINE first == Len(f[n - 1])
           piece == pieces[n]
           all == f[N]
           front == f[n]
<1>7. /\ Len(front) <= Len(all) /\ \A k \in 1 .. Len(front) : all[k] = front[k]
      /\ Len(front) = first + Len(piece) /\ first \in Nat /\ Len(piece) \in Nat
      /\ Lies(front, first, piece)
  BY <1>5, <1>6
<1> HIDE DEF first, piece, all, front
<1>8. Lies(all, first, piece)
  <2>1. \A k \in 1 .. Len(piece) : front[first + k] = piece[k]
    BY <1>7 DEF Lies
  <2>2. \A k \in 1 .. Len(piece) : first + k \in 1 .. Len(front)
    BY <1>7
  <2>3. \A k \in 1 .. Len(piece) : all[first + k] = piece[k]
    BY <1>7, <2>1, <2>2
  <2>4. first + Len(piece) <= Len(all)
    BY <1>7
  <2>5. QED
    BY <2>3, <2>4 DEF Lies
<1>9. QED
  BY <1>7, <1>8 DEF first, piece, all, front

-----------------------------------------------------------------------------
(* The steps of the encoders and what they pack. *)
IsStep(step) ==
    /\ step.kind \in {"const", "field", "ebv", "span"}
    /\ step.kind \in {"const", "field"} => step.width \in Nat \ {0}
    /\ step.kind = "const" => step.value \in Nat
IsGiven(step, args) ==
    step.kind # "const" /\ step.name \in DOMAIN args =>
        args[step.name] \in IF step.kind = "span" THEN Bits ELSE Nat
PacksIt(step, args) ==
    /\ G!Packed(step, args) \in Bits
    /\ step.kind = "const" => /\ G!Packed(step, args) = G!BitsOf(step.value, step.width)
                              /\ Len(G!Packed(step, args)) = step.width
                              /\ G!Shifted(step.value, step.width) = 0
    /\ step.kind = "field" => /\ args[step.name] \in Nat
                              /\ G!Packed(step, args) = G!BitsOf(args[step.name], step.width)
                              /\ Len(G!Packed(step, args)) = step.width
                              /\ G!Shifted(args[step.name], step.width) = 0
    /\ step.kind = "ebv" => /\ args[step.name] \in Nat
                            /\ G!Packed(step, args) = G!bit_pack_ebv(args[step.name])
    /\ step.kind = "span" => G!Packed(step, args) = args[step.name]
    /\ step.kind # "const" => step.name \in DOMAIN args

(* What bit_pack() gives in full length fits. *)
LEMMA FieldFits ==
    ASSUME NEW value \in Nat, NEW width \in Nat \ {0}, Len(G!bit_pack(value, width)) = width
    PROVE  /\ G!bit_pack(value, width) = G!BitsOf(value, width)
           /\ G!bit_pack(value, width) \in Bits
           /\ G!Shifted(value, width) = 0
<1>1. G!BitsOf(value, width) \in Bits
  BY BitsAreBits
<1>2. Len(<< >>) = 0 /\ width # 0
  OBVIOUS
<1>3. G!Shifted(value, width) = 0
  BY <1>2 DEF G!bit_pack
<1>4. QED
  BY <1>1, <1>3 DEF G!bit_pack

(* A step that encodes packs what it was given. *)
LEMMA EncodedStep ==
    ASSUME NEW step, NEW args, IsStep(step), IsGiven(step, args), G!Encodes(step, args)
    PROVE  PacksIt(step, args)
<1>1. CASE step.kind = "const"
  <2>1. G!Packed(step, args) = G!bit_pack(step.value, step.width)
    BY <1>1 DEF G!Packed
  <2>2. G!BitLen(step, args) = step.width
    BY <1>1 DEF G!BitLen
  <2>3. Len(G!bit_pack(step.value, step.width)) = step.width
    BY <2>1, <2>2 DEF G!Encodes
  <2>4. step.value \in Nat /\ step.width \in Nat \ {0}
    BY <1>1 DEF IsStep
  <2>5. QED
    BY <1>1, <2>1, <2>3, <2>4, FieldFits DEF PacksIt
<1>2. CASE step.kind = "field"
  <2> DEFINE value == args[step.name]
  <2>1. G!Packed(step, args) = G!bit_pack(value, step.width)
    BY <1>2 DEF G!Packed
  <2>2. G!BitLen(step, args) = step.width
    BY <1>2 DEF G!BitLen
  <2>3. Len(G!bit_pack(value, step.width)) = step.width /\ step.name \in DOMAIN args
    BY <1>2, <2>1, <2>2 DEF G!Encodes
  <2>4. value \in Nat /\ step.width \in Nat \ {0}
    BY <1>2, <2>3 DEF IsStep, IsGiven
  <2> HIDE DEF value
  <2>5. /\ G!bit_pack(value, step.width) = G!BitsOf(value, step.width)
        /\ G!bit_pack(value, step.width) \in Bits /\ G!Shifted(value, step.width) = 0
    BY <2>3, <2>4, FieldFits
  <2>6. QED
    BY <1>2, <2>1, <2>3, <2>4, <2>5 DEF PacksIt, value
<1>3. CASE step.kind = "ebv"
  <2>1. step.name \in DOMAIN args
    BY <1>3 DEF G!Encodes
  <2>2. args[step.name] \in Nat
    BY <1>3, <2>1 DEF IsGiven
  <2>3. G!Packed(step, args) = G!bit_pack_ebv(args[step.name])
    BY <1>3 DEF G!Packed
  <2>4. QED
    BY <1>3, <2>1, <2>2, <2>3, EbvIsBits DEF PacksIt
<1>4. CASE step.kind = "span"
  <2>1. step.name \in DOMAIN args
    BY <1>4 DEF G!Encodes
  <2>2. args[step.name] \in Bits
    BY <1>4, <2>1 DEF IsGiven
  <2>3. G!Packed(step, args) = args[step.name]
    BY <1>4 DEF G!Packed
  <2>4. QED
    BY <1>4, <2>1, <2>2, <2>3 DEF PacksIt
<1>5. QED
  BY <1>1, <1>2, <1>3, <1>4 DEF IsStep

(* The steps of a decoder answer those of the encoder one by one; a span   *)
(* is what is left but for the width of what follows it.                   *)
StepMatches(e, d) ==
    \/ e.kind = "const" /\ d.kind = "skip" /\ d.width = e.width
    \/ e.kind = "field" /\ d.kind = "field" /\ d.name = e.name /\ d.width = e.width
    \/ e.kind = "ebv" /\ d.kind = "ebv" /\ d.name = e.name
    \/ e.kind = "span" /\ d.kind = "rest" /\ d.name = e.name
Answers(e, d) == IsStep(e) /\ StepMatches(e, d) /\ e.name # "rep_len_bits"
SpanEnds(es, d, n) ==
    \/ n = Len(es) /\ d.width = 0
    \/ n + 1 = Len(es) /\ es[n + 1].kind = "field" /\ d.width = es[n + 1].width
StepsMatch(es, ds) ==
    /\ Len(es) \in Nat /\ DOMAIN es = 1 .. Len(es) /\ Len(ds) = Len(es)
    /\ \A n \in 1 .. Len(es) :
            Answers(es[n], ds[n]) /\ (es[n].kind = "span" => SpanEnds(es, ds[n], n))

(* A constant is skipped. *)
LEMMA ConstAnswers ==
    ASSUME NEW value \in Nat, NEW width \in Nat \ {0}
    PROVE  /\ Answers(G!Const(value, width), G!Skip(width))
           /\ G!Const(value, width).kind # "span"
BY DEF Answers, IsStep, StepMatches, G!Const, G!Skip

(* A field answers itself. *)
LEMMA FieldAnswers ==
    ASSUME NEW name, name # "rep_len_bits", NEW width \in Nat \ {0}
    PROVE  /\ Answers(G!Field(name, width), G!Field(name, width))
           /\ G!Field(name, width).kind = "field" /\ G!Field(name, width).width = width
BY DEF Answers, IsStep, StepMatches, G!Field

(* So does an EBV. *)
LEMMA EbvAnswers ==
    ASSUME NEW name, name # "rep_len_bits"
    PROVE  Answers(G!Ebv(name), G!Ebv(name)) /\ G!Ebv(name).kind # "span"
BY DEF Answers, IsStep, StepMatches, G!Ebv

(* A span is the rest but for a tail. *)
LEMMA SpanAnswers ==
    ASSUME NEW name, name # "rep_len_bits", NEW tail
    PROVE  Answers(G!Span(name), G!Rest(name, tail)) /\ G!Rest(name, tail).width = tail
BY DEF Answers, IsStep, StepMatches, G!Span, G!Rest

(* Select: the mask is followed by one bit. *)
LEMMA Gen2SelectMatches == StepsMatch(G!select_command_encode, G!select_command_decode)
<1> DEFINE es == G!select_command_encode
           ds == G!select_command_decode
<1>1. Len(es) = 8 /\ DOMAIN es = 1 .. 8 /\ Len(ds) = 8
  BY DEF G!select_command_encode, G!select_command_decode
<1>2. /\ es[1] = G!Const(10, 4) /\ ds[1] = G!Skip(4)
      /\ es[2] = G!Field("target", 3) /\ ds[2] = G!Field("target", 3)
      /\ es[3] = G!Field("action", 3) /\ ds[3] = G!Field("action", 3)
      /\ es[4] = G!Field("memory_bank", 2) /\ ds[4] = G!Field("memory_bank", 2)
      /\ es[5] = G!Ebv("bit_pointer") /\ ds[5] = G!Ebv("bit_pointer")
      /\ es[6] = G!Field("bit_count", 8) /\ ds[6] = G!Field("bit_count", 8)
      /\ es[7] = G!Span("mask") /\ ds[7] = G!Rest("mask", 1)
      /\ es[8] = G!Field("truncate", 1) /\ ds[8] = G!Field("truncate", 1)
  BY DEF G!select_command_encode, G!select_command_decode
<1> HIDE DEF es, ds
<1>3. /\ Answers(es[1], ds[1])
      /\ Answers(es[2], ds[2])
      /\ Answers(es[3], ds[3])
      /\ Answers(es[4], ds[4])
      /\ Answers(es[5], ds[5])
      /\ Answers(es[6], ds[6])
      /\ Answers(es[7], ds[7])
      /\ Answers(es[8], ds[8])
  BY <1>2, ConstAnswers, FieldAnswers, EbvAnswers, SpanAnswers
<1>4. /\ es[1].kind # "span"
      /\ es[2].kind # "span"
      /\ es[3].kind # "span"
      /\ es[4].kind # "span"
      /\ es[5].kind # "span"
      /\ es[6].kind # "span"
      /\ es[8].kind # "span"
  BY <1>2, ConstAnswers, FieldAnswers, EbvAnswers
<1>5. SpanEnds(es, ds[7], 7)
  BY <1>1, <1>2, FieldAnswers, SpanAnswers DEF SpanEnds
<1>6. \A n \in 1 .. 8 : n = 1 \/ n = 2 \/ n = 3 \/ n = 4 \/ n = 5 \/ n = 6 \/ n = 7 \/ n = 8
  OBVIOUS
<1>7. StepsMatch(es, ds)
  BY <1>1, <1>3, <1>4, <1>5, <1>6 DEF StepsMatch
<1>8. QED
  BY <1>7 DEF es, ds

(* Read. *)
LEMMA Gen2ReadMatches == StepsMatch(G!read_command_encode, G!read_command_decode)
<1> DEFINE es == G!read_command_encode
           ds == G!read_command_decode
<1>1. Len(es) = 4 /\ DOMAIN es = 1 .. 4 /\ Len(ds) = 4
  BY DEF G!read_command_encode, G!read_command_decode
<1>2. /\ es[1] = G!Const(194, 8) /\ ds[1] = G!Skip(8)
      /\ es[2] = G!Field("memory_bank", 2) /\ ds[2] = G!Field("memory_bank", 2)
      /\ es[3] = G!Ebv("word_pointer") /\ ds[3] = G!Ebv("word_pointer")
      /\ es[4] = G!Field("word_count", 8) /\ ds[4] = G!Field("word_count", 8)
  BY DEF G!read_command_encode, G!read_command_decode
<1> HIDE DEF es, ds
<1>3. /\ Answers(es[1], ds[1])
      /\ Answers(es[2], ds[2])
      /\ Answers(es[3], ds[3])
      /\ Answers(es[4], ds[4])
  BY <1>2, ConstAnswers, FieldAnswers, EbvAnswers, SpanAnswers
<1>4. /\ es[1].kind # "span"
      /\ es[2].kind # "span"
      /\ es[3].kind # "span"
      /\ es[4].kind # "span"
  BY <1>2, ConstAnswers, FieldAnswers, EbvAnswers
<1>6. \A n \in 1 .. 4 : n = 1 \/ n = 2 \/ n = 3 \/ n = 4
  OBVIOUS
<1>7. StepsMatch(es, ds)
  BY <1>1, <1>3, <1>4, <1>6 DEF StepsMatch
<1>8. QED
  BY <1>7 DEF es, ds

(* Write. *)
LEMMA Gen2WriteMatches == StepsMatch(G!write_command_encode, G!write_command_decode)
<1> DEFINE es == G!write_command_encode
           ds == G!write_command_decode
<1>1. Len(es) = 4 /\ DOMAIN es = 1 .. 4 /\ Len(ds) = 4
  BY DEF G!write_command_encode, G!write_command_decode
<1>2. /\ es[1] = G!Const(195, 8) /\ ds[1] = G!Skip(8)
      /\ es[2] = G!Field("memory_bank", 2) /\ ds[2] = G!Field("memory_bank", 2)
      /\ es[3] = G!Ebv("word_pointer") /\ ds[3] = G!Ebv("word_pointer")
      /\ es[4] = G!Field("data", 16) /\ ds[4] = G!Field("data", 16)
  BY DEF G!write_command_encode, G!write_command_decode
<1> HIDE DEF es, ds
<1>3. /\ Answers(es[1], ds[1])
      /\ Answers(es[2], ds[2])
      /\ Answers(es[3], ds[3])
      /\ Answers(es[4], ds[4])
  BY <1>2, ConstAnswers, FieldAnswers, EbvAnswers, SpanAnswers
<1>4. /\ es[1].kind # "span"
      /\ es[2].kind # "span"
      /\ es[3].kind # "span"
      /\ es[4].kind # "span"
  BY <1>2, ConstAnswers, FieldAnswers, EbvAnswers
<1>6. \A n \in 1 .. 4 : n = 1 \/ n = 2 \/ n = 3 \/ n = 4
  OBVIOUS
<1>7. StepsMatch(es, ds)
  BY <1>1, <1>3, <1>4, <1>6 DEF StepsMatch
<1>8. QED
  BY <1>7 DEF es, ds

(* Kill: three bits are skipped at the end. *)
LEMMA Gen2Kill_1Matches == StepsMatch(G!kill_command_encode, G!kill_command_decode)
<1> DEFINE es == G!kill_command_encode
           ds == G!kill_command_decode
<1>1. Len(es) = 3 /\ DOMAIN es = 1 .. 3 /\ Len(ds) = 3
  BY DEF G!kill_command_encode, G!kill_command_decode
<1>2. /\ es[1] = G!Const(196, 8) /\ ds[1] = G!Skip(8)
      /\ es[2] = G!Field("password", 16) /\ ds[2] = G!Field("password", 16)
      /\ es[3] = G!Const(0, 3) /\ ds[3] = G!Skip(3)
  BY DEF G!kill_command_encode, G!kill_command_decode
<1> HIDE DEF es, ds
<1>3. /\ Answers(es[1], ds[1])
      /\ Answers(es[2], ds[2])
      /\ Answers(es[3], ds[3])
  BY <1>2, ConstAnswers, FieldAnswers, EbvAnswers, SpanAnswers
<1>4. /\ es[1].kind # "span"
      /\ es[2].kind # "span"
      /\ es[3].kind # "span"
  BY <1>2, ConstAnswers, FieldAnswers, EbvAnswers
<1>6. \A n \in 1 .. 3 : n = 1 \/ n = 2 \/ n = 3
  OBVIOUS
<1>7. StepsMatch(es, ds)
  BY <1>1, <1>3, <1>4, <1>6 DEF StepsMatch
<1>8. QED
  BY <1>7 DEF es, ds

(* Access. *)
LEMMA Gen2AccessMatches == StepsMatch(G!access_command_encode, G!access_command_decode)
<1> DEFINE es == G!access_command_encode
           ds == G!access_command_decode
<1>1. Len(es) = 2 /\ DOMAIN es = 1 .. 2 /\ Len(ds) = 2
  BY DEF G!access_command_encode, G!access_command_decode
<1>2. /\ es[1] = G!Const(198, 8) /\ ds[1] = G!Skip(8)
      /\ es[2] = G!Field("password", 16) /\ ds[2] = G!Field("password", 16)
  BY DEF G!access_command_encode, G!access_command_decode
<1> HIDE DEF es, ds
<1>3. /\ Answers(es[1], ds[1])
      /\ Answers(es[2], ds[2])
  BY <1>2, ConstAnswers, FieldAnswers, EbvAnswers, SpanAnswers
<1>4. /\ es[1].kind # "span"
      /\ es[2].kind # "span"
  BY <1>2, ConstAnswers, FieldAnswers, EbvAnswers
<1>6. \A n \in 1 .. 2 : n = 1 \/ n = 2
  OBVIOUS
<1>7. StepsMatch(es, ds)
  BY <1>1, <1>3, <1>4, <1>6 DEF StepsMatch
<1>8. QED
  BY <1>7 DEF es, ds

(* BlockWrite: the data are the rest. *)
LEMMA Gen2BlockWriteMatches ==
    StepsMatch(G!block_write_command_encode, G!block_write_command_decode)
<1> DEFINE es == G!block_write_command_encode
           ds == G!block_write_command_decode
<1>1. Len(es) = 5 /\ DOMAIN es = 1 .. 5 /\ Len(ds) = 5
  BY DEF G!block_write_command_encode, G!block_write_command_decode
<1>2. /\ es[1] = G!Const(199, 8) /\ ds[1] = G!Skip(8)
      /\ es[2] = G!Field("memory_bank", 2) /\ ds[2] = G!Field("memory_bank", 2)
      /\ es[3] = G!Ebv("word_pointer") /\ ds[3] = G!Ebv("word_pointer")
      /\ es[4] = G!Field("word_count", 8) /\ ds[4] = G!Field("word_count", 8)
      /\ es[5] = G!Span("data") /\ ds[5] = G!Rest("data", 0)
  BY DEF G!block_write_command_encode, G!block_write_command_decode
<1> HIDE DEF es, ds
<1>3. /\ Answers(es[1], ds[1])
      /\ Answers(es[2], ds[2])
      /\ Answers(es[3], ds[3])
      /\ Answers(es[4], ds[4])
      /\ Answers(es[5], ds[5])
  BY <1>2, ConstAnswers, FieldAnswers, EbvAnswers, SpanAnswers
<1>4. /\ es[1].kind # "span"
      /\ es[2].kind # "span"
      /\ es[3].kind # "span"
      /\ es[4].kind # "span"
  BY <1>2, ConstAnswers, FieldAnswers, EbvAnswers
<1>5. SpanEnds(es, ds[5], 5)
  BY <1>1, <1>2, FieldAnswers, SpanAnswers DEF SpanEnds
<1>6. \A n \in 1 .. 5 : n = 1 \/ n = 2 \/ n = 3 \/ n = 4 \/ n = 5
  OBVIOUS
<1>7. StepsMatch(es, ds)
  BY <1>1, <1>3, <1>4, <1>5, <1>6 DEF StepsMatch
<1>8. QED
  BY <1>7 DEF es, ds

(* BlockPermalock: eight constant bits are skipped. *)
LEMMA Gen2BlockPermalockMatches ==
    StepsMatch(G!block_permalock_command_encode, G!block_permalock_command_decode)
<1> DEFINE es == G!block_permalock_command_encode
           ds == G!block_permalock_command_decode
<1>1. Len(es) = 7 /\ DOMAIN es = 1 .. 7 /\ Len(ds) = 7
  BY DEF G!block_permalock_command_encode, G!block_permalock_command_decode
<1>2. /\ es[1] = G!Const(201, 8) /\ ds[1] = G!Skip(8)
      /\ es[2] = G!Const(0, 8) /\ ds[2] = G!Skip(8)
      /\ es[3] = G!Field("read_lock", 1) /\ ds[3] = G!Field("read_lock", 1)
      /\ es[4] = G!Field("memory_bank", 2) /\ ds[4] = G!Field("memory_bank", 2)
      /\ es[5] = G!Ebv("block_pointer") /\ ds[5] = G!Ebv("block_pointer")
      /\ es[6] = G!Field("block_range", 8) /\ ds[6] = G!Field("block_range", 8)
      /\ es[7] = G!Span("mask") /\ ds[7] = G!Rest("mask", 0)
  BY DEF G!block_permalock_command_encode, G!block_permalock_command_decode
<1> HIDE DEF es, ds
<1>3. /\ Answers(es[1], ds[1])
      /\ Answers(es[2], ds[2])
      /\ Answers(es[3], ds[3])
      /\ Answers(es[4], ds[4])
      /\ Answers(es[5], ds[5])
      /\ Answers(es[6], ds[6])
      /\ Answers(es[7], ds[7])
  BY <1>2, ConstAnswers, FieldAnswers, EbvAnswers, SpanAnswers
<1>4. /\ es[1].kind # "span"
      /\ es[2].kind # "span"
      /\ es[3].kind # "span"
      /\ es[4].kind # "span"
      /\ es[5].kind # "span"
      /\ es[6].kind # "span"
  BY <1>2, ConstAnswers, FieldAnswers, EbvAnswers
<1>5. SpanEnds(es, ds[7], 7)
  BY <1>1, <1>2, FieldAnswers, SpanAnswers DEF SpanEnds
<1>6. \A n \in 1 .. 7 : n = 1 \/ n = 2 \/ n = 3 \/ n = 4 \/ n = 5 \/ n = 6 \/ n = 7
  OBVIOUS
<1>7. StepsMatch(es, ds)
  BY <1>1, <1>3, <1>4, <1>5, <1>6 DEF StepsMatch
<1>8. QED
  BY <1>7 DEF es, ds

(* Authenticate: two constant bits are skipped. *)
LEMMA Gen2AuthenticateMatches ==
    StepsMatch(G!authenticate_command_encode, G!authenticate_command_decode)
<1> DEFINE es == G!authenticate_command_encode
           ds == G!authenticate_command_decode
<1>1. Len(es) = 7 /\ DOMAIN es = 1 .. 7 /\ Len(ds) = 7
  BY DEF G!authenticate_command_encode, G!authenticate_command_decode
<1>2. /\ es[1] = G!Const(213, 8) /\ ds[1] = G!Skip(8)
      /\ es[2] = G!Const(0, 2) /\ ds[2] = G!Skip(2)
      /\ es[3] = G!Field("send_rep", 1) /\ ds[3] = G!Field("send_rep", 1)
      /\ es[4] = G!Field("inc_rep_len", 1) /\ ds[4] = G!Field("inc_rep_len", 1)
      /\ es[5] = G!Field("csi", 8) /\ ds[5] = G!Field("csi", 8)
      /\ es[6] = G!Field("length", 12) /\ ds[6] = G!Field("length", 12)
      /\ es[7] = G!Span("message") /\ ds[7] = G!Rest("message", 0)
  BY DEF G!authenticate_command_encode, G!authenticate_command_decode
<1> HIDE DEF es, ds
<1>3. /\ Answers(es[1], ds[1])
      /\ Answers(es[2], ds[2])
      /\ Answers(es[3], ds[3])
      /\ Answers(es[4], ds[4])
      /\ Answers(es[5], ds[5])
      /\ Answers(es[6], ds[6])
      /\ Answers(es[7], ds[7])
  BY <1>2, ConstAnswers, FieldAnswers, EbvAnswers, SpanAnswers
<1>4. /\ es[1].kind # "span"
      /\ es[2].kind # "span"
      /\ es[3].kind # "span"
      /\ es[4].kind # "span"
      /\ es[5].kind # "span"
      /\ es[6].kind # "span"
  BY <1>2, ConstAnswers, FieldAnswers, EbvAnswers
<1>5. SpanEnds(es, ds[7], 7)
  BY <1>1, <1>2, FieldAnswers, SpanAnswers DEF SpanEnds
<1>6. \A n \in 1 .. 7 : n = 1 \/ n = 2 \/ n = 3 \/ n = 4 \/ n = 5 \/ n = 6 \/ n = 7
  OBVIOUS
<1>7. StepsMatch(es, ds)
  BY <1>1, <1>3, <1>4, <1>5, <1>6 DEF StepsMatch
<1>8. QED
  BY <1>7 DEF es, ds

(* MarginRead: its identifier has sixteen bits. *)
LEMMA Gen2MarginReadMatches ==
    StepsMatch(G!margin_read_command_encode, G!margin_read_command_decode)
<1> DEFINE es == G!margin_read_command_encode
           ds == G!margin_read_command_decode
<1>1. Len(es) = 5 /\ DOMAIN es = 1 .. 5 /\ Len(ds) = 5
  BY DEF G!margin_read_command_encode, G!margin_read_command_decode
<1>2. /\ es[1] = G!Const(57345, 16) /\ ds[1] = G!Skip(16)
      /\ es[2] = G!Field("memory_bank", 2) /\ ds[2] = G!Field("memory_bank", 2)
      /\ es[3] = G!Ebv("bit_pointer") /\ ds[3] = G!Ebv("bit_pointer")
      /\ es[4] = G!Field("bit_length", 8) /\ ds[4] = G!Field("bit_length", 8)
      /\ es[5] = G!Span("mask") /\ ds[5] = G!Rest("mask", 0)
  BY DEF G!margin_read_command_encode, G!margin_read_command_decode
<1> HIDE DEF es, ds
<1>3. /\ Answers(es[1], ds[1])
      /\ Answers(es[2], ds[2])
      /\ Answers(es[3], ds[3])
      /\ Answers(es[4], ds[4])
      /\ Answers(es[5], ds[5])
  BY <1>2, ConstAnswers, FieldAnswers, EbvAnswers, SpanAnswers
<1>4. /\ es[1].kind # "span"
      /\ es[2].kind # "span"
      /\ es[3].kind # "span"
      /\ es[4].kind # "span"
  BY <1>2, ConstAnswers, FieldAnswers, EbvAnswers
<1>5. SpanEnds(es, ds[5], 5)
  BY <1>1, <1>2, FieldAnswers, SpanAnswers DEF SpanEnds
<1>6. \A n \in 1 .. 5 : n = 1 \/ n = 2 \/ n = 3 \/ n = 4 \/ n = 5
  OBVIOUS
<1>7. StepsMatch(es, ds)
  BY <1>1, <1>3, <1>4, <1>5, <1>6 DEF StepsMatch
<1>8. QED
  BY <1>7 DEF es, ds

(* The flags of Lock are twenty, none of them the length of a reply. *)
LEMMA LockFlagNames ==
    /\ Len(G!LockFlags) = 20
    /\ \A i \in 1 .. 20 : G!LockFlags[i] # "rep_len_bits"
<1>1. Len(G!LockFlags) = 20
  BY DEF G!LockFlags
<1>2. /\ G!LockFlags[1] # "rep_len_bits" /\ G!LockFlags[2] # "rep_len_bits"
      /\ G!LockFlags[3] # "rep_len_bits" /\ G!LockFlags[4] # "rep_len_bits"
      /\ G!LockFlags[5] # "rep_len_bits" /\ G!LockFlags[6] # "rep_len_bits"
      /\ G!LockFlags[7] # "rep_len_bits" /\ G!LockFlags[8] # "rep_len_bits"
      /\ G!LockFlags[9] # "rep_len_bits" /\ G!LockFlags[10] # "rep_len_bits"
      /\ G!LockFlags[11] # "rep_len_bits" /\ G!LockFlags[12] # "rep_len_bits"
      /\ G!LockFlags[13] # "rep_len_bits" /\ G!LockFlags[14] # "rep_len_bits"
      /\ G!LockFlags[15] # "rep_len_bits" /\ G!LockFlags[16] # "rep_len_bits"
      /\ G!LockFlags[17] # "rep_len_bits" /\ G!LockFlags[18] # "rep_len_bits"
      /\ G!LockFlags[19] # "rep_len_bits" /\ G!LockFlags[20] # "rep_len_bits"
  BY DEF G!LockFlags
<1>3. \A i \in 1 .. 20 : \/ i = 1 \/ i = 2 \/ i = 3 \/ i = 4 \/ i = 5
                         \/ i = 6 \/ i = 7 \/ i = 8 \/ i = 9 \/ i = 10
                         \/ i = 11 \/ i = 12 \/ i = 13 \/ i = 14 \/ i = 15
                         \/ i = 16 \/ i = 17 \/ i = 18 \/ i = 19 \/ i = 20
  OBVIOUS
<1>4. QED
  BY <1>1, <1>2, <1>3

(* A constant before twenty steps makes twenty-one. *)
LEMMA LockSteps ==
    ASSUME NEW first
    PROVE  LET steps == << first >>
                        \o [i \in 1 .. Len(G!LockFlags) |-> G!Field(G!LockFlags[i], 1)]
           IN /\ Len(steps) = 21 /\ DOMAIN steps = 1 .. 21 /\ steps[1] = first
              /\ \A n \in 2 .. 21 : steps[n] = G!Field(G!LockFlags[n - 1], 1)
<1> DEFINE head == << first >>
           flags == [i \in 1 .. Len(G!LockFlags) |-> G!Field(G!LockFlags[i], 1)]
           S == {first} \cup {G!Field(G!LockFlags[i], 1) : i \in 1 .. 20}
           steps == head \o flags
<1>1. head \in Seq(S) /\ Len(head) = 1 /\ head[1] = first
  OBVIOUS
<1>2. flags \in Seq(S) /\ Len(flags) = 20
  BY LockFlagNames
<1>3. \A i \in 1 .. 20 : flags[i] = G!Field(G!LockFlags[i], 1)
  BY LockFlagNames
<1> HIDE DEF head, flags, S
<1>4. /\ steps \in Seq(S) /\ Len(steps) = Len(head) + Len(flags)
      /\ \A i \in 1 .. Len(head) + Len(flags) :
            steps[i] = IF i <= Len(head) THEN head[i] ELSE flags[i - Len(head)]
  BY <1>1, <1>2, ConcatProperties
<1> HIDE DEF steps
<1>5. Len(steps) = 21 /\ DOMAIN steps = 1 .. 21
  BY <1>1, <1>2, <1>4, LenProperties
<1>6. steps[1] = first
  BY <1>1, <1>2, <1>4
<1>7. ASSUME NEW n \in 2 .. 21 PROVE steps[n] = G!Field(G!LockFlags[n - 1], 1)
  <2>1. n \in 1 .. 21 /\ ~(n <= 1) /\ n - 1 \in 1 .. 20
    OBVIOUS
  <2>2. \A i \in 1 .. 21 : steps[i] = IF i <= 1 THEN head[i] ELSE flags[i - 1]
    <3> TAKE i \in 1 .. 21
    <3>1. Len(head) = 1 /\ Len(flags) = 20
      BY <1>1, <1>2
    <3>2. i \in 1 .. Len(head) + Len(flags)
      BY <3>1
    <3>3. steps[i] = IF i <= Len(head) THEN head[i] ELSE flags[i - Len(head)]
      BY <1>4, <3>2
    <3>4. QED
      BY <3>1, <3>3
  <2>3. steps[n] = flags[n - 1]
    BY <2>1, <2>2
  <2>4. QED
    BY <1>3, <2>1, <2>3
<1>8. QED
  BY <1>5, <1>6, <1>7 DEF steps, head, flags

(* Lock: a bit for each flag. *)
LEMMA Gen2LockMatches == StepsMatch(G!lock_command_encode, G!lock_command_decode)
<1> DEFINE es == G!lock_command_encode
           ds == G!lock_command_decode
<1>1. /\ Len(es) = 21 /\ DOMAIN es = 1 .. 21 /\ es[1] = G!Const(197, 8)
      /\ \A n \in 2 .. 21 : es[n] = G!Field(G!LockFlags[n - 1], 1)
  BY LockSteps DEF G!lock_command_encode
<1>2. /\ Len(ds) = 21 /\ ds[1] = G!Skip(8)
      /\ \A n \in 2 .. 21 : ds[n] = G!Field(G!LockFlags[n - 1], 1)
  BY LockSteps DEF G!lock_command_decode
<1> HIDE DEF es, ds
<1>3. Answers(es[1], ds[1]) /\ es[1].kind # "span"
  <2>1. es[1] = G!Const(197, 8) /\ ds[1] = G!Skip(8)
    BY <1>1, <1>2
  <2>2. QED
    BY <2>1, ConstAnswers
<1>4. ASSUME NEW n \in 2 .. 21 PROVE Answers(es[n], ds[n]) /\ es[n].kind # "span"
  <2>1. n - 1 \in 1 .. 20
    OBVIOUS
  <2>2. G!LockFlags[n - 1] # "rep_len_bits"
    BY <2>1, LockFlagNames
  <2>3. QED
    BY <1>1, <1>2, <2>2, FieldAnswers
<1>5. \A n \in 1 .. 21 : n = 1 \/ n \in 2 .. 21
  OBVIOUS
<1>6. StepsMatch(es, ds)
  BY <1>1, <1>2, <1>3, <1>4, <1>5 DEF StepsMatch
<1>7. QED
  BY <1>6 DEF es, ds

(* So they do for every command a decoder knows. *)
LEMMA TablesMatch ==
    \A c \in G!Commands \ {"Gen2Kill_2"} :
        StepsMatch(G!gen2_command_encode_table[c], G!gen2_command_decode_table[c])
BY Gen2SelectMatches, Gen2ReadMatches, Gen2WriteMatches, Gen2Kill_1Matches,
   Gen2LockMatches, Gen2AccessMatches, Gen2BlockWriteMatches, Gen2BlockPermalockMatches,
   Gen2AuthenticateMatches, Gen2MarginReadMatches
   DEF G!Commands, G!gen2_command_encode_table, G!gen2_command_decode_table

(* The steps of every encoder are well formed. *)
LEMMA StepsOfCommand ==
    ASSUME NEW c \in G!Commands
    PROVE  LET es == G!gen2_command_encode_table[c]
           IN /\ Len(es) \in Nat /\ DOMAIN es = 1 .. Len(es)
              /\ \A n \in 1 .. Len(es) : IsStep(es[n]) /\ es[n].name # "rep_len_bits"
<1>1. CASE c # "Gen2Kill_2"
  BY <1>1, TablesMatch DEF StepsMatch, Answers
<1>2. CASE c = "Gen2Kill_2"
  <2>1. G!gen2_command_encode_table[c] = G!kill_command_encode
    BY <1>2 DEF G!gen2_command_encode_table
  <2>2. QED
    BY <2>1, Gen2Kill_1Matches DEF StepsMatch, Answers
<1>3. QED
  BY <1>1, <1>2

-----------------------------------------------------------------------------
(* A command that is encoded is its pieces, one after the other. *)
Pieces(es, args) == [n \in 1 .. Len(es) |-> G!Packed(es[n], args)]
LaidOut(es, args, bits) ==
    /\ \A n \in 1 .. Len(es) : PacksIt(es[n], args)
    /\ \E f : ChainOfBits(f, Pieces(es, args), Len(es)) /\ bits = f[Len(es)]

(* The encoder lays out its pieces, or gives no bits. *)
LEMMA EncodedIsLaidOut ==
    ASSUME NEW spec, G!IsTyped(spec)
    PROVE  /\ G!encode_gen2_command(spec) \in Bits
           /\ G!encode_gen2_command(spec) # << >> =>
                LaidOut(G!gen2_command_encode_table[spec.command], spec.args,
                        G!encode_gen2_command(spec))
<1> DEFINE es == G!gen2_command_encode_table[spec.command]
           args == spec.args
           N == Len(es)
           Lays(f) == f = [n \in 0 .. N |-> IF n = 0 THEN << >>
                                            ELSE f[n - 1] \o G!Packed(es[n], args)]
           laid == CHOOSE f : Lays(f)
           All == \A n \in DOMAIN es : G!Encodes(es[n], args)
<1>1. G!encode_gen2_command(spec) = IF All THEN laid[N] ELSE << >>
  BY DEF G!encode_gen2_command
<1>2. spec.command \in G!Commands
  BY DEF G!IsTyped
<1>3. N \in Nat /\ DOMAIN es = 1 .. N /\ \A n \in 1 .. N : IsStep(es[n])
  BY <1>2, StepsOfCommand
<1>4. \A n \in 1 .. N : IsGiven(es[n], args)
  <2>1. \A n \in {i \in DOMAIN es : es[i].kind # "const"} : es[n].name \in DOMAIN args =>
            args[es[n].name] \in IF es[n].kind = "span" THEN Seq({0, 1}) ELSE Nat
    BY DEF G!IsTyped
  <2> HIDE DEF es, args, N
  <2>2. QED
    BY <1>3, <2>1 DEF IsGiven, Bits
<1> HIDE DEF es, args, laid
<1>5. << >> \in Bits
  BY DEF Bits
<1>6. CASE ~All
  BY <1>1, <1>5, <1>6
<1>7. CASE All
  <2>1. \A n \in 1 .. N : PacksIt(es[n], args)
    <3> TAKE n \in 1 .. N
    <3>1. G!Encodes(es[n], args) /\ IsStep(es[n]) /\ IsGiven(es[n], args)
      BY <1>3, <1>4, <1>7
    <3>2. QED
      BY <3>1, EncodedStep
  <2> DEFINE pieces == Pieces(es, args)
  <2>2. \A n \in 1 .. N : pieces[n] = G!Packed(es[n], args)
    BY DEF Pieces
  <2>3. \A n \in 1 .. N : pieces[n] \in Bits
    BY <2>1, <2>2 DEF PacksIt
  <2> HIDE DEF pieces, N
  <2>4. PICK f : ChainOfBits(f, pieces, N)
    BY <1>3, <2>3, ChainExists
  <2>5. \A n \in 0 .. N : n # 0 => n \in 1 .. N
    BY <1>3
  <2>6. \A g : Chain(g, pieces, N) <=> Lays(g)
    <3> TAKE g
    <3>1. [n \in 0 .. N |-> IF n = 0 THEN << >> ELSE g[n - 1] \o pieces[n]]
            = [n \in 0 .. N |-> IF n = 0 THEN << >> ELSE g[n - 1] \o G!Packed(es[n], args)]
      BY <2>2, <2>5
    <3>2. QED
      BY <3>1 DEF Chain
  <2>7. Lays(laid)
    <3>1. Lays(f)
      BY <2>4, <2>6 DEF ChainOfBits
    <3> HIDE DEF Lays
    <3>2. QED
      BY <3>1 DEF laid
  <2> HIDE DEF Lays
  <2>8. Chain(laid, pieces, N) /\ Chain(f, pieces, N)
    BY <2>4, <2>6, <2>7 DEF ChainOfBits
  <2> DEFINE S == {n \in Nat : n <= N => laid[n] = f[n]}
  <2>9. 0 \in S
    <3>1. 0 \in 0 .. N
      BY <1>3
    <3>2. QED
      BY <2>8, <3>1 DEF Chain
  <2>10. ASSUME NEW n \in Nat, n \in S PROVE n + 1 \in S
    <3>1. SUFFICES ASSUME n + 1 <= N PROVE laid[n + 1] = f[n + 1]
      OBVIOUS
    <3> DEFINE j == n + 1
    <3>2. j \in 0 .. N /\ j # 0 /\ j - 1 = n /\ n <= N
      BY <1>3, <3>1
    <3>3. laid[n] = f[n]
      BY <2>10, <3>2
    <3> HIDE DEF j, S
    <3>4. laid[j] = laid[n] \o pieces[j] /\ f[j] = f[n] \o pieces[j]
      BY <2>8, <3>2 DEF Chain
    <3>5. QED
      BY <3>3, <3>4 DEF j
  <2>11. laid[N] = f[N]
    <3> HIDE DEF S
    <3>1. \A n \in Nat : n \in S
      BY <2>9, <2>10, NumbersFollow
    <3>2. QED
      BY <1>3, <3>1 DEF S
  <2>12. f[N] \in Bits
    BY <1>3, <2>4 DEF ChainOfBits
  <2>13. LaidOut(es, args, f[N])
    BY <2>1, <2>4 DEF LaidOut, pieces, N
  <2>14. QED
    BY <1>1, <1>7, <2>11, <2>12, <2>13 DEF es, args
<1>8. QED
  BY <1>6, <1>7

-----------------------------------------------------------------------------
(* A step of the decoder recovers what the step of the encoder packed. *)
Put(got, name, value) ==
    [a \in DOMAIN got \cup {name} |-> IF a = name THEN value ELSE got[a]]
IsShort(e, args) ==
    /\ e.kind = "ebv" => args[e.name] \div 128 < 128
    /\ e.kind = "span" => Len(args[e.name]) < 256
Recovers(state, e, args, from, got) ==
    state = [at |-> from + Len(G!Packed(e, args)),
             args |-> IF e.kind = "const" THEN got ELSE Put(got, e.name, args[e.name])]

(* A step of the decoder that stands at its piece recovers it. *)
LEMMA PulledStep ==
    ASSUME NEW bits \in Bits, NEW e, NEW d, NEW args, NEW from \in Nat, NEW got,
           Answers(e, d), PacksIt(e, args), IsShort(e, args),
           Lies(bits, from, G!Packed(e, args)),
           e.kind = "span" => Len(bits) - from - d.width = Len(args[e.name])
    PROVE  Recovers(G!Pull(bits, [at |-> from, args |-> got], d), e, args, from, got)
<1> DEFINE state == [at |-> from, args |-> got]
           piece == G!Packed(e, args)
<1>1. piece \in Bits /\ SubSeq(bits, from + 1, from + Len(piece)) = piece
  <2>1. piece \in Bits
    BY DEF PacksIt
  <2>2. QED
    BY <2>1, CutOut
<1>2. state.at = from /\ state.args = got
  OBVIOUS
<1> HIDE DEF state, piece
<1>3. CASE e.kind = "const"
  <2>1. d.kind = "skip" /\ d.width = e.width
    BY <1>3 DEF Answers, StepMatches
  <2>2. G!Pull(bits, state, d) = [at |-> from + d.width, args |-> got]
    BY <1>2, <2>1 DEF G!Pull
  <2>3. Len(piece) = e.width
    BY <1>3 DEF PacksIt, piece
  <2>4. QED
    BY <1>3, <2>1, <2>2, <2>3 DEF Recovers, state, piece
<1>4. CASE e.kind = "field"
  <2>1. d.kind = "field" /\ d.name = e.name /\ d.width = e.width
    BY <1>4 DEF Answers, StepMatches
  <2>2. G!Pull(bits, state, d) =
            [at |-> from + d.width, args |-> Put(got, d.name, G!bit_unpack(bits, from, d.width))]
    BY <1>2, <2>1 DEF G!Pull, Put
  <2> DEFINE value == args[e.name]
  <2>3. /\ Len(piece) = e.width /\ value \in Nat /\ piece = G!BitsOf(value, e.width)
        /\ G!Shifted(value, e.width) = 0
    BY <1>4 DEF PacksIt, piece
  <2>4. e.width \in Nat
    BY <1>4 DEF Answers, IsStep
  <2> HIDE DEF value
  <2>5. G!bit_unpack(bits, from, e.width) = value
    <3>1. G!ValueOf(piece) = value
      BY <2>3, <2>4, ValueOfBits
    <3>2. QED
      BY <1>1, <2>3, <3>1 DEF G!bit_unpack
  <2>6. QED
    BY <1>4, <2>1, <2>2, <2>3, <2>5 DEF Recovers, state, piece, value
<1>5. CASE e.kind = "ebv"
  <2>1. d.kind = "ebv" /\ d.name = e.name
    BY <1>5 DEF Answers, StepMatches
  <2> DEFINE value == args[e.name]
  <2>2. value \in Nat /\ piece = G!bit_pack_ebv(value) /\ value \div 128 < 128
    BY <1>5 DEF PacksIt, IsShort, piece
  <2> HIDE DEF value
  <2>3. PICK n \in {1, 2} :
            /\ Len(piece) = 8 * n
            /\ G!ebv_length_decode(bits, from) = n
            /\ G!bit_unpack_ebv(G!bit_unpack(bits, from, 8 * n), n) = value
    <3>1. Lies(bits, from, G!bit_pack_ebv(value))
      BY <2>2 DEF piece
    <3>2. QED
      BY <2>2, <3>1, EbvIsRead
  <2>4. (8 * n) \div 8 = n
    OBVIOUS
  <2> DEFINE length == 8 * n
  <2>5. G!Pull(bits, state, d) =
            [at |-> from + length,
             args |-> Put(got, d.name,
                          G!bit_unpack_ebv(G!bit_unpack(bits, from, length), length \div 8))]
    BY <1>2, <2>1, <2>3 DEF G!Pull, Put
  <2> HIDE DEF length
  <2>6. Len(piece) = length /\ G!bit_unpack_ebv(G!bit_unpack(bits, from, length), length \div 8)
                                = value
    BY <2>3, <2>4 DEF length
  <2>7. QED
    BY <1>5, <2>1, <2>5, <2>6 DEF Recovers, state, piece, value
<1>6. CASE e.kind = "span"
  <2>1. d.kind = "rest" /\ d.name = e.name
    BY <1>6 DEF Answers, StepMatches
  <2>2. piece = args[e.name] /\ Len(piece) < 256 /\ Len(bits) - from - d.width = Len(piece)
    BY <1>6 DEF PacksIt, IsShort, piece
  <2>3. (Len(bits) - from - d.width) % 256 = Len(piece)
    <3>1. Len(piece) \in Nat
      BY <1>1, LenProperties DEF Bits
    <3>2. Len(piece) % 256 = Len(piece)
      <4>1. \A x \in Nat : x < 256 => x % 256 = x
        OBVIOUS
      <4>2. QED
        BY <2>2, <3>1, <4>1
    <3>3. QED
      BY <2>2, <3>2
  <2> DEFINE length == Len(piece)
  <2>4. G!Pull(bits, state, d) =
            [at |-> from + length, args |-> Put(got, d.name, G!bit_unpack_msb(bits, from, length))]
    <3> HIDE DEF length
    <3>1. (Len(bits) - from - d.width) % 256 = length
      BY <2>3 DEF length
    <3>2. QED
      BY <1>2, <2>1, <3>1 DEF G!Pull, Put
  <2>5. G!bit_unpack_msb(bits, from, length) = piece
    BY <1>1 DEF G!bit_unpack_msb
  <2>6. QED
    BY <1>6, <2>1, <2>2, <2>4, <2>5 DEF Recovers, state, piece
<1>7. QED
  BY <1>3, <1>4, <1>5, <1>6 DEF Answers, IsStep

(* The decoder: after n steps it stands where the n-th piece ends, and has *)
(* the arguments of those n steps.                                         *)
Named(es, n) == {es[i].name : i \in {j \in 1 .. n : es[j].kind # "const"}}
Got(es, args, rep_len, n) ==
    [a \in Named(es, n) \cup {"rep_len_bits"} |->
        IF a = "rep_len_bits" THEN rep_len ELSE args[a]]
Decodes(state, bits, ds, rep_len) ==
    state = [n \in 0 .. Len(ds) |->
                IF n = 0 THEN [at |-> 0, args |-> [rep_len_bits |-> rep_len]]
                ELSE G!Pull(bits, state[n - 1], ds[n])]

(* What was got by one step more. *)
LEMMA GotOne ==
    ASSUME NEW es, NEW args, NEW rep_len, NEW n \in Nat \ {0},
           es[n].name # "rep_len_bits"
    PROVE  Got(es, args, rep_len, n) =
              IF es[n].kind = "const" THEN Got(es, args, rep_len, n - 1)
              ELSE Put(Got(es, args, rep_len, n - 1), es[n].name, args[es[n].name])
<1> DEFINE m == n - 1
<1>1. \A j \in 1 .. n : j = n \/ j \in 1 .. m
  OBVIOUS
<1>2. \A j \in 1 .. m : j \in 1 .. n
  OBVIOUS
<1>3. n \in 1 .. n
  OBVIOUS
<1> HIDE DEF m
<1>4. CASE es[n].kind = "const"
  <2>1. {j \in 1 .. n : es[j].kind # "const"} = {j \in 1 .. m : es[j].kind # "const"}
    BY <1>1, <1>2, <1>4
  <2>2. Named(es, n) = Named(es, m)
    BY <2>1 DEF Named
  <2>3. QED
    BY <1>4, <2>2 DEF Got, m
<1>5. CASE es[n].kind # "const"
  <2>1. {j \in 1 .. n : es[j].kind # "const"} = {j \in 1 .. m : es[j].kind # "const"} \cup {n}
    BY <1>1, <1>2, <1>3, <1>5
  <2>2. Named(es, n) = Named(es, m) \cup {es[n].name}
    BY <2>1 DEF Named
  <2> DEFINE names == Named(es, m)
             name == es[n].name
             old == Got(es, args, rep_len, m)
  <2>3. DOMAIN old = names \cup {"rep_len_bits"}
    BY DEF Got
  <2>4. \A a \in names \cup {"rep_len_bits"} :
            old[a] = IF a = "rep_len_bits" THEN rep_len ELSE args[a]
    BY DEF Got
  <2>5. Got(es, args, rep_len, n) =
            [a \in (names \cup {name}) \cup {"rep_len_bits"} |->
                IF a = "rep_len_bits" THEN rep_len ELSE args[a]]
    BY <2>2 DEF Got
  <2> HIDE DEF names, name, old
  <2>6. (names \cup {name}) \cup {"rep_len_bits"} = DOMAIN old \cup {name}
    BY <2>3
  <2>7. \A a \in DOMAIN old \cup {name} :
            (IF a = "rep_len_bits" THEN rep_len ELSE args[a])
                = IF a = name THEN args[name] ELSE old[a]
    BY <2>3, <2>4 DEF name
  <2>8. Got(es, args, rep_len, n) = Put(old, name, args[name])
    BY <2>5, <2>6, <2>7 DEF Put
  <2>9. QED
    BY <1>5, <2>8 DEF old, name, m
<1>6. QED
  BY <1>4, <1>5

(* The rest of the bits but for the tail is the span. *)
LEMMA SpanIsRest ==
    ASSUME NEW es, NEW ds, NEW args, NEW f, StepsMatch(es, ds),
           \A n \in 1 .. Len(es) : PacksIt(es[n], args),
           ChainOfBits(f, Pieces(es, args), Len(es)),
           NEW n \in 1 .. Len(es), es[n].kind = "span"
    PROVE  Len(f[Len(es)]) - Len(f[n - 1]) - ds[n].width = Len(args[es[n].name])
<1> DEFINE N == Len(es)
           pieces == Pieces(es, args)
           bits == f[N]
<1>1. N \in Nat /\ SpanEnds(es, ds[n], n)
  BY DEF StepsMatch
<1>2. pieces[n] = args[es[n].name]
  BY DEF PacksIt, Pieces
<1>3. \A i \in 1 .. N : /\ Len(f[i - 1]) \in Nat /\ Len(pieces[i]) \in Nat
                        /\ Len(f[i]) = Len(f[i - 1]) + Len(pieces[i])
  <2> TAKE i \in 1 .. N
  <2>1. Adds(f, pieces, i)
    BY <1>1, ChainStep
  <2>2. QED
    BY <2>1 DEF Adds
<1> HIDE DEF pieces, bits
<1>4. CASE n = N /\ ds[n].width = 0
  <2>1. Len(bits) = Len(f[n - 1]) + Len(pieces[n]) /\ Len(f[n - 1]) \in Nat
        /\ Len(pieces[n]) \in Nat
    BY <1>3, <1>4 DEF bits
  <2>2. Len(bits) - Len(f[n - 1]) - ds[n].width = Len(pieces[n])
    BY <1>4, <2>1
  <2>3. QED
    BY <1>2, <2>2 DEF bits
<1>5. CASE n + 1 = N /\ es[n + 1].kind = "field" /\ ds[n].width = es[n + 1].width
  <2> DEFINE j == n + 1
  <2>1. j \in 1 .. N /\ j - 1 = n /\ j = N
    BY <1>1, <1>5
  <2>2. es[j].kind = "field" /\ ds[n].width = es[j].width
    BY <1>5
  <2> HIDE DEF j
  <2>3. Len(pieces[j]) = es[j].width
    <3>1. pieces[j] = G!Packed(es[j], args)
      BY <2>1 DEF Pieces, pieces
    <3>2. PacksIt(es[j], args)
      BY <2>1
    <3>3. QED
      BY <2>2, <3>1, <3>2 DEF PacksIt
  <2>4. Len(f[j]) = Len(f[n]) + Len(pieces[j]) /\ Len(f[n]) \in Nat /\ Len(pieces[j]) \in Nat
    BY <1>3, <2>1
  <2>5. Len(f[n]) = Len(f[n - 1]) + Len(pieces[n]) /\ Len(f[n - 1]) \in Nat
        /\ Len(pieces[n]) \in Nat
    BY <1>3
  <2>6. bits = f[j]
    BY <2>1 DEF bits
  <2>7. Len(bits) - Len(f[n - 1]) - ds[n].width = Len(pieces[n])
    <3> DEFINE p == Len(f[n - 1])
               q == Len(pieces[n])
               w == Len(pieces[j])
               all == Len(bits)
    <3>1. ds[n].width = w
      BY <2>2, <2>3
    <3>2. p \in Nat /\ q \in Nat /\ w \in Nat
      BY <2>4, <2>5
    <3>3. all = (p + q) + w
      BY <2>4, <2>5, <2>6
    <3> HIDE DEF p, q, w, all
    <3>4. all - p - w = q
      BY <3>2, <3>3
    <3>5. QED
      BY <3>1, <3>4 DEF p, q, w, all
  <2>8. QED
    BY <1>2, <2>7 DEF bits
<1>6. QED
  BY <1>1, <1>4, <1>5 DEF SpanEnds

(* The decoder recovers every argument that was packed. *)
LEMMA DecoderRecovers ==
    ASSUME NEW es, NEW ds, NEW args, NEW bits, NEW rep_len, StepsMatch(es, ds),
           LaidOut(es, args, bits), bits \in Bits, \A n \in 1 .. Len(es) : IsShort(es[n], args)
    PROVE  /\ \E state : Decodes(state, bits, ds, rep_len)
           /\ \A state : Decodes(state, bits, ds, rep_len) =>
                state[Len(ds)].args = Got(es, args, rep_len, Len(es))
<1> DEFINE N == Len(es)
           pieces == Pieces(es, args)
<1>1. PICK f : ChainOfBits(f, pieces, N) /\ bits = f[N]
  BY DEF LaidOut
<1>2. /\ N \in Nat /\ Len(ds) = N
      /\ \A n \in 1 .. N : Answers(es[n], ds[n]) /\ PacksIt(es[n], args)
  BY DEF StepsMatch, LaidOut
<1> DEFINE state(n) == [at |-> Len(f[n]), args |-> Got(es, args, rep_len, n)]
<1>3. ASSUME NEW n \in 1 .. N PROVE G!Pull(bits, state(n - 1), ds[n]) = state(n)
  <2> DEFINE from == Len(f[n - 1])
             got == Got(es, args, rep_len, n - 1)
  <2>1. Adds(f, pieces, n)
    BY <1>1, <1>2, ChainStep
  <2>2. Lies(bits, from, pieces[n])
    BY <1>1, <1>2, ChainHolds
  <2>3. pieces[n] = G!Packed(es[n], args)
    BY DEF Pieces
  <2>4. from \in Nat /\ Len(f[n]) = from + Len(pieces[n])
    BY <2>1 DEF Adds
  <2>5. es[n].kind = "span" => Len(bits) - from - ds[n].width = Len(args[es[n].name])
    BY <1>1, <1>2, SpanIsRest
  <2>6. Answers(es[n], ds[n]) /\ PacksIt(es[n], args) /\ IsShort(es[n], args)
    BY <1>2
  <2> HIDE DEF from, got, pieces
  <2>7. Recovers(G!Pull(bits, [at |-> from, args |-> got], ds[n]), es[n], args, from, got)
    BY <2>2, <2>3, <2>4, <2>5, <2>6, PulledStep
  <2>8. es[n].name # "rep_len_bits" /\ n \in Nat \ {0}
    BY <2>6 DEF Answers
  <2>9. Got(es, args, rep_len, n) =
            IF es[n].kind = "const" THEN got ELSE Put(got, es[n].name, args[es[n].name])
    BY <2>8, GotOne DEF got
  <2>10. G!Pull(bits, [at |-> from, args |-> got], ds[n]) = state(n)
    BY <2>3, <2>4, <2>7, <2>9 DEF Recovers
  <2>11. QED
    BY <2>10 DEF from, got
<1>4. state(0) = [at |-> 0, args |-> [rep_len_bits |-> rep_len]]
  <2>1. f[0] = << >>
    <3>1. 0 \in 0 .. N
      BY <1>2
    <3>2. QED
      BY <1>1, <3>1 DEF ChainOfBits, Chain
  <2>2. Named(es, 0) = {}
    <3>1. \A j \in 1 .. 0 : FALSE
      OBVIOUS
    <3>2. QED
      BY <3>1 DEF Named
  <2>3. Got(es, args, rep_len, 0) = [rep_len_bits |-> rep_len]
    BY <2>2 DEF Got
  <2>4. Len(<< >>) = 0
    OBVIOUS
  <2>5. QED
    BY <2>1, <2>3, <2>4
<1> HIDE DEF state, pieces
<1>5. \A n \in 0 .. N : n # 0 => n \in 1 .. N
  BY <1>2
<1>6. \E g : Decodes(g, bits, ds, rep_len)
  <2> DEFINE g == [n \in 0 .. Len(ds) |-> state(n)]
  <2>1. \A n \in 0 .. Len(ds) : n # 0 => n \in 1 .. N /\ g[n - 1] = state(n - 1)
    <3>1. \A n \in 1 .. N : n - 1 \in 0 .. N
      BY <1>2
    <3>2. QED
      BY <1>2, <1>5, <3>1
  <2>2. \A n \in 0 .. Len(ds) :
            g[n] = IF n = 0 THEN [at |-> 0, args |-> [rep_len_bits |-> rep_len]]
                   ELSE G!Pull(bits, g[n - 1], ds[n])
    BY <1>3, <1>4, <2>1
  <2>3. g = [n \in 0 .. Len(ds) |-> g[n]]
    OBVIOUS
  <2> HIDE DEF g
  <2>4. Decodes(g, bits, ds, rep_len)
    BY <2>2, <2>3 DEF Decodes
  <2>5. QED
    BY <2>4
<1>7. ASSUME NEW g, Decodes(g, bits, ds, rep_len)
      PROVE  g[Len(ds)].args = Got(es, args, rep_len, Len(es))
  <2> DEFINE S == {n \in Nat : n <= N => g[n] = state(n)}
  <2>1. 0 \in S
    <3>1. 0 \in 0 .. Len(ds)
      BY <1>2
    <3>2. QED
      BY <1>4, <1>7, <3>1 DEF Decodes
  <2>2. ASSUME NEW n \in Nat, n \in S PROVE n + 1 \in S
    <3>1. SUFFICES ASSUME n + 1 <= N PROVE g[n + 1] = state(n + 1)
      OBVIOUS
    <3> DEFINE j == n + 1
    <3>2. j \in 1 .. N /\ j \in 0 .. Len(ds) /\ j # 0 /\ j - 1 = n /\ n <= N
      BY <1>2, <3>1
    <3>3. g[n] = state(n)
      BY <2>2, <3>2
    <3> HIDE DEF j, S
    <3>4. g[j] = G!Pull(bits, g[n], ds[j])
      BY <1>7, <3>2 DEF Decodes
    <3>5. G!Pull(bits, state(n), ds[j]) = state(j)
      BY <1>3, <3>2
    <3>6. QED
      BY <3>3, <3>4, <3>5 DEF j
  <2>3. g[N] = state(N)
    <3> HIDE DEF S
    <3>1. \A n \in Nat : n \in S
      BY <2>1, <2>2, NumbersFollow
    <3>2. QED
      BY <1>2, <3>1 DEF S
  <2>4. QED
    BY <1>2, <2>3 DEF state
<1>8. QED
  BY <1>6, <1>7

-----------------------------------------------------------------------------
(* The command is known by its first byte, or its first two. *)
LEMMA FirstPiece ==
    ASSUME NEW es, NEW args, NEW bits, Len(es) \in Nat, 1 \in 1 .. Len(es),
           LaidOut(es, args, bits)
    PROVE  Lies(bits, 0, G!Packed(es[1], args)) /\ PacksIt(es[1], args)
<1> DEFINE N == Len(es)
           pieces == Pieces(es, args)
<1>1. PICK f : ChainOfBits(f, pieces, N) /\ bits = f[N]
  BY DEF LaidOut
<1>2. f[0] = << >>
  <2>1. 0 \in 0 .. N
    OBVIOUS
  <2>2. QED
    BY <1>1, <2>1 DEF ChainOfBits, Chain
<1>3. pieces[1] = G!Packed(es[1], args)
  BY DEF Pieces
<1> HIDE DEF pieces
<1>4. Lies(bits, Len(f[1 - 1]), pieces[1])
  BY <1>1, ChainHolds
<1>5. 1 - 1 = 0 /\ Len(<< >>) = 0
  OBVIOUS
<1>6. Lies(bits, 0, pieces[1])
  BY <1>2, <1>4, <1>5
<1>7. QED
  BY <1>3, <1>6 DEF LaidOut

(* The identifier of eight bits is the first byte. *)
LEMMA CommandByte ==
    ASSUME NEW es, NEW args, NEW bits \in Bits, Len(es) \in Nat, 1 \in 1 .. Len(es),
           LaidOut(es, args, bits), NEW id \in Nat, es[1] = G!Const(id, 8)
    PROVE  G!ValueOf(SubSeq(bits, 1, 8)) = id
<1> DEFINE piece == G!Packed(es[1], args)
<1>1. Lies(bits, 0, piece) /\ PacksIt(es[1], args)
  BY FirstPiece
<1>2. es[1].kind = "const" /\ es[1].value = id /\ es[1].width = 8
  <2>1. /\ G!Const(id, 8).kind = "const" /\ G!Const(id, 8).value = id
        /\ G!Const(id, 8).width = 8
    BY DEF G!Const
  <2>2. QED
    BY <2>1
<1>3. piece = G!BitsOf(id, 8) /\ Len(piece) = 8 /\ G!Shifted(id, 8) = 0 /\ piece \in Bits
  BY <1>1, <1>2 DEF PacksIt
<1> HIDE DEF piece
<1>4. G!ValueOf(piece) = id
  BY <1>3, ValueOfBits
<1>5. SubSeq(bits, 0 + 1, 0 + Len(piece)) = piece
  BY <1>1, <1>3, CutOut
<1>6. 0 + 1 = 1 /\ 0 + Len(piece) = 8
  BY <1>3
<1>7. QED
  BY <1>4, <1>5, <1>6

(* Four bits at the front are the high half of the first byte. *)
LEMMA HighBits ==
    ASSUME NEW b \in Bits, Len(b) = 8, NEW p \in Bits, Len(p) = 4,
           \A k \in 1 .. 4 : b[k] = p[k]
    PROVE  G!ValueOf(b) \div 16 = G!ValueOf(p)
<1> DEFINE f == CHOOSE f : Sums(b, f)
           g == CHOOSE g : Sums(p, g)
<1>1. Sums(b, f) /\ G!ValueOf(b) = f[8]
  <2>1. Sums(b, f)
    BY SumsExist
  <2>2. G!ValueOf(b) = f[Len(b)]
    BY DEF G!ValueOf, Sums
  <2>3. QED
    BY <2>1, <2>2
<1>2. Sums(p, g) /\ G!ValueOf(p) = g[4]
  <2>1. Sums(p, g)
    BY SumsExist
  <2>2. G!ValueOf(p) = g[Len(p)]
    BY DEF G!ValueOf, Sums
  <2>3. QED
    BY <2>1, <2>2
<1> HIDE DEF f, g
<1>3. /\ f[0] = 0 /\ f[1] = 2 * f[0] + b[1] /\ f[2] = 2 * f[1] + b[2]
      /\ f[3] = 2 * f[2] + b[3] /\ f[4] = 2 * f[3] + b[4] /\ f[5] = 2 * f[4] + b[5]
      /\ f[6] = 2 * f[5] + b[6] /\ f[7] = 2 * f[6] + b[7] /\ f[8] = 2 * f[7] + b[8]
  BY <1>1 DEF Sums
<1>4. /\ g[0] = 0 /\ g[1] = 2 * g[0] + p[1] /\ g[2] = 2 * g[1] + p[2]
      /\ g[3] = 2 * g[2] + p[3] /\ g[4] = 2 * g[3] + p[4]
  BY <1>2 DEF Sums
<1>5. /\ b[1] \in 0 .. 1 /\ b[2] \in 0 .. 1 /\ b[3] \in 0 .. 1 /\ b[4] \in 0 .. 1
      /\ b[5] \in 0 .. 1 /\ b[6] \in 0 .. 1 /\ b[7] \in 0 .. 1 /\ b[8] \in 0 .. 1
  <2>1. \A i \in 1 .. 8 : b[i] \in {0, 1}
    BY ElementOfSeq DEF Bits
  <2>2. QED
    BY <2>1
<1>6. b[1] = p[1] /\ b[2] = p[2] /\ b[3] = p[3] /\ b[4] = p[4]
  OBVIOUS
<1>7. f[4] = g[4] /\ f[4] \in Nat
  <2>1. f[1] = b[1] /\ g[1] = b[1] /\ f[1] \in Nat
    BY <1>3, <1>4, <1>5, <1>6
  <2>2. f[2] = g[2] /\ f[2] \in Nat
    BY <1>3, <1>4, <1>5, <1>6, <2>1
  <2>3. f[3] = g[3] /\ f[3] \in Nat
    BY <1>3, <1>4, <1>5, <1>6, <2>2
  <2>4. QED
    BY <1>3, <1>4, <1>5, <1>6, <2>3
<1>8. \E r \in 0 .. 15 : f[8] = 16 * f[4] + r
  <2> DEFINE r == 8 * b[5] + 4 * b[6] + 2 * b[7] + b[8]
  <2>1. r \in 0 .. 15
    BY <1>5
  <2>2. f[8] = 16 * f[4] + r
    BY <1>3, <1>5, <1>7
  <2>3. QED
    BY <2>1, <2>2
<1>9. \A x \in Nat, r \in 0 .. 15 : (16 * x + r) \div 16 = x
  OBVIOUS
<1>10. f[8] \div 16 = g[4]
  BY <1>7, <1>8, <1>9
<1>11. QED
  BY <1>1, <1>2, <1>10

(* A select has ten for its first four bits. *)
LEMMA SelectByte ==
    ASSUME NEW args, NEW bits \in Bits, LaidOut(G!select_command_encode, args, bits)
    PROVE  G!ValueOf(SubSeq(bits, 1, 8)) \div 16 = 10
<1> DEFINE es == G!select_command_encode
           pieces == Pieces(es, args)
           N == Len(es)
<1>1. N = 8 /\ es[1] = G!Const(10, 4) /\ es[2] = G!Field("target", 3)
      /\ es[3] = G!Field("action", 3)
  BY DEF G!select_command_encode
<1>2. /\ es[1].kind = "const" /\ es[1].value = 10 /\ es[1].width = 4
      /\ es[2].kind = "field" /\ es[2].width = 3 /\ es[3].kind = "field" /\ es[3].width = 3
  <2>1. /\ G!Const(10, 4).kind = "const" /\ G!Const(10, 4).value = 10
        /\ G!Const(10, 4).width = 4 /\ G!Field("target", 3).kind = "field"
        /\ G!Field("target", 3).width = 3 /\ G!Field("action", 3).kind = "field"
        /\ G!Field("action", 3).width = 3
    BY DEF G!Const, G!Field
  <2>2. QED
    BY <1>1, <2>1
<1> HIDE DEF es
<1>3. \A n \in 1 .. N : PacksIt(es[n], args)
  BY DEF LaidOut, es
<1>4. PICK f : ChainOfBits(f, pieces, N) /\ bits = f[N]
  BY DEF LaidOut, es
<1>5. pieces[1] = G!Packed(es[1], args) /\ pieces[2] = G!Packed(es[2], args)
      /\ pieces[3] = G!Packed(es[3], args)
  BY <1>1 DEF Pieces
<1>6. PacksIt(es[1], args) /\ PacksIt(es[2], args) /\ PacksIt(es[3], args)
  BY <1>1, <1>3
<1> HIDE DEF pieces, N
<1>7. /\ pieces[1] \in Bits /\ Len(pieces[1]) = 4 /\ pieces[1] = G!BitsOf(10, 4)
      /\ G!Shifted(10, 4) = 0 /\ Len(pieces[2]) = 3 /\ Len(pieces[3]) = 3
  BY <1>2, <1>5, <1>6 DEF PacksIt
<1>8. G!ValueOf(pieces[1]) = 10
  BY <1>7, ValueOfBits
<1>9. Lies(bits, 0, pieces[1]) /\ 8 <= Len(bits)
  <2>1. Lies(bits, 0, G!Packed(es[1], args))
    <3>1. LaidOut(es, args, bits) /\ Len(es) \in Nat /\ 1 \in 1 .. Len(es)
      BY <1>1 DEF es, N
    <3>2. QED
      BY <3>1, FirstPiece
  <2>2. Adds(f, pieces, 1) /\ Adds(f, pieces, 2) /\ Adds(f, pieces, 3)
    BY <1>1, <1>4, ChainStep
  <2>3. Len(f[3]) <= Len(f[N])
    BY <1>1, <1>4, ChainHolds
  <2>4. /\ 1 - 1 = 0 /\ 2 - 1 = 1 /\ 3 - 1 = 2
    OBVIOUS
  <2>5. /\ Len(f[0]) \in Nat /\ Len(f[1]) = Len(f[0]) + 4
        /\ Len(f[2]) = Len(f[1]) + 3 /\ Len(f[3]) = Len(f[2]) + 3
    BY <1>7, <2>2, <2>4 DEF Adds
  <2>6. Len(bits) \in Nat
    BY LenProperties DEF Bits
  <2>7. 8 <= Len(bits)
    BY <1>4, <2>3, <2>5, <2>6
  <2>8. QED
    BY <1>5, <2>1, <2>7
<1> DEFINE b == SubSeq(bits, 1, 8)
<1>10. b \in Bits /\ Len(b) = 8 /\ \A k \in 1 .. 8 : b[k] = bits[k]
  <2>1. Len(bits) \in Nat
    BY LenProperties DEF Bits
  <2>2. \A i \in 1 .. 8 : bits[i] \in {0, 1}
    <3>1. \A i \in 1 .. 8 : i \in 1 .. Len(bits)
      BY <1>9, <2>1
    <3>2. QED
      BY <3>1, ElementOfSeq DEF Bits
  <2>3. /\ b \in Seq({0, 1}) /\ Len(b) = (IF 1 <= 8 THEN 8 - 1 + 1 ELSE 0)
        /\ \A i \in 1 .. 8 - 1 + 1 : b[i] = bits[1 + i - 1]
    BY <2>2, SubSeqProperties
  <2>4. 8 - 1 + 1 = 8 /\ 1 <= 8 /\ \A k \in 1 .. 8 : 1 + k - 1 = k
    OBVIOUS
  <2> HIDE DEF b
  <2>5. QED
    BY <2>3, <2>4 DEF Bits
<1> HIDE DEF b
<1>11. \A k \in 1 .. 4 : b[k] = pieces[1][k]
  <2> TAKE k \in 1 .. 4
  <2>1. k \in 1 .. 8 /\ 0 + k = k
    OBVIOUS
  <2>2. bits[0 + k] = pieces[1][k]
    BY <1>7, <1>9 DEF Lies
  <2>3. QED
    BY <1>10, <2>1, <2>2
<1>12. G!ValueOf(b) \div 16 = G!ValueOf(pieces[1])
  BY <1>7, <1>10, <1>11, HighBits
<1>13. QED
  BY <1>8, <1>12 DEF b

(* MarginRead has an identifier of two bytes. *)
LEMMA MarginReadBytes ==
    ASSUME NEW args, NEW bits \in Bits, LaidOut(G!margin_read_command_encode, args, bits)
    PROVE  /\ G!ValueOf(SubSeq(bits, 1, 8)) = 224
           /\ G!ValueOf(SubSeq(bits, 1, 16)) = 256 * 224 + 1
<1> DEFINE es == G!margin_read_command_encode
           word == 256 * 224 + 1
<1>1. Len(es) = 5 /\ es[1] = G!Const(57345, 16) /\ word = 57345
  BY DEF G!margin_read_command_encode
<1>2. es[1].kind = "const" /\ es[1].value = word /\ es[1].width = 16
  <2>1. G!Const(word, 16).kind = "const" /\ G!Const(word, 16).value = word
        /\ G!Const(word, 16).width = 16
    BY DEF G!Const
  <2> HIDE DEF es, word
  <2>2. es[1] = G!Const(word, 16)
    BY <1>1
  <2>3. QED
    BY <2>1, <2>2
<1> HIDE DEF es
<1>3. Lies(bits, 0, G!Packed(es[1], args)) /\ PacksIt(es[1], args)
  <2>1. LaidOut(es, args, bits) /\ Len(es) \in Nat /\ 1 \in 1 .. Len(es)
    BY <1>1 DEF es
  <2>2. QED
    BY <2>1, FirstPiece
<1>4. G!Packed(es[1], args) = G!BitsOf(word, 16)
  <2> HIDE DEF word
  <2>1. QED
    BY <1>2, <1>3 DEF PacksIt
<1>5. G!BitsOf(224, 8) \o G!BitsOf(1, 8) = G!BitsOf(word, 16)
  <2>1. \A a \in 0 .. 255, b \in 0 .. 255 :
            G!BitsOf(a, 8) \o G!BitsOf(b, 8) = G!BitsOf(256 * a + b, 16)
    BY TwoBytes, Zenon
  <2>2. 224 \in 0 .. 255 /\ 1 \in 0 .. 255
    OBVIOUS
  <2>3. QED
    BY <2>1, <2>2, Zenon
<1>6. 128 + 96 = 224 /\ 96 \in 0 .. 127 /\ 1 \in 0 .. 127 /\ 0 \in Nat
  OBVIOUS
<1> HIDE DEF word
<1>7. Lies(bits, 0, G!BitsOf(128 + 96, 8) \o G!BitsOf(1, 8))
  BY <1>3, <1>4, <1>5, <1>6
<1>8. ReadAsTwo(bits, 0, 96, 1)
  <2> DEFINE a == 96
             b == 1
             from == 0
  <2>1. a \in 0 .. 127 /\ b \in 0 .. 127 /\ from \in Nat
    OBVIOUS
  <2>2. Lies(bits, from, G!BitsOf(128 + a, 8) \o G!BitsOf(b, 8))
    BY <1>7, Zenon
  <2> HIDE DEF a, b, from
  <2>3. ReadAsTwo(bits, from, a, b)
    BY <2>1, <2>2, TwoBytesAreRead, Zenon
  <2>4. QED
    BY <2>3 DEF a, b, from
<1>9. G!bit_unpack(bits, 0, 8) = 224 /\ G!bit_unpack(bits, 0, 16) = word
  BY <1>6, <1>8 DEF ReadAsTwo, word
<1>10. 0 + 1 = 1 /\ 0 + 8 = 8 /\ 0 + 16 = 16
  OBVIOUS
<1>11. QED
  BY <1>9, <1>10 DEF G!bit_unpack, word

(* The kind of a command is told from its first bits. *)
LEMMA CommandIsKnown ==
    ASSUME NEW c \in G!Commands, NEW args, NEW bits \in Bits,
           LaidOut(G!gen2_command_encode_table[c], args, bits)
    PROVE  G!decode_command_type(bits) = IF c = "Gen2Kill_2" THEN "Gen2Kill_1" ELSE c
<1> DEFINE es == G!gen2_command_encode_table[c]
           id == G!ValueOf(SubSeq(bits, 1, 8))
<1>1. ASSUME NEW v \in Nat, Len(es) \in Nat, 1 \in 1 .. Len(es), es[1] = G!Const(v, 8)
      PROVE  id = v
  <2> HIDE DEF es
  <2>1. LaidOut(es, args, bits)
    BY DEF es
  <2>2. QED
    BY <1>1, <2>1, CommandByte
<1>2. CASE c = "Gen2Select"
  <2>1. es = G!select_command_encode
    BY <1>2 DEF G!gen2_command_encode_table
  <2>2. id \div 16 = 10
    BY <2>1, SelectByte
  <2>3. QED
    BY <1>2, <2>2 DEF G!decode_command_type
<1>3. CASE c = "Gen2Read"
  <2>1. es = G!read_command_encode
    BY <1>3 DEF G!gen2_command_encode_table
  <2>2. Len(es) = 4 /\ es[1] = G!Const(194, 8)
    BY <2>1 DEF G!read_command_encode
  <2>3. id = 194
    <3> HIDE DEF es, id
    <3>1. QED
      BY <1>1, <2>2
  <2>4. QED
    BY <1>3, <2>3 DEF G!decode_command_type
<1>4. CASE c = "Gen2Write"
  <2>1. es = G!write_command_encode
    BY <1>4 DEF G!gen2_command_encode_table
  <2>2. Len(es) = 4 /\ es[1] = G!Const(195, 8)
    BY <2>1 DEF G!write_command_encode
  <2>3. id = 195
    <3> HIDE DEF es, id
    <3>1. QED
      BY <1>1, <2>2
  <2>4. QED
    BY <1>4, <2>3 DEF G!decode_command_type
<1>5. CASE c = "Gen2Kill_1"
  <2>1. es = G!kill_command_encode
    BY <1>5 DEF G!gen2_command_encode_table
  <2>2. Len(es) = 3 /\ es[1] = G!Const(196, 8)
    BY <2>1 DEF G!kill_command_encode
  <2>3. id = 196
    <3> HIDE DEF es, id
    <3>1. QED
      BY <1>1, <2>2
  <2>4. QED
    BY <1>5, <2>3 DEF G!decode_command_type
<1>6. CASE c = "Gen2Kill_2"
  <2>1. es = G!kill_command_encode
    BY <1>6 DEF G!gen2_command_encode_table
  <2>2. Len(es) = 3 /\ es[1] = G!Const(196, 8)
    BY <2>1 DEF G!kill_command_encode
  <2>3. id = 196
    <3> HIDE DEF es, id
    <3>1. QED
      BY <1>1, <2>2
  <2>4. QED
    BY <1>6, <2>3 DEF G!decode_command_type
<1>7. CASE c = "Gen2Lock"
  <2>1. es = G!lock_command_encode
    BY <1>7 DEF G!gen2_command_encode_table
  <2>2. Len(es) = 21 /\ es[1] = G!Const(197, 8)
    BY <2>1, LockSteps DEF G!lock_command_encode
  <2>3. id = 197
    <3> HIDE DEF es, id
    <3>1. QED
      BY <1>1, <2>2
  <2>4. QED
    BY <1>7, <2>3 DEF G!decode_command_type
<1>8. CASE c = "Gen2Access"
  <2>1. es = G!access_command_encode
    BY <1>8 DEF G!gen2_command_encode_table
  <2>2. Len(es) = 2 /\ es[1] = G!Const(198, 8)
    BY <2>1 DEF G!access_command_encode
  <2>3. id = 198
    <3> HIDE DEF es, id
    <3>1. QED
      BY <1>1, <2>2
  <2>4. QED
    BY <1>8, <2>3 DEF G!decode_command_type
<1>9. CASE c = "Gen2BlockWrite"
  <2>1. es = G!block_write_command_encode
    BY <1>9 DEF G!gen2_command_encode_table
  <2>2. Len(es) = 5 /\ es[1] = G!Const(199, 8)
    BY <2>1 DEF G!block_write_command_encode
  <2>3. id = 199
    <3> HIDE DEF es, id
    <3>1. QED
      BY <1>1, <2>2
  <2>4. QED
    BY <1>9, <2>3 DEF G!decode_command_type
<1>10. CASE c = "Gen2BlockPermalock"
  <2>1. es = G!block_permalock_command_encode
    BY <1>10 DEF G!gen2_command_encode_table
  <2>2. Len(es) = 7 /\ es[1] = G!Const(201, 8)
    BY <2>1 DEF G!block_permalock_command_encode
  <2>3. id = 201
    <3> HIDE DEF es, id
    <3>1. QED
      BY <1>1, <2>2
  <2>4. QED
    BY <1>10, <2>3 DEF G!decode_command_type
<1>11. CASE c = "Gen2Authenticate"
  <2>1. es = G!authenticate_command_encode
    BY <1>11 DEF G!gen2_command_encode_table
  <2>2. Len(es) = 7 /\ es[1] = G!Const(213, 8)
    BY <2>1 DEF G!authenticate_command_encode
  <2>3. id = 213
    <3> HIDE DEF es, id
    <3>1. QED
      BY <1>1, <2>2
  <2>4. QED
    BY <1>11, <2>3 DEF G!decode_command_type
<1>12. CASE c = "Gen2MarginRead"
  <2>1. es = G!margin_read_command_encode
    BY <1>12 DEF G!gen2_command_encode_table
  <2>2. id = 224 /\ G!ValueOf(SubSeq(bits, 1, 16)) = 256 * 224 + 1
    BY <2>1, MarginReadBytes
  <2>3. 256 * 224 + 1 = 57345 /\ 224 \div 16 = 14
    OBVIOUS
  <2>4. QED
    BY <1>12, <2>2, <2>3 DEF G!decode_command_type, G!le_bytes_to_uint16
<1>13. QED
  BY <1>2, <1>3, <1>4, <1>5, <1>6, <1>7, <1>8, <1>9, <1>10, <1>11, <1>12
     DEF G!Commands, G!gen2_command_encode_table

(* Decoding keeps what kind of command was encoded, and gives back the     *)
(* command itself unless it is one whose arguments are lost in the bits:   *)
(* for every command of the tables and every value of its arguments        *)
(* (gen2_commands.c, encode_gen2_command() and decode_gen2_command()).     *)
THEOREM DecodingInvertsEncoding ==
    ASSUME NEW spec, G!IsTyped(spec), G!encode_gen2_command(spec) # << >>, NEW rep_len
    PROVE  /\ G!get_is_select(G!decode_gen2_command(G!encode_gen2_command(spec), rep_len).command)
                = G!get_is_select(spec.command)
           /\ G!IsExact(spec) =>
                G!decode_gen2_command(G!encode_gen2_command(spec), rep_len) = spec
<1> DEFINE bits == G!encode_gen2_command(spec)
           c == spec.command
           es == G!gen2_command_encode_table[c]
           args == spec.args
           decoded == G!decode_gen2_command(bits, rep_len)
<1>1. bits \in Bits /\ LaidOut(es, args, bits)
  BY EncodedIsLaidOut
<1>2. c \in G!Commands
  BY DEF G!IsTyped
<1> HIDE DEF bits
<1>3. G!decode_command_type(bits) = IF c = "Gen2Kill_2" THEN "Gen2Kill_1" ELSE c
  BY <1>1, <1>2, CommandIsKnown
<1>4. G!get_is_select(decoded.command) = G!get_is_select(c)
  <2>1. decoded.command = G!decode_command_type(bits)
    BY DEF G!decode_gen2_command
  <2> HIDE DEF decoded
  <2>2. QED
    BY <1>3, <2>1 DEF G!get_is_select
<1>5. ASSUME G!IsExact(spec) PROVE decoded = spec
  <2> DEFINE ds == G!gen2_command_decode_table[c]
             state == CHOOSE g : Decodes(g, bits, ds, rep_len)
             got == state[Len(ds)].args
  <2>1. c # "Gen2Kill_2" /\ c # "Gen2Authenticate"
    BY <1>5 DEF G!IsExact
  <2>2. StepsMatch(es, ds)
    BY <1>2, <2>1, TablesMatch
  <2>3. \A n \in 1 .. Len(es) : IsShort(es[n], args)
    <3>1. DOMAIN es = 1 .. Len(es)
      BY <2>2 DEF StepsMatch
    <3>2. \A n \in 1 .. Len(es) : PacksIt(es[n], args)
      BY <1>1 DEF LaidOut
    <3>3. ASSUME NEW n \in 1 .. Len(es) PROVE IsShort(es[n], args)
      <4>1. /\ es[n].kind = "ebv" => args[es[n].name] < 16384 /\ args[es[n].name] \in Nat
            /\ es[n].kind = "span" => Len(args[es[n].name]) < 256
        BY <1>5, <3>1, <3>2 DEF G!IsExact, PacksIt
      <4>2. \A v \in Nat : v < 16384 => v \div 128 < 128
        OBVIOUS
      <4>3. es[n].kind = "ebv" => args[es[n].name] \div 128 < 128
        <5> DEFINE v == args[es[n].name]
        <5> HIDE DEF v
        <5>1. es[n].kind = "ebv" => v < 16384 /\ v \in Nat
          BY <4>1 DEF v
        <5>2. es[n].kind = "ebv" => v \div 128 < 128
          BY <4>2, <5>1
        <5>3. QED
          BY <5>2 DEF v
      <4>4. QED
        BY <4>1, <4>3 DEF IsShort
    <3>4. QED
      BY <3>3
  <2>4. G!decode_command_type(bits) = c
    BY <1>3, <2>1
  <2>5. decoded = [command |-> c, args |-> [a \in DOMAIN got \ {"rep_len_bits"} |-> got[a]]]
    BY <2>1, <2>4 DEF G!decode_gen2_command, Decodes
  <2> HIDE DEF es, ds, args, state, decoded, c
  <2>6. Decodes(state, bits, ds, rep_len)
    BY <1>1, <2>2, <2>3, DecoderRecovers DEF state
  <2>7. got = Got(es, args, rep_len, Len(es))
    BY <1>1, <2>2, <2>3, <2>6, DecoderRecovers
  <2> DEFINE names == Named(es, Len(es))
  <2>8. "rep_len_bits" \notin names
    BY <2>2 DEF Named, StepsMatch, Answers
  <2>9. DOMAIN got \ {"rep_len_bits"} = names /\ \A a \in names : got[a] = args[a]
    <3> HIDE DEF names
    <3>1. DOMAIN got = names \cup {"rep_len_bits"}
          /\ \A a \in names : a # "rep_len_bits" => got[a] = args[a]
      BY <2>7 DEF Got, names
    <3> HIDE DEF got
    <3>2. QED
      BY <2>8, <3>1
  <2>10. names = DOMAIN args
    <3>1. \A n \in 1 .. Len(es) : es[n].kind # "const" => es[n].name \in DOMAIN args
      BY <1>1 DEF LaidOut, PacksIt
    <3>2. names \subseteq DOMAIN args
      BY <3>1 DEF Named
    <3>3. DOMAIN es = 1 .. Len(es)
      BY <2>2 DEF StepsMatch
    <3>4. DOMAIN args \subseteq {es[n].name : n \in {n \in DOMAIN es : es[n].kind # "const"}}
      BY <2>1 DEF G!IsTyped, es, args, c
    <3>5. DOMAIN args \subseteq names
      BY <3>3, <3>4 DEF Named
    <3>6. QED
      BY <3>2, <3>5
  <2>11. args = [a \in DOMAIN args |-> args[a]] /\ spec = [command |-> c, args |-> args]
    BY DEF G!IsTyped, args, c
  <2>12. [a \in DOMAIN got \ {"rep_len_bits"} |-> got[a]] = args
    <3> HIDE DEF names, got
    <3>1. [a \in names |-> got[a]] = [a \in DOMAIN args |-> args[a]]
      BY <2>9, <2>10
    <3>2. QED
      BY <2>9, <2>11, <3>1
  <2> HIDE DEF got
  <2>13. QED
    BY <2>5, <2>11, <2>12
<1>6. QED
  BY <1>4, <1>5 DEF bits, decoded, c

-----------------------------------------------------------------------------
(* The list of the host, and the chip.                                     *)
Specs == DOMAIN encoded
Slots == G!Slots

(* The commands of the application, and their bits. *)
EncodedOnce ==
    /\ Specs \in Applications
    /\ \A spec \in Specs : encoded[spec] = G!encode_gen2_command(spec)

(* A slot of the list holds what was meant for it, up to what decoding     *)
(* loses.                                                                  *)
SlotIsMeant(slot, mean) ==
    /\ slot.valid \in BOOLEAN
    /\ mean = G!Meant(mean.spec, mean.id, mean.again)
    /\ slot.valid =>
        /\ mean.spec \in Specs
        /\ slot.bits = encoded[mean.spec] /\ slot.bits # << >>
        /\ G!get_is_select(slot.spec.command) = G!get_is_select(mean.spec.command)
        /\ ~mean.again \/ G!IsExact(mean.spec) => slot.spec = mean.spec
        /\ ~mean.again => slot.id = mean.id
ListIsMeant(list, means) ==
    /\ list = [i \in Slots |-> list[i]]
    /\ means = [i \in Slots |-> means[i]]
    /\ \A i \in Slots : SlotIsMeant(list[i], means[i])

(* So does a slot of the chip.  d stands for its registers and buffer. *)
ChipSlotIsMeant(d, i, mean) ==
    d.lengths[i] # 0 =>
        /\ mean.spec \in Specs
        /\ d.lengths[i] = Len(encoded[mean.spec])
        /\ SubSeq(d.buffer, 8 * d.offsets[i] + 1, 8 * d.offsets[i] + d.lengths[i])
                = encoded[mean.spec]
        /\ ~mean.again => d.ids[i] = mean.id
        /\ ~mean.again \/ G!IsExact(mean.spec) =>
                d.controls[i] = G!get_gen2_tx_control_config(mean.spec)
Shape(d) ==
    d = [offsets |-> d.offsets, lengths |-> d.lengths, ids |-> d.ids,
         controls |-> d.controls, buffer |-> d.buffer]
ChipIsMeant ==
    /\ Shape(device)
    /\ held = [i \in Slots |-> held[i]]
    /\ \A i \in Slots : held[i] = G!Meant(held[i].spec, held[i].id, held[i].again)
    /\ ~torn => \A i \in Slots : ChipSlotIsMeant(device, i, held[i])

MaskTypes ==
    enables \in [G!Masks -> SUBSET Slots] /\ checked \in SUBSET G!Masks

Gen2Inv ==
    /\ EncodedOnce /\ ListIsMeant(local, meant) /\ ChipIsMeant
    /\ MaskTypes /\ G!MasksNameTheirKind /\ G!SentAlone

-----------------------------------------------------------------------------
(* The constants of the manager. *)
LEMMA SlotsAreNumbers ==
    /\ MaxTxCommandCount \in Nat \ {0} /\ TxBufferBytes \in Nat \ {0}
    /\ Slots = 0 .. MaxTxCommandCount - 1 /\ Slots \subseteq Nat
BY HostLibraryConstants DEF G!ManagerConstants, G!Slots, Slots

(* What the codec does for the application's commands. *)
LEMMA CodedCommand ==
    ASSUME EncodedOnce, NEW spec \in Specs
    PROVE  /\ encoded[spec] \in Bits
           /\ encoded[spec] # << >> => \A rep_len \in RepLens :
                /\ G!get_is_select(G!decode_gen2_command(encoded[spec], rep_len).command)
                        = G!get_is_select(spec.command)
                /\ G!IsExact(spec) =>
                        G!decode_gen2_command(encoded[spec], rep_len) = spec
<1>1. G!IsTyped(spec) /\ encoded[spec] = G!encode_gen2_command(spec)
  BY CommandsAreTyped DEF EncodedOnce
<1>2. encoded[spec] \in Bits
  BY <1>1, EncodedIsLaidOut
<1>3. QED
  BY <1>1, <1>2, DecodingInvertsEncoding

(* The first free slot is free. *)
LEMMA FirstFreeIsFree ==
    ASSUME NEW list, G!FreeSlots(list) # {}
    PROVE  /\ G!FirstFree(list) \in Slots
           /\ ~list[G!FirstFree(list)].valid
<1>1. G!FreeSlots(list) \in SUBSET Nat
  BY SlotsAreNumbers DEF G!FreeSlots, Slots
<1>2. \E i \in G!FreeSlots(list) : \A j \in G!FreeSlots(list) : i <= j
  BY <1>1, LeastNumber
<1>3. G!FirstFree(list) \in G!FreeSlots(list)
  BY <1>2 DEF G!FirstFree
<1>4. QED
  BY <1>3 DEF G!FreeSlots, Slots

(* An empty list holds nothing. *)
LEMMA EmptyIsMeant ==
    ASSUME NEW list, NEW means, ListIsMeant(list, means)
    PROVE  ListIsMeant([i \in Slots |-> G!Free], means)
BY DEF ListIsMeant, SlotIsMeant, G!Free

(* Appending gives a free slot a command and its meaning. *)
LEMMA SlotTaken ==
    ASSUME NEW list, NEW means, ListIsMeant(list, means), NEW index \in Slots,
           NEW slot, NEW mean, SlotIsMeant(slot, mean)
    PROVE  ListIsMeant([list EXCEPT ![index] = slot], [means EXCEPT ![index] = mean])
<1> DEFINE longer == [list EXCEPT ![index] = slot]
           further == [means EXCEPT ![index] = mean]
<1>1. longer = [i \in Slots |-> IF i = index THEN slot ELSE list[i]]
  BY DEF ListIsMeant
<1>2. further = [i \in Slots |-> IF i = index THEN mean ELSE means[i]]
  BY DEF ListIsMeant
<1> HIDE DEF longer, further
<1>3. \A i \in Slots : SlotIsMeant(longer[i], further[i])
  BY <1>1, <1>2 DEF ListIsMeant
<1>4. longer = [i \in Slots |-> longer[i]] /\ further = [i \in Slots |-> further[i]]
  BY <1>1, <1>2
<1>5. ListIsMeant(longer, further)
  BY <1>3, <1>4 DEF ListIsMeant
<1>6. QED
  BY <1>5 DEF longer, further

(* The first free slot, filled with a command, is as meant. *)
LEMMA NewSlot ==
    ASSUME NEW spec \in Specs, NEW id, encoded[spec] # << >>
    PROVE  SlotIsMeant(G!Command(encoded[spec], spec, id), G!Meant(spec, id, FALSE))
BY DEF SlotIsMeant, G!Command, G!Meant

(* A slot that was filled by decoding holds what was meant. *)
LEMMA DecodedSlot ==
    ASSUME EncodedOnce, NEW spec \in Specs, NEW id, NEW other, encoded[spec] # << >>,
           NEW rep_len \in RepLens
    PROVE  SlotIsMeant(G!Command(encoded[spec],
                                 G!decode_gen2_command(encoded[spec], rep_len), id),
                       G!Meant(spec, other, TRUE))
<1> DEFINE again == G!decode_gen2_command(encoded[spec], rep_len)
<1>1. /\ G!get_is_select(again.command) = G!get_is_select(spec.command)
      /\ G!IsExact(spec) => again = spec
  BY CodedCommand
<1> HIDE DEF again
<1>2. SlotIsMeant(G!Command(encoded[spec], again, id), G!Meant(spec, other, TRUE))
  BY <1>1 DEF SlotIsMeant, G!Command, G!Meant
<1>3. QED
  BY <1>2 DEF again

(* A list to which a command was appended is as meant. *)
LEMMA AppendedIsMeant ==
    ASSUME NEW list, NEW means, ListIsMeant(list, means), NEW spec \in Specs, NEW id,
           G!CanAppend(list, spec)
    PROVE  ListIsMeant(G!Appended(list, spec, id),
                       [means EXCEPT ![G!FirstFree(list)] = G!Meant(spec, id, FALSE)])
<1>1. G!FirstFree(list) \in Slots
  BY FirstFreeIsFree DEF G!CanAppend
<1>2. SlotIsMeant(G!Command(encoded[spec], spec, id), G!Meant(spec, id, FALSE))
  BY NewSlot DEF G!CanAppend
<1>3. QED
  BY <1>1, <1>2, SlotTaken DEF G!Appended

-----------------------------------------------------------------------------
(* The offsets of the slots: the recursion of BytesBefore has a solution.  *)
Counts(list, f, m) ==
    f = [i \in 0 .. m |-> IF i = 0 THEN 0 ELSE f[i - 1] + G!BytesOf(list[i - 1])]

(* The bytes before a slot, counted one slot further. *)
LEMMA CountsGoOn ==
    ASSUME NEW list, NEW m \in Nat, NEW f, Counts(list, f, m)
    PROVE  \E g : Counts(list, g, m + 1)
<1> DEFINE g == [i \in 0 .. m + 1 |-> IF i = m + 1 THEN f[m] + G!BytesOf(list[m]) ELSE f[i]]
<1>1. ASSUME NEW i \in 0 .. m + 1
      PROVE  g[i] = IF i = 0 THEN 0 ELSE g[i - 1] + G!BytesOf(list[i - 1])
  <2>1. CASE i = m + 1
    <3>1. i - 1 = m /\ m \in 0 .. m + 1 /\ m # m + 1 /\ i # 0
      BY <2>1
    <3>2. g[i] = f[m] + G!BytesOf(list[m]) /\ g[m] = f[m]
      BY <2>1, <3>1
    <3> HIDE DEF g
    <3>3. QED
      BY <3>1, <3>2
  <2>2. CASE i # m + 1
    <3>1. i \in 0 .. m /\ (i # 0 => i - 1 \in 0 .. m + 1 /\ i - 1 # m + 1)
      BY <2>2
    <3>2. g[i] = f[i] /\ (i # 0 => g[i - 1] = f[i - 1])
      BY <2>2, <3>1
    <3> HIDE DEF g
    <3>3. f[i] = IF i = 0 THEN 0 ELSE f[i - 1] + G!BytesOf(list[i - 1])
      BY <3>1 DEF Counts
    <3>4. QED
      BY <3>2, <3>3
  <2>3. QED
    BY <2>1, <2>2
<1>2. g = [i \in 0 .. m + 1 |-> g[i]]
  OBVIOUS
<1> HIDE DEF g
<1>3. Counts(list, g, m + 1)
  BY <1>1, <1>2 DEF Counts
<1>4. QED
  BY <1>3

(* There is the function that BytesBefore() chooses. *)
LEMMA CountsExist == ASSUME NEW list PROVE \A m \in Nat : \E f : Counts(list, f, m)
<1> DEFINE S == {m \in Nat : \E f : Counts(list, f, m)}
<1>1. 0 \in S
  <2> DEFINE f == [i \in 0 .. 0 |-> 0]
  <2>1. \A i \in 0 .. 0 : i = 0
    OBVIOUS
  <2>2. f = [i \in 0 .. 0 |-> IF i = 0 THEN 0 ELSE f[i - 1] + G!BytesOf(list[i - 1])]
    BY <2>1
  <2> HIDE DEF f
  <2>3. Counts(list, f, 0)
    BY <2>2 DEF Counts
  <2>4. QED
    BY <2>3
<1>2. ASSUME NEW m \in Nat, m \in S PROVE m + 1 \in S
  <2>1. \E g : Counts(list, g, m + 1)
    BY <1>2, CountsGoOn
  <2>2. QED
    BY <2>1
<1> HIDE DEF S
<1>3. \A m \in Nat : m \in S
  BY <1>1, <1>2, NumbersFollow
<1>4. QED
  BY <1>3 DEF S

(* A slot starts where the one before it ends. *)
LEMMA NextOffset ==
    ASSUME NEW list
    PROVE  /\ G!BytesBefore(list, 0) = 0
           /\ \A i \in Slots :
                G!BytesBefore(list, i + 1) = G!BytesBefore(list, i) + G!BytesOf(list[i])
<1> DEFINE f == CHOOSE f : Counts(list, f, MaxTxCommandCount)
<1>1. MaxTxCommandCount \in Nat
  BY SlotsAreNumbers
<1>2. Counts(list, f, MaxTxCommandCount)
  BY <1>1, CountsExist
<1>3. \A i : G!BytesBefore(list, i) = f[i]
  BY DEF G!BytesBefore, Counts
<1> HIDE DEF f
<1>4. \A i \in 0 .. MaxTxCommandCount :
        f[i] = IF i = 0 THEN 0 ELSE f[i - 1] + G!BytesOf(list[i - 1])
  BY <1>2 DEF Counts
<1>5. f[0] = 0
  BY <1>1, <1>4
<1>6. ASSUME NEW i \in Slots PROVE f[i + 1] = f[i] + G!BytesOf(list[i])
  <2>1. i + 1 \in 0 .. MaxTxCommandCount /\ i + 1 # 0 /\ (i + 1) - 1 = i
    BY SlotsAreNumbers
  <2> DEFINE j == i + 1
  <2>2. j \in 0 .. MaxTxCommandCount /\ j # 0 /\ j - 1 = i
    BY <2>1
  <2> HIDE DEF j
  <2>3. f[j] = f[i] + G!BytesOf(list[i])
    BY <1>4, <2>2
  <2>4. QED
    BY <2>3 DEF j
<1>7. QED
  BY <1>3, <1>5, <1>6

(* Bits are kept in whole bytes. *)
LEMMA WholeBytes ==
    ASSUME NEW n \in Nat
    PROVE  (n + 7) \div 8 \in Nat /\ n <= 8 * ((n + 7) \div 8)
OBVIOUS

(* A list of the manager takes whole bytes, and each of its slots comes    *)
(* after the slots before it.                                              *)
LEMMA BytesAreNatural ==
    ASSUME EncodedOnce, NEW list, NEW means, ListIsMeant(list, means), NEW i \in Slots
    PROVE  /\ G!BytesOf(list[i]) \in Nat
           /\ list[i].valid =>
                /\ list[i].bits \in Bits /\ Len(list[i].bits) \in Nat \ {0}
                /\ G!BytesOf(list[i]) = G!byte_size(list[i].bits)
                /\ Len(list[i].bits) <= 8 * G!BytesOf(list[i])
<1>1. CASE ~list[i].valid
  BY <1>1 DEF G!BytesOf
<1>2. CASE list[i].valid
  <2>1. list[i].bits \in Bits /\ list[i].bits # << >>
    BY <1>2, CodedCommand DEF ListIsMeant, SlotIsMeant
  <2>2. Len(list[i].bits) \in Nat \ {0}
    BY <2>1, EmptySeq, LenProperties DEF Bits
  <2> DEFINE n == Len(list[i].bits)
             m == (n + 7) \div 8
  <2>3. G!BytesOf(list[i]) = m /\ G!byte_size(list[i].bits) = m
    BY <1>2 DEF G!BytesOf, G!byte_size
  <2>4. m \in Nat /\ n <= 8 * m
    BY <2>2, WholeBytes
  <2> HIDE DEF n, m
  <2>5. QED
    BY <2>1, <2>2, <2>3, <2>4 DEF n
<1>3. QED
  BY <1>1, <1>2 DEF ListIsMeant, SlotIsMeant

(* The bytes before a slot are a number. *)
LEMMA OffsetsAreNatural ==
    ASSUME EncodedOnce, NEW list, NEW means, ListIsMeant(list, means)
    PROVE  \A j \in 0 .. MaxTxCommandCount : G!BytesBefore(list, j) \in Nat
<1> DEFINE S == {j \in Nat : j \in 0 .. MaxTxCommandCount => G!BytesBefore(list, j) \in Nat}
<1>1. 0 \in S
  BY NextOffset
<1>2. ASSUME NEW j \in Nat, j \in S PROVE j + 1 \in S
  <2>1. SUFFICES ASSUME j + 1 \in 0 .. MaxTxCommandCount
                 PROVE  G!BytesBefore(list, j + 1) \in Nat
    OBVIOUS
  <2>2. j \in Slots /\ j \in 0 .. MaxTxCommandCount
    BY <2>1, SlotsAreNumbers
  <2>3. G!BytesBefore(list, j) \in Nat /\ G!BytesOf(list[j]) \in Nat
    BY <1>2, <2>2, BytesAreNatural
  <2>4. QED
    BY <2>2, <2>3, NextOffset
<1> HIDE DEF S
<1>3. \A j \in Nat : j \in S
  BY <1>1, <1>2, NumbersFollow
<1>4. 0 .. MaxTxCommandCount \subseteq Nat
  BY SlotsAreNumbers
<1>5. QED
  BY <1>3, <1>4 DEF S

(* A slot ends where, or before, a later one begins. *)
LEMMA SlotsAreApart ==
    ASSUME EncodedOnce, NEW list, NEW means, ListIsMeant(list, means)
    PROVE  \A j \in 0 .. MaxTxCommandCount : \A i \in Slots : i < j =>
                G!BytesBefore(list, i) + G!BytesOf(list[i]) <= G!BytesBefore(list, j)
<1> DEFINE B(i) == G!BytesBefore(list, i)
           After(j) == \A i \in Slots : i < j => B(i) + G!BytesOf(list[i]) <= B(j)
           S == {j \in Nat : j \in 0 .. MaxTxCommandCount => After(j)}
<1>1. 0 \in S
  <2>1. \A i \in Slots : ~(i < 0)
    BY SlotsAreNumbers
  <2>2. QED
    BY <2>1
<1>2. ASSUME NEW j \in Nat, j \in S PROVE j + 1 \in S
  <2>1. SUFFICES ASSUME j + 1 \in 0 .. MaxTxCommandCount PROVE After(j + 1)
    OBVIOUS
  <2>2. j \in Slots /\ j \in 0 .. MaxTxCommandCount
    BY <2>1, SlotsAreNumbers
  <2>3. After(j)
    BY <1>2, <2>2
  <2>4. B(j + 1) = B(j) + G!BytesOf(list[j])
    BY <2>2, NextOffset
  <2>5. \A i \in Slots : G!BytesOf(list[i]) \in Nat
    BY BytesAreNatural
  <2>6. \A i \in 0 .. MaxTxCommandCount : B(i) \in Nat
    BY OffsetsAreNatural
  <2>7. B(j) \in Nat /\ G!BytesOf(list[j]) \in Nat
    BY <2>2, <2>5, <2>6
  <2> HIDE DEF B, S
  <2>8. \A i \in Slots : i < j + 1 => i < j \/ i = j
    BY SlotsAreNumbers
  <2>9. ASSUME NEW i \in Slots, i < j + 1 PROVE B(i) + G!BytesOf(list[i]) <= B(j + 1)
    <3>1. CASE i = j
      BY <2>4, <2>7, <3>1
    <3>2. CASE i < j
      <4>1. i \in 0 .. MaxTxCommandCount
        BY SlotsAreNumbers
      <4>2. B(i) + G!BytesOf(list[i]) <= B(j)
        BY <2>3, <3>2
      <4>3. QED
        BY <2>4, <2>5, <2>6, <2>7, <4>1, <4>2
    <3>3. QED
      BY <2>8, <2>9, <3>1, <3>2
  <2>10. QED
    BY <2>9
<1> HIDE DEF S
<1>3. \A j \in Nat : j \in S
  BY <1>1, <1>2, NumbersFollow
<1>4. 0 .. MaxTxCommandCount \subseteq Nat
  BY SlotsAreNumbers
<1>5. QED
  BY <1>3, <1>4 DEF S

-----------------------------------------------------------------------------
(* The buffer of the chip: the recursion of TxBuffer has a solution. *)
Filled(list, i, copied) ==
    IF ~list[i].valid THEN copied
    ELSE G!Copied(list[i].bits, 8 * G!BytesBefore(list, i), copied)
Fills(list, f, m) ==
    f = [i \in 0 .. m |-> IF i = 0 THEN G!Zeros(8 * TxBufferBytes)
                          ELSE Filled(list, i - 1, f[i - 1])]

(* The buffer, filled by one slot more. *)
LEMMA FillsGoOn ==
    ASSUME NEW list, NEW m \in Nat, NEW f, Fills(list, f, m)
    PROVE  \E g : Fills(list, g, m + 1)
<1> DEFINE g == [i \in 0 .. m + 1 |-> IF i = m + 1 THEN Filled(list, m, f[m]) ELSE f[i]]
<1>1. ASSUME NEW i \in 0 .. m + 1
      PROVE  g[i] = IF i = 0 THEN G!Zeros(8 * TxBufferBytes) ELSE Filled(list, i - 1, g[i - 1])
  <2>1. CASE i = m + 1
    <3>1. i - 1 = m /\ m \in 0 .. m + 1 /\ m # m + 1 /\ i # 0
      BY <2>1
    <3>2. g[i] = Filled(list, m, f[m]) /\ g[m] = f[m]
      BY <2>1, <3>1
    <3> HIDE DEF g
    <3>3. QED
      BY <3>1, <3>2
  <2>2. CASE i # m + 1
    <3>1. i \in 0 .. m /\ (i # 0 => i - 1 \in 0 .. m + 1 /\ i - 1 # m + 1)
      BY <2>2
    <3>2. g[i] = f[i] /\ (i # 0 => g[i - 1] = f[i - 1])
      BY <2>2, <3>1
    <3> HIDE DEF g
    <3>3. f[i] = IF i = 0 THEN G!Zeros(8 * TxBufferBytes) ELSE Filled(list, i - 1, f[i - 1])
      BY <3>1 DEF Fills
    <3>4. QED
      BY <3>2, <3>3
  <2>3. QED
    BY <2>1, <2>2
<1>2. g = [i \in 0 .. m + 1 |-> g[i]]
  OBVIOUS
<1> HIDE DEF g
<1>3. Fills(list, g, m + 1)
  BY <1>1, <1>2 DEF Fills
<1>4. QED
  BY <1>3

(* There is the function that TxBuffer() chooses. *)
LEMMA FillsExist == ASSUME NEW list PROVE \A m \in Nat : \E f : Fills(list, f, m)
<1> DEFINE S == {m \in Nat : \E f : Fills(list, f, m)}
<1>1. 0 \in S
  <2> DEFINE f == [i \in 0 .. 0 |-> G!Zeros(8 * TxBufferBytes)]
  <2>1. \A i \in 0 .. 0 : i = 0
    OBVIOUS
  <2>2. f = [i \in 0 .. 0 |-> IF i = 0 THEN G!Zeros(8 * TxBufferBytes)
                              ELSE Filled(list, i - 1, f[i - 1])]
    BY <2>1
  <2> HIDE DEF f
  <2>3. Fills(list, f, 0)
    BY <2>2 DEF Fills
  <2>4. QED
    BY <2>3
<1>2. ASSUME NEW m \in Nat, m \in S PROVE m + 1 \in S
  <2>1. \E g : Fills(list, g, m + 1)
    BY <1>2, FillsGoOn
  <2>2. QED
    BY <2>1
<1> HIDE DEF S
<1>3. \A m \in Nat : m \in S
  BY <1>1, <1>2, NumbersFollow
<1>4. QED
  BY <1>3 DEF S

(* What the buffer is after each slot. *)
LEMMA SlotsFill ==
    ASSUME NEW list
    PROVE  \E f :
            /\ f[0] = G!Zeros(8 * TxBufferBytes)
            /\ \A i \in Slots : f[i + 1] = Filled(list, i, f[i])
            /\ G!TxBuffer(list) = f[MaxTxCommandCount]
<1> DEFINE f == CHOOSE f : Fills(list, f, MaxTxCommandCount)
<1>1. MaxTxCommandCount \in Nat
  BY SlotsAreNumbers
<1>2. Fills(list, f, MaxTxCommandCount)
  BY <1>1, FillsExist
<1>3. G!TxBuffer(list) = f[MaxTxCommandCount]
  BY DEF G!TxBuffer, Fills, Filled
<1> HIDE DEF f
<1>4. \A i \in 0 .. MaxTxCommandCount :
        f[i] = IF i = 0 THEN G!Zeros(8 * TxBufferBytes) ELSE Filled(list, i - 1, f[i - 1])
  BY <1>2 DEF Fills
<1>5. f[0] = G!Zeros(8 * TxBufferBytes)
  BY <1>1, <1>4
<1>6. ASSUME NEW i \in Slots PROVE f[i + 1] = Filled(list, i, f[i])
  <2> DEFINE j == i + 1
  <2>1. j \in 0 .. MaxTxCommandCount /\ j # 0 /\ j - 1 = i
    BY SlotsAreNumbers
  <2> HIDE DEF j
  <2>2. f[j] = Filled(list, i, f[i])
    BY <1>4, <2>1
  <2>3. QED
    BY <2>2 DEF j
<1>7. QED
  BY <1>3, <1>5, <1>6

(* Copying writes the bits of a slot and nothing before them. *)
Room == 1 .. 8 * TxBufferBytes
(* A copy sets its own bits and leaves what is outside its bytes. *)
LEMMA CopyOutcome ==
    ASSUME NEW copied \in [Room -> {0, 1}], NEW bits \in Bits, NEW first \in Nat
    PROVE  /\ G!Copied(bits, first, copied) \in [Room -> {0, 1}]
           /\ \A n \in 1 .. Len(bits) : first + n \in Room =>
                G!Copied(bits, first, copied)[first + n] = bits[n]
           /\ \A b \in Room : b <= first => G!Copied(bits, first, copied)[b] = copied[b]
<1> DEFINE copy == G!Copied(bits, first, copied)
<1>1. /\ DOMAIN bits = 1 .. Len(bits) /\ Len(bits) \in Nat
      /\ \A n \in 1 .. Len(bits) : bits[n] \in {0, 1}
  BY LenProperties, ElementOfSeq DEF Bits
<1>2. Room \subseteq Nat /\ DOMAIN copied = Room
  BY SlotsAreNumbers DEF Room
<1>3. copy = [b \in Room |->
        IF b - first \in DOMAIN bits THEN bits[b - first]
        ELSE IF b > first /\ b <= first + 8 * G!byte_size(bits) THEN 0 ELSE copied[b]]
  BY <1>2 DEF G!Copied
<1> HIDE DEF copy
<1>4. copy \in [Room -> {0, 1}]
  BY <1>1, <1>3
<1>5. ASSUME NEW n \in 1 .. Len(bits), first + n \in Room PROVE copy[first + n] = bits[n]
  <2> DEFINE b == first + n
  <2>1. b \in Room /\ b - first = n
    BY <1>1, <1>5
  <2> HIDE DEF b
  <2>2. copy[b] = bits[n]
    BY <1>1, <1>3, <2>1
  <2>3. QED
    BY <2>2 DEF b
<1>6. ASSUME NEW b \in Room, b <= first PROVE copy[b] = copied[b]
  <2>1. b - first \notin DOMAIN bits /\ ~(b > first)
    BY <1>1, <1>2, <1>6
  <2>2. QED
    BY <1>3, <2>1
<1>7. QED
  BY <1>4, <1>5, <1>6 DEF copy

(* Every slot that fits is in the buffer, with all its bits. *)
LEMMA BufferHoldsSlots ==
    ASSUME EncodedOnce, NEW list, NEW means, ListIsMeant(list, means), G!Fits(list)
    PROVE  /\ G!TxBuffer(list) \in [Room -> {0, 1}]
           /\ \A i \in Slots : list[i].valid => \A n \in 1 .. Len(list[i].bits) :
                /\ 8 * G!BytesBefore(list, i) + n \in Room
                /\ G!TxBuffer(list)[8 * G!BytesBefore(list, i) + n] = list[i].bits[n]
<1>1. PICK f :
        /\ f[0] = G!Zeros(8 * TxBufferBytes)
        /\ \A i \in Slots : f[i + 1] = Filled(list, i, f[i])
        /\ G!TxBuffer(list) = f[MaxTxCommandCount]
  BY SlotsFill
<1> DEFINE First(i) == 8 * G!BytesBefore(list, i)
           Holds(copied, i) == list[i].valid =>
                \A n \in 1 .. Len(list[i].bits) : copied[First(i) + n] = list[i].bits[n]
           Right(j) == f[j] \in [Room -> {0, 1}] /\ \A i \in Slots : i < j => Holds(f[j], i)
           S == {j \in Nat : j \in 0 .. MaxTxCommandCount => Right(j)}
<1>2. \A i \in Slots : First(i) \in Nat
  <2>1. \A i \in Slots : i \in 0 .. MaxTxCommandCount
    BY SlotsAreNumbers
  <2>2. QED
    BY <2>1, OffsetsAreNatural
<1>3. ASSUME NEW i \in Slots, list[i].valid, NEW n \in 1 .. Len(list[i].bits)
      PROVE  First(i) + n \in Room /\ First(i) + n <= First(i) + 8 * G!BytesOf(list[i])
  <2>1. /\ G!BytesOf(list[i]) \in Nat /\ G!BytesOf(list[i]) = G!byte_size(list[i].bits)
        /\ Len(list[i].bits) \in Nat /\ Len(list[i].bits) <= 8 * G!BytesOf(list[i])
    BY <1>3, BytesAreNatural
  <2>2. G!BytesBefore(list, i) + G!byte_size(list[i].bits) <= TxBufferBytes
    BY <1>3 DEF G!Fits, Slots
  <2>3. G!BytesBefore(list, i) \in Nat /\ TxBufferBytes \in Nat
    BY SlotsAreNumbers, OffsetsAreNatural
  <2>4. QED
    BY <2>1, <2>2, <2>3 DEF Room
<1>4. 0 \in S
  <2>1. \A i \in Slots : ~(i < 0)
    BY SlotsAreNumbers
  <2>2. G!Zeros(8 * TxBufferBytes) \in [Room -> {0, 1}]
    BY DEF G!Zeros, Room
  <2>3. QED
    BY <1>1, <2>1, <2>2
<1>5. ASSUME NEW j \in Nat, j \in S PROVE j + 1 \in S
  <2>1. SUFFICES ASSUME j + 1 \in 0 .. MaxTxCommandCount PROVE Right(j + 1)
    OBVIOUS
  <2>2. j \in Slots /\ j \in 0 .. MaxTxCommandCount
    BY <2>1, SlotsAreNumbers
  <2>3. f[j] \in [Room -> {0, 1}] /\ \A i \in Slots : i < j => Holds(f[j], i)
    BY <1>5, <2>2
  <2>4. f[j + 1] = Filled(list, j, f[j])
    BY <1>1, <2>2
  <2>5. \A i \in Slots : i < j + 1 => i < j \/ i = j
    BY SlotsAreNumbers
  <2>6. CASE ~list[j].valid
    <3>1. f[j + 1] = f[j]
      BY <2>4, <2>6 DEF Filled
    <3>2. Holds(f[j + 1], j)
      BY <2>6
    <3> HIDE DEF Holds
    <3>3. QED
      BY <2>3, <2>5, <3>1, <3>2
  <2>7. CASE list[j].valid
    <3> DEFINE copy == G!Copied(list[j].bits, First(j), f[j])
    <3>1. list[j].bits \in Bits /\ Len(list[j].bits) \in Nat
      BY <2>2, <2>7, BytesAreNatural
    <3>2. f[j + 1] = copy
      BY <2>4, <2>7 DEF Filled
    <3>3. /\ copy \in [Room -> {0, 1}]
          /\ \A n \in 1 .. Len(list[j].bits) : First(j) + n \in Room =>
                copy[First(j) + n] = list[j].bits[n]
          /\ \A b \in Room : b <= First(j) => copy[b] = f[j][b]
      <4> DEFINE start == First(j)
      <4>1. start \in Nat
        BY <1>2, <2>2
      <4> HIDE DEF start
      <4>2. /\ G!Copied(list[j].bits, start, f[j]) \in [Room -> {0, 1}]
            /\ \A n \in 1 .. Len(list[j].bits) : start + n \in Room =>
                G!Copied(list[j].bits, start, f[j])[start + n] = list[j].bits[n]
            /\ \A b \in Room : b <= start =>
                G!Copied(list[j].bits, start, f[j])[b] = f[j][b]
        BY <2>3, <3>1, <4>1, CopyOutcome
      <4>3. QED
        BY <4>2 DEF start
    <3> HIDE DEF copy
    <3>4. Holds(copy, j)
      BY <1>3, <2>2, <3>3
    <3>5. ASSUME NEW i \in Slots, i < j, list[i].valid, NEW n \in 1 .. Len(list[i].bits)
          PROVE  copy[First(i) + n] = list[i].bits[n]
      <4>1. First(i) + n \in Room /\ First(i) + n <= First(i) + 8 * G!BytesOf(list[i])
        BY <1>3, <3>5
      <4>2. G!BytesBefore(list, i) + G!BytesOf(list[i]) <= G!BytesBefore(list, j)
        BY <2>2, <3>5, SlotsAreApart
      <4>3. /\ G!BytesBefore(list, i) \in Nat /\ G!BytesBefore(list, j) \in Nat
            /\ G!BytesOf(list[i]) \in Nat
        <5>1. i \in 0 .. MaxTxCommandCount
          BY SlotsAreNumbers
        <5>2. QED
          BY <2>2, <5>1, OffsetsAreNatural, BytesAreNatural
      <4>4. First(i) + n <= First(j)
        <5>1. First(i) + n \in Nat
          BY <4>1, SlotsAreNumbers DEF Room
        <5>2. First(i) + 8 * G!BytesOf(list[i]) <= First(j)
          BY <4>2, <4>3
        <5>3. QED
          BY <4>1, <4>3, <5>1, <5>2
      <4>5. copy[First(i) + n] = f[j][First(i) + n]
        BY <3>3, <4>1, <4>4
      <4>6. QED
        BY <2>3, <3>5, <4>5
    <3>6. \A i \in Slots : i < j => Holds(copy, i)
      BY <3>5
    <3> HIDE DEF Holds
    <3>7. QED
      BY <2>5, <3>2, <3>3, <3>4, <3>6
  <2>8. QED
    BY <2>6, <2>7
<1>6. Right(MaxTxCommandCount)
  <2> HIDE DEF S
  <2>1. \A j \in Nat : j \in S
    BY <1>4, <1>5, NumbersFollow
  <2>2. MaxTxCommandCount \in Nat /\ MaxTxCommandCount \in 0 .. MaxTxCommandCount
    BY SlotsAreNumbers
  <2> HIDE DEF Right
  <2>3. QED
    BY <2>1, <2>2 DEF S
<1>7. \A i \in Slots : i < MaxTxCommandCount
  BY SlotsAreNumbers
<1>8. QED
  BY <1>1, <1>3, <1>6, <1>7

-----------------------------------------------------------------------------
(* What write_sequence() leaves in the chip: the slots that are valid, as  *)
(* they were meant.                                                        *)
LEMMA WrittenShape == ASSUME NEW list, NEW missed PROVE Shape(G!Written(list, missed))
BY DEF Shape, G!Written

(* What the chip was written holds what the list means. *)
LEMMA WrittenIsMeant ==
    ASSUME EncodedOnce, NEW list, NEW means, ListIsMeant(list, means), G!Fits(list)
    PROVE  LET d == G!Written(list, {})
           IN \A i \in Slots :
                /\ (d.lengths[i] # 0) = list[i].valid
                /\ ChipSlotIsMeant(d, i, means[i])
<1> DEFINE d == G!Written(list, {})
           copied == G!TxBuffer(list)
<1>1. SUFFICES ASSUME NEW i \in Slots
               PROVE  (d.lengths[i] # 0) = list[i].valid /\ ChipSlotIsMeant(d, i, means[i])
  OBVIOUS
<1>2. /\ d.lengths[i] = IF list[i].valid THEN Len(list[i].bits) ELSE 0
      /\ d.offsets[i] = IF list[i].valid THEN G!BytesBefore(list, i) ELSE 0
      /\ d.ids[i] = IF list[i].valid THEN list[i].id ELSE 0
      /\ list[i].valid => d.controls[i] = G!get_gen2_tx_control_config(list[i].spec)
      /\ d.buffer = copied
  BY DEF G!Written, G!Registers, Slots
<1> HIDE DEF d, copied
<1>3. SlotIsMeant(list[i], means[i])
  BY DEF ListIsMeant
<1>4. CASE ~list[i].valid
  BY <1>2, <1>3, <1>4 DEF ChipSlotIsMeant, SlotIsMeant
<1>5. CASE list[i].valid
  <2> DEFINE bits == list[i].bits
             first == 8 * G!BytesBefore(list, i)
  <2>1. bits \in Bits /\ Len(bits) \in Nat \ {0} /\ bits = encoded[means[i].spec]
    BY <1>3, <1>5, BytesAreNatural DEF SlotIsMeant
  <2>2. first \in Nat
    <3>1. i \in 0 .. MaxTxCommandCount
      BY SlotsAreNumbers
    <3>2. G!BytesBefore(list, i) \in Nat
      BY <3>1, OffsetsAreNatural
    <3>3. QED
      BY <3>2
  <2>3. /\ copied \in [Room -> {0, 1}]
        /\ \A n \in 1 .. Len(bits) : first + n \in Room /\ copied[first + n] = bits[n]
    BY <1>5, BufferHoldsSlots DEF copied
  <2>4. d.lengths[i] = Len(bits) /\ 8 * d.offsets[i] = first
    BY <1>2, <1>5
  <2> HIDE DEF bits, first
  <2>5. SubSeq(copied, first + 1, first + Len(bits)) = bits
    <3>1. \A b \in first + 1 .. first + Len(bits) : copied[b] \in {0, 1}
      <4>1. \A b \in first + 1 .. first + Len(bits) :
                b - first \in 1 .. Len(bits) /\ first + (b - first) = b
        BY <2>1, <2>2
      <4>2. QED
        BY <2>3, <4>1
    <3>2. /\ first + 1 \in Int /\ first + Len(bits) \in Int
          /\ first + 1 <= first + Len(bits)
          /\ (first + Len(bits)) - (first + 1) + 1 = Len(bits)
          /\ \A n \in 1 .. Len(bits) : (first + 1) + n - 1 = first + n
      BY <2>1, <2>2
    <3>3. /\ SubSeq(copied, first + 1, first + Len(bits)) \in Seq({0, 1})
          /\ Len(SubSeq(copied, first + 1, first + Len(bits))) = Len(bits)
          /\ \A n \in 1 .. Len(bits) :
                SubSeq(copied, first + 1, first + Len(bits))[n] = copied[first + n]
      BY <3>1, <3>2, SubSeqProperties
    <3>4. QED
      <4> DEFINE cut == SubSeq(copied, first + 1, first + Len(bits))
      <4>1. \A n \in 1 .. Len(bits) : cut[n] = bits[n]
        BY <2>3, <3>3
      <4>2. cut \in Seq({0, 1}) /\ Len(cut) = Len(bits) /\ bits \in Seq({0, 1})
        BY <2>1, <3>3 DEF Bits
      <4> HIDE DEF cut
      <4>3. cut = bits
        BY <4>1, <4>2, SeqEqual
      <4>4. QED
        BY <4>3 DEF cut
  <2>6. SubSeq(d.buffer, 8 * d.offsets[i] + 1, 8 * d.offsets[i] + d.lengths[i]) = bits
    BY <1>2, <2>4, <2>5
  <2>7. ChipSlotIsMeant(d, i, means[i])
    BY <1>2, <1>3, <1>5, <2>1, <2>4, <2>6 DEF ChipSlotIsMeant, SlotIsMeant
  <2>8. (d.lengths[i] # 0) = list[i].valid
    BY <1>3, <1>5, <2>1, <2>4 DEF SlotIsMeant
  <2>9. QED
    BY <2>7, <2>8
<1>6. QED
  BY <1>4, <1>5 DEF d

(* What is read back from the chip. *)
LEMMA ReadIsMeant ==
    ASSUME EncodedOnce, ChipIsMeant, ~torn, NEW rep_len \in RepLens
    PROVE  ListIsMeant(
            [i \in Slots |->
                IF device.lengths[i] = 0 THEN G!Free
                ELSE G!Command(G!BitsOfSlot(i), G!decode_gen2_command(G!BitsOfSlot(i), rep_len),
                               G!IdOf(i))],
            [i \in Slots |-> [held[i] EXCEPT !.again = TRUE]])
<1> DEFINE list == [i \in Slots |->
                IF device.lengths[i] = 0 THEN G!Free
                ELSE G!Command(G!BitsOfSlot(i), G!decode_gen2_command(G!BitsOfSlot(i), rep_len),
                               G!IdOf(i))]
           means == [i \in Slots |-> [held[i] EXCEPT !.again = TRUE]]
<1>1. ASSUME NEW i \in Slots PROVE SlotIsMeant(list[i], means[i])
  <2>1. held[i] = G!Meant(held[i].spec, held[i].id, held[i].again)
    BY DEF ChipIsMeant
  <2>2. means[i] = G!Meant(held[i].spec, held[i].id, TRUE)
    BY <2>1 DEF G!Meant
  <2> HIDE DEF means
  <2>3. CASE device.lengths[i] = 0
    <3>1. list[i] = G!Free
      BY <2>3
    <3> HIDE DEF list
    <3>2. QED
      BY <2>2, <3>1 DEF SlotIsMeant, G!Free, G!Meant
  <2>4. CASE device.lengths[i] # 0
    <3> DEFINE spec == held[i].spec
    <3>1. /\ spec \in Specs /\ G!BitsOfSlot(i) = encoded[spec]
          /\ Len(encoded[spec]) # 0
      BY <2>4 DEF ChipIsMeant, ChipSlotIsMeant, G!BitsOfSlot
    <3>2. encoded[spec] # << >>
      BY <3>1
    <3>3. list[i] = G!Command(encoded[spec], G!decode_gen2_command(encoded[spec], rep_len),
                              G!IdOf(i))
      BY <2>4, <3>1
    <3> HIDE DEF spec, list
    <3>4. SlotIsMeant(G!Command(encoded[spec], G!decode_gen2_command(encoded[spec], rep_len),
                                G!IdOf(i)),
                      G!Meant(spec, held[i].id, TRUE))
      BY <3>1, <3>2, DecodedSlot
    <3>5. QED
      BY <2>2, <3>3, <3>4 DEF spec
  <2>5. QED
    BY <2>3, <2>4
<1>2. list = [i \in Slots |-> list[i]] /\ means = [i \in Slots |-> means[i]]
  OBVIOUS
<1> HIDE DEF list, means
<1>3. ListIsMeant(list, means)
  BY <1>1, <1>2 DEF ListIsMeant
<1>4. QED
  BY <1>3 DEF list, means

-----------------------------------------------------------------------------
(* A step that leaves the commands of the application. *)
LEMMA ListFollows ==
    ASSUME encoded' = encoded, ListIsMeant(local', meant')
    PROVE  ListIsMeant(local, meant)'
BY DEF ListIsMeant, SlotIsMeant, Specs

(* The encoded commands do not change. *)
LEMMA EncodedStays == ASSUME EncodedOnce, encoded' = encoded PROVE EncodedOnce'
BY DEF EncodedOnce, Specs

(* A step that does not write to the chip leaves what was said of it. *)
LEMMA ChipStays ==
    ASSUME Gen2Inv, encoded' = encoded, UNCHANGED <<device, held, torn>>
    PROVE  ChipIsMeant'
BY DEF Gen2Inv, ChipIsMeant, ChipSlotIsMeant, Specs

(* The masks do not change. *)
LEMMA MasksStay ==
    ASSUME Gen2Inv, UNCHANGED <<device, held, torn, enables, checked>>
    PROVE  MaskTypes' /\ G!MasksNameTheirKind'
BY DEF Gen2Inv, MaskTypes, G!MasksNameTheirKind

(* What was sent alone does not change. *)
LEMMA SentStays == ASSUME Gen2Inv, UNCHANGED halted_sent PROVE G!SentAlone'
BY DEF Gen2Inv, G!SentAlone

(* The steps that change the list alone. *)
LEMMA OnlyTheList ==
    ASSUME Gen2Inv, encoded' = encoded, ListIsMeant(local', meant'),
           UNCHANGED <<device, enables, halted_sent, held, checked, torn>>
    PROVE  Gen2Inv'
<1>1. EncodedOnce' /\ ListIsMeant(local, meant)'
  BY EncodedStays, ListFollows DEF Gen2Inv
<1>2. ChipIsMeant'
  BY ChipStays
<1>3. MaskTypes' /\ G!MasksNameTheirKind'
  BY MasksStay
<1>4. G!SentAlone'
  BY SentStays
<1>5. QED
  BY <1>1, <1>2, <1>3, <1>4 DEF Gen2Inv

(* clear_local_sequence() keeps the invariant. *)
LEMMA ClearLocalStep == Gen2Inv /\ G!clear_local_sequence => Gen2Inv'
<1> SUFFICES ASSUME Gen2Inv, G!clear_local_sequence PROVE Gen2Inv'
  OBVIOUS
<1>1. /\ encoded' = encoded /\ local' = [i \in Slots |-> G!Free]
      /\ UNCHANGED <<device, enables, halted_sent, meant, held, checked, torn>>
  BY DEF G!clear_local_sequence, G!Call, Slots
<1>2. ListIsMeant([i \in Slots |-> G!Free], meant)
  BY EmptyIsMeant DEF Gen2Inv
<1>3. ListIsMeant(local', meant')
  BY <1>1, <1>2
<1>4. QED
  BY <1>1, <1>3, OnlyTheList

(* clear_command_in_local_sequence() keeps it. *)
LEMMA ClearCommandStep ==
    ASSUME Gen2Inv, NEW index, G!clear_command_in_local_sequence(index)
    PROVE  Gen2Inv'
<1>1. /\ encoded' = encoded
      /\ IF index \in Slots THEN local' = [local EXCEPT ![index] = G!Free]
         ELSE UNCHANGED local
      /\ UNCHANGED <<device, enables, halted_sent, meant, held, checked, torn>>
  BY DEF G!clear_command_in_local_sequence, G!Call, Slots
<1>2. ListIsMeant(local, meant)
  BY DEF Gen2Inv
<1>3. CASE index \in Slots
  <2>1. SlotIsMeant(G!Free, meant[index])
    BY <1>2, <1>3 DEF ListIsMeant, SlotIsMeant, G!Free
  <2>2. ListIsMeant([local EXCEPT ![index] = G!Free],
                    [meant EXCEPT ![index] = meant[index]])
    BY <1>2, <1>3, <2>1, SlotTaken
  <2>3. [meant EXCEPT ![index] = meant[index]] = meant
    BY <1>2 DEF ListIsMeant
  <2>4. QED
    BY <1>1, <1>3, <2>2, <2>3, OnlyTheList
<1>4. CASE index \notin Slots
  BY <1>1, <1>2, <1>4, OnlyTheList
<1>5. QED
  BY <1>3, <1>4

(* append_encoded_command() keeps it. *)
LEMMA AppendEncodedStep ==
    ASSUME Gen2Inv, NEW spec \in Specs, NEW id, G!append_encoded_command(spec, id)
    PROVE  Gen2Inv'
<1> DEFINE bits == encoded[spec]
           index == G!FirstFree(local)
<1>1. /\ encoded' = encoded /\ bits # << >>
      /\ UNCHANGED <<device, enables, halted_sent, held, checked, torn>>
  BY DEF G!append_encoded_command, G!Call
<1>2. \/ /\ G!FreeSlots(local) # {}
         /\ \E rep_len \in RepLens :
                local' = [local EXCEPT ![index] =
                            G!Command(bits, G!decode_gen2_command(bits, rep_len), id)]
         /\ meant' = [meant EXCEPT ![index] = G!Meant(spec, id, TRUE)]
      \/ UNCHANGED <<local, meant>>
  BY DEF G!append_encoded_command
<1>3. ListIsMeant(local, meant) /\ EncodedOnce
  BY DEF Gen2Inv
<1>4. CASE UNCHANGED <<local, meant>>
  BY <1>1, <1>3, <1>4, OnlyTheList
<1>5. CASE /\ G!FreeSlots(local) # {}
           /\ \E rep_len \in RepLens :
                  local' = [local EXCEPT ![index] =
                              G!Command(bits, G!decode_gen2_command(bits, rep_len), id)]
           /\ meant' = [meant EXCEPT ![index] = G!Meant(spec, id, TRUE)]
  <2>1. PICK rep_len \in RepLens :
                local' = [local EXCEPT ![index] =
                            G!Command(bits, G!decode_gen2_command(bits, rep_len), id)]
    BY <1>5
  <2>2. SlotIsMeant(G!Command(bits, G!decode_gen2_command(bits, rep_len), id),
                    G!Meant(spec, id, TRUE))
    BY <1>1, <1>3, DecodedSlot
  <2>3. index \in Slots
    BY <1>5, FirstFreeIsFree
  <2> HIDE DEF bits, index
  <2>4. ListIsMeant([local EXCEPT ![index] =
                        G!Command(bits, G!decode_gen2_command(bits, rep_len), id)],
                    [meant EXCEPT ![index] = G!Meant(spec, id, TRUE)])
    BY <1>3, <2>2, <2>3, SlotTaken
  <2>5. ListIsMeant(local', meant')
    BY <1>5, <2>1, <2>4
  <2>6. QED
    BY <1>1, <2>5, OnlyTheList
<1>6. QED
  BY <1>2, <1>4, <1>5

(* encode_and_append_command() keeps it. *)
LEMMA EncodeAndAppendStep ==
    ASSUME Gen2Inv, NEW spec \in Specs, NEW id, G!encode_and_append_command(spec, id)
    PROVE  Gen2Inv'
<1> DEFINE index == G!FirstFree(local)
<1>1. /\ encoded' = encoded
      /\ UNCHANGED <<device, enables, halted_sent, held, checked, torn>>
  BY DEF G!encode_and_append_command, G!Call
<1>2. IF G!CanAppend(local, spec)
      THEN /\ local' = G!Appended(local, spec, id)
           /\ meant' = [meant EXCEPT ![index] = G!Meant(spec, id, FALSE)]
      ELSE UNCHANGED <<local, meant>>
  BY DEF G!encode_and_append_command
<1>3. ListIsMeant(local, meant)
  BY DEF Gen2Inv
<1>4. CASE G!CanAppend(local, spec)
  <2>1. ListIsMeant(G!Appended(local, spec, id),
                    [meant EXCEPT ![index] = G!Meant(spec, id, FALSE)])
    BY <1>3, <1>4, AppendedIsMeant
  <2>2. ListIsMeant(local', meant')
    BY <1>2, <1>4, <2>1
  <2>3. QED
    BY <1>1, <2>2, OnlyTheList
<1>5. CASE ~G!CanAppend(local, spec)
  BY <1>1, <1>2, <1>3, <1>5, OnlyTheList
<1>6. QED
  BY <1>4, <1>5

(* read_device_to_local_sequence() keeps it. *)
LEMMA ReadStep == Gen2Inv /\ G!read_device_to_local_sequence => Gen2Inv'
<1> SUFFICES ASSUME Gen2Inv, G!read_device_to_local_sequence PROVE Gen2Inv'
  OBVIOUS
<1>1. /\ encoded' = encoded /\ ~torn
      /\ UNCHANGED <<device, enables, halted_sent, held, checked, torn>>
  BY DEF G!read_device_to_local_sequence, G!Call
<1>2. PICK rep_len \in RepLens :
        local' = [i \in Slots |->
            IF device.lengths[i] = 0 THEN G!Free
            ELSE G!Command(G!BitsOfSlot(i), G!decode_gen2_command(G!BitsOfSlot(i), rep_len),
                           G!IdOf(i))]
  BY DEF G!read_device_to_local_sequence, Slots
<1>3. meant' = [i \in Slots |-> [held[i] EXCEPT !.again = TRUE]]
  BY DEF G!read_device_to_local_sequence, Slots
<1>4. ListIsMeant(local', meant')
  <2>1. EncodedOnce /\ ChipIsMeant
    BY DEF Gen2Inv
  <2>2. QED
    BY <1>1, <1>2, <1>3, <2>1, ReadIsMeant
<1>5. QED
  BY <1>1, <1>4, OnlyTheList

-----------------------------------------------------------------------------
(* Writing the sequence, with the transfers it may lose. *)
LEMMA WriteOutcome ==
    ASSUME EncodedOnce, encoded' = encoded, NEW list, NEW means, ListIsMeant(list, means),
           G!Fits(list), NEW missed, G!Write(list, means, missed)
    PROVE  /\ ChipIsMeant' /\ held' = means
           /\ ~torn' => \A i \in Slots : (device'.lengths[i] # 0) = list[i].valid
<1>1. device' = G!Written(list, missed) /\ held' = means /\ torn' = (missed # {})
  BY DEF G!Write
<1>2. Shape(device')
  BY <1>1, WrittenShape
<1>3. ~torn' => \A i \in Slots :
        /\ (device'.lengths[i] # 0) = list[i].valid
        /\ ChipSlotIsMeant(device', i, means[i])
  <2>1. SUFFICES ASSUME ~torn'
                 PROVE  \A i \in Slots :
                            /\ (device'.lengths[i] # 0) = list[i].valid
                            /\ ChipSlotIsMeant(device', i, means[i])
    OBVIOUS
  <2>2. missed = {}
    BY <1>1, <2>1
  <2>3. device' = G!Written(list, {})
    BY <1>1, <2>2
  <2>4. QED
    BY <2>3, WrittenIsMeant
<1>4. /\ means = [i \in Slots |-> means[i]]
      /\ \A i \in Slots : means[i] = G!Meant(means[i].spec, means[i].id, means[i].again)
  BY DEF ListIsMeant, SlotIsMeant
<1>5. /\ Shape(device)'
      /\ held' = [i \in Slots |-> held'[i]]
      /\ \A i \in Slots : held'[i] = G!Meant(held'[i].spec, held'[i].id, held'[i].again)
      /\ ~torn' => \A i \in Slots : ChipSlotIsMeant(device, i, held[i])'
  BY <1>1, <1>2, <1>3, <1>4 DEF Shape, ChipSlotIsMeant, Specs
<1>6. ChipIsMeant'
  BY <1>5 DEF ChipIsMeant
<1>7. QED
  BY <1>1, <1>3, <1>6

(* Of masks that were not written again there is nothing to say. *)
LEMMA NoMasks ==
    ASSUME Gen2Inv, UNCHANGED enables, checked' = {}
    PROVE  MaskTypes' /\ G!MasksNameTheirKind'
BY DEF Gen2Inv, MaskTypes, G!MasksNameTheirKind

(* write_sequence() keeps the invariant. *)
LEMMA WriteSequenceStep == Gen2Inv /\ G!write_sequence => Gen2Inv'
<1> SUFFICES ASSUME Gen2Inv, G!write_sequence PROVE Gen2Inv'
  OBVIOUS
<1>1. encoded' = encoded /\ UNCHANGED <<local, enables, halted_sent, meant>>
  BY DEF G!write_sequence, G!Call
<1>2. EncodedOnce /\ ListIsMeant(local, meant)
  BY DEF Gen2Inv
<1>3. EncodedOnce' /\ ListIsMeant(local, meant)' /\ G!SentAlone'
  BY <1>1, <1>2, EncodedStays, ListFollows, SentStays
<1>4. CASE G!Fits(local)
  <2>1. checked' = {} /\ \E missed : G!Write(local, meant, missed)
    BY <1>4 DEF G!write_sequence
  <2>2. ChipIsMeant'
    BY <1>1, <1>2, <1>4, <2>1, WriteOutcome
  <2>3. MaskTypes' /\ G!MasksNameTheirKind'
    BY <1>1, <2>1, NoMasks
  <2>4. QED
    BY <1>3, <2>2, <2>3 DEF Gen2Inv
<1>5. CASE ~G!Fits(local)
  <2>1. UNCHANGED <<device, held, checked, failures, torn>>
    BY <1>5 DEF G!write_sequence
  <2>2. ChipIsMeant' /\ MaskTypes' /\ G!MasksNameTheirKind'
    BY <1>1, <2>1, ChipStays, MasksStay
  <2>3. QED
    BY <1>3, <2>2 DEF Gen2Inv
<1>6. QED
  BY <1>4, <1>5

(* clear_sequence() keeps it. *)
LEMMA ClearSequenceStep == Gen2Inv /\ G!clear_sequence => Gen2Inv'
<1> SUFFICES ASSUME Gen2Inv, G!clear_sequence PROVE Gen2Inv'
  OBVIOUS
<1>1. encoded' = encoded /\ UNCHANGED <<local, halted_sent, meant, held, torn>>
  BY DEF G!clear_sequence, G!Call
<1>2. EncodedOnce' /\ ListIsMeant(local, meant)' /\ G!SentAlone'
  BY <1>1, EncodedStays, ListFollows, SentStays DEF Gen2Inv
<1>3. PICK missed :
        /\ device' = IF "lengths" \in missed THEN device
                     ELSE [device EXCEPT !.lengths = G!NoSequence.lengths]
        /\ enables' = [m \in G!Masks |-> IF m \in missed THEN enables[m] ELSE {}]
        /\ checked' = G!Masks \ missed
  BY DEF G!clear_sequence
<1>4. ChipIsMeant'
  <2>1. CASE "lengths" \in missed
    BY <1>1, <1>3, <2>1, ChipStays
  <2>2. CASE "lengths" \notin missed
    <3>1. Shape(device') /\ device'.lengths = [i \in Slots |-> 0]
      BY <1>3, <2>2 DEF Gen2Inv, ChipIsMeant, Shape, G!NoSequence, Slots
    <3>2. \A i \in Slots : ChipSlotIsMeant(device, i, held[i])'
      BY <3>1 DEF ChipSlotIsMeant
    <3>3. QED
      BY <1>1, <3>1, <3>2 DEF Gen2Inv, ChipIsMeant, Shape
  <2>3. QED
    BY <2>1, <2>2
<1>5. MaskTypes' /\ G!MasksNameTheirKind'
  BY <1>3 DEF Gen2Inv, MaskTypes, G!MasksNameTheirKind
<1>6. QED
  BY <1>2, <1>4, <1>5 DEF Gen2Inv

(* A mask that is written for the list the chip holds names what it should. *)
LEMMA WriteEnablesStep ==
    ASSUME Gen2Inv, NEW mask \in G!Masks, NEW slots \in SUBSET Slots,
           G!write_enables(mask, slots)
    PROVE  Gen2Inv'
<1>1. /\ encoded' = encoded
      /\ UNCHANGED <<local, device, halted_sent, meant, held, torn>>
  BY DEF G!write_enables, G!Call
<1>2. EncodedOnce' /\ ListIsMeant(local, meant)' /\ ChipIsMeant' /\ G!SentAlone'
  BY <1>1, EncodedStays, ListFollows, ChipStays, SentStays DEF Gen2Inv
<1>3. CASE G!Refused(local, mask, slots) # {}
  <2>1. UNCHANGED <<enables, checked>>
    BY <1>3 DEF G!write_enables
  <2>2. MaskTypes' /\ G!MasksNameTheirKind'
    BY <1>1, <2>1, MasksStay
  <2>3. QED
    BY <1>2, <2>2 DEF Gen2Inv
<1>4. CASE G!Refused(local, mask, slots) = {} /\ UNCHANGED <<enables, checked>>
  <2>1. MaskTypes' /\ G!MasksNameTheirKind'
    BY <1>1, <1>4, MasksStay
  <2>2. QED
    BY <1>2, <2>1 DEF Gen2Inv
<1>5. CASE G!Refused(local, mask, slots) = {} /\ ~UNCHANGED <<enables, checked>>
  <2>1. /\ enables' = [enables EXCEPT ![mask] = slots]
        /\ checked' = IF G!Holds(local) THEN checked \cup {mask} ELSE checked \ {mask}
    BY <1>5 DEF G!write_enables
  <2>2. MaskTypes'
    BY <2>1 DEF Gen2Inv, MaskTypes
  <2>3. ASSUME NEW m \in checked', NEW i \in Slots, i \in enables'[m], ~torn'
        PROVE  device.lengths[i] # 0 /\ (held[i].spec.command = "Gen2Select") = (m = "select")
    <3>1. CASE m # mask
      <4>1. m \in checked /\ i \in enables[m]
        BY <2>1, <2>3, <3>1 DEF Gen2Inv, MaskTypes
      <4>2. QED
        BY <1>1, <2>3, <4>1 DEF Gen2Inv, G!MasksNameTheirKind, Slots
    <3>2. CASE m = mask
      <4>1. G!Holds(local) /\ i \in slots
        BY <2>1, <2>3, <3>2 DEF Gen2Inv, MaskTypes
      <4>2. i \notin G!Refused(local, mask, slots)
        BY <1>5
      <4>3. local[i].valid /\ G!get_is_select(local[i].spec.command) = (mask = "select")
        BY <4>1, <4>2 DEF G!Refused, Gen2Inv, ListIsMeant, SlotIsMeant, G!get_is_select
      <4>4. (device.lengths[i] # 0) = local[i].valid /\ held[i] = meant[i]
        BY <4>1, <4>3 DEF G!Holds, Slots
      <4>5. G!get_is_select(local[i].spec.command) = G!get_is_select(meant[i].spec.command)
        BY <4>3 DEF Gen2Inv, ListIsMeant, SlotIsMeant
      <4>6. QED
        BY <3>2, <4>3, <4>4, <4>5 DEF G!get_is_select
    <3>3. QED
      BY <3>1, <3>2
  <2>4. G!MasksNameTheirKind'
    BY <1>1, <2>3 DEF G!MasksNameTheirKind, Slots
  <2>5. QED
    BY <1>2, <2>2, <2>4 DEF Gen2Inv
<1>6. QED
  BY <1>3, <1>4, <1>5

(* set_select_command() keeps it. *)
LEMMA SetSelectStep ==
    ASSUME Gen2Inv, NEW spec \in Specs, G!set_select_command(spec)
    PROVE  Gen2Inv'
<1> DEFINE list == G!Appended(local, spec, 0)
           means == [meant EXCEPT ![G!FirstFree(local)] = G!Meant(spec, 0, FALSE)]
<1>1. encoded' = encoded /\ UNCHANGED <<enables, halted_sent>>
  BY DEF G!set_select_command, G!Call
<1>2. EncodedOnce /\ ListIsMeant(local, meant) /\ EncodedOnce' /\ G!SentAlone'
  BY <1>1, EncodedStays, SentStays DEF Gen2Inv
<1>3. CASE ~G!CanAppend(local, spec)
  <2>1. UNCHANGED <<local, meant, device, held, checked, failures, torn>>
    BY <1>3 DEF G!set_select_command
  <2>2. ListIsMeant(local', meant')
    BY <1>2, <2>1
  <2>3. QED
    BY <1>1, <2>1, <2>2, OnlyTheList
<1>4. CASE G!CanAppend(local, spec)
  <2>1. /\ local' = list /\ meant' = means
        /\ IF G!Fits(list)
           THEN checked' = {} /\ \E missed : G!Write(list, means, missed)
           ELSE UNCHANGED <<device, held, checked, failures, torn>>
    BY <1>4 DEF G!set_select_command
  <2>2. ListIsMeant(list, means)
    BY <1>2, <1>4, AppendedIsMeant
  <2> HIDE DEF list, means
  <2>3. ListIsMeant(local', meant')
    BY <2>1, <2>2
  <2>4. CASE G!Fits(list)
    <3>1. PICK missed : G!Write(list, means, missed)
      BY <2>1, <2>4
    <3>2. ChipIsMeant'
      BY <1>1, <1>2, <2>2, <2>4, <3>1, WriteOutcome
    <3>3. MaskTypes' /\ G!MasksNameTheirKind'
      BY <1>1, <2>1, <2>4, NoMasks
    <3>4. ListIsMeant(local, meant)'
      BY <1>1, <2>3, ListFollows
    <3>5. QED
      BY <1>2, <3>2, <3>3, <3>4 DEF Gen2Inv
  <2>5. CASE ~G!Fits(list)
    BY <1>1, <2>1, <2>3, <2>5, OnlyTheList
  <2>6. QED
    BY <2>4, <2>5
<1>5. QED
  BY <1>3, <1>4

(* send_single_halted_command(), which forgets the list and sends what it  *)
(* wrote.                                                                  *)
LEMMA SendSingleStep ==
    ASSUME Gen2Inv, NEW spec \in Specs, G!send_single_halted_command(spec)
    PROVE  Gen2Inv'
<1> DEFINE empty == [i \in Slots |-> G!Free]
           index == G!FirstFree(empty)
           list == G!Appended(empty, spec, 0)
           means == [meant EXCEPT ![index] = G!Meant(spec, 0, FALSE)]
           appends == G!CanAppend(empty, spec)
           writes == appends /\ G!Fits(list)
           enabled == writes /\ G!Refused(list, "access", {index}) = {}
           commands == {held'[i].spec : i \in {j \in enables'.access : device'.lengths[j] # 0}}
           Sends(missed) ==
               LET masked == enabled /\ "access" \notin missed
               IN /\ G!Write(list, means, missed \ {"access"})
                  /\ enables' = IF masked THEN [enables EXCEPT !.access = {index}] ELSE enables
                  /\ checked' = IF masked THEN {"access"} ELSE {}
                  /\ halted_sent' = [asked |-> spec, torn |-> missed # {},
                                     commands |-> commands]
<1>1. /\ encoded' = encoded
      /\ local' = IF appends THEN list ELSE empty
      /\ meant' = IF appends THEN means ELSE meant
      /\ IF ~writes
         THEN UNCHANGED <<device, enables, held, checked, halted_sent, failures, torn>>
         ELSE \E missed \in G!Misses(G!Transfers \cup (IF enabled THEN {"access"} ELSE {})) :
                    G!Loses(missed) /\ Sends(missed)
  BY DEF G!send_single_halted_command, G!Call, Slots
<1>2. EncodedOnce /\ ListIsMeant(local, meant) /\ EncodedOnce'
  BY <1>1, EncodedStays DEF Gen2Inv
<1>3. ListIsMeant(empty, meant)
  BY <1>2, EmptyIsMeant
<1>4. appends => /\ ListIsMeant(list, means) /\ index \in Slots
                 /\ list[index] = G!Command(encoded[spec], spec, 0)
                 /\ means[index] = G!Meant(spec, 0, FALSE)
  <2> HIDE DEF empty
  <2>1. SUFFICES ASSUME appends
                 PROVE  /\ ListIsMeant(list, means) /\ index \in Slots
                        /\ list[index] = G!Command(encoded[spec], spec, 0)
                        /\ means[index] = G!Meant(spec, 0, FALSE)
    OBVIOUS
  <2>2. index \in Slots
    BY <2>1, FirstFreeIsFree DEF G!CanAppend
  <2>3. ListIsMeant(list, means)
    BY <1>3, <2>1, AppendedIsMeant
  <2>4. index \in DOMAIN empty /\ index \in DOMAIN meant
    BY <1>2, <1>3, <2>2 DEF ListIsMeant
  <2>5. QED
    BY <2>2, <2>3, <2>4 DEF G!Appended
<1> HIDE DEF empty, index, list, means, appends
<1>5. CASE ~writes
  <2>1. ListIsMeant(local', meant')
    BY <1>1, <1>3, <1>4
  <2>2. UNCHANGED <<device, enables, halted_sent, held, checked, torn>>
    BY <1>1, <1>5
  <2>3. QED
    BY <1>1, <2>1, <2>2, OnlyTheList
<1>6. CASE writes
  <2>1. ListIsMeant(list, means) /\ index \in Slots /\ G!Fits(list)
    BY <1>4, <1>6
  <2>2. PICK missed : Sends(missed)
    BY <1>1, <1>6
  <2>25. G!Write(list, means, missed \ {"access"})
    BY <2>2
  <2>3. /\ ChipIsMeant' /\ held' = means
        /\ ~torn' => \A i \in Slots : (device'.lengths[i] # 0) = list[i].valid
    BY <1>1, <1>2, <2>1, <2>25, WriteOutcome
  <2>4. ListIsMeant(local, meant)'
    BY <1>1, <1>6, <2>1, ListFollows
  <2>5. ~torn' => device'.lengths[index] # 0 /\ held'[index].spec = spec
    <3>1. list[index].valid = TRUE /\ means[index].spec = spec
      BY <1>4, <1>6 DEF G!Command, G!Meant
    <3>2. QED
      BY <2>1, <2>3, <3>1
  <2>6. /\ halted_sent' = [asked |-> spec, torn |-> missed # {}, commands |-> commands]
        /\ missed = {} => ~torn'
    BY <2>2, <2>25 DEF G!Write
  <2>7. CASE ~enabled \/ "access" \in missed
    <3>1. enables' = enables /\ checked' = {}
      BY <2>2, <2>7
    <3>2. MaskTypes' /\ G!MasksNameTheirKind'
      BY <3>1, NoMasks
    <3>3. ~enabled => spec.command = "Gen2Select"
      <4>1. SUFFICES ASSUME ~enabled PROVE spec.command = "Gen2Select"
        OBVIOUS
      <4>2. index \in G!Refused(list, "access", {index})
        BY <1>6, <4>1 DEF G!Refused
      <4>3. QED
        BY <1>4, <1>6, <4>2 DEF G!Refused, G!Command, G!get_is_select
    <3>4. G!SentAlone'
      BY <2>6, <2>7, <3>3 DEF G!SentAlone
    <3>5. QED
      BY <1>2, <2>3, <2>4, <3>2, <3>4 DEF Gen2Inv
  <2>8. CASE enabled /\ "access" \notin missed
    <3>1. enables' = [enables EXCEPT !.access = {index}] /\ checked' = {"access"}
      BY <2>2, <2>8
    <3>2. enables'["access"] = {index} /\ MaskTypes'
      BY <2>1, <3>1 DEF Gen2Inv, MaskTypes, G!Masks
    <3>3. spec.command # "Gen2Select"
      <4>1. index \notin G!Refused(list, "access", {index})
        BY <2>8
      <4>2. QED
        BY <1>4, <1>6, <4>1 DEF G!Refused, G!Command, G!get_is_select
    <3>4. G!MasksNameTheirKind'
      <4>1. SUFFICES ASSUME NEW m \in checked', NEW i \in G!Slots, i \in enables'[m], ~torn'
                     PROVE  /\ device'.lengths[i] # 0
                            /\ (held'[i].spec.command = "Gen2Select") = (m = "select")
        BY DEF G!MasksNameTheirKind
      <4>2. m = "access" /\ i = index
        BY <3>1, <3>2, <4>1
      <4>3. device'.lengths[i] # 0 /\ held'[i].spec.command # "Gen2Select" /\ m # "select"
        BY <2>5, <3>3, <4>1, <4>2
      <4>4. QED
        BY <4>3
    <3>5. G!SentAlone'
      <4>1. SUFFICES ASSUME missed = {} PROVE commands = {spec}
        BY <2>6 DEF G!SentAlone
      <4>2. ~torn'
        BY <2>6, <4>1
      <4>3. {j \in enables'.access : device'.lengths[j] # 0} = {index}
        BY <2>5, <3>2, <4>2
      <4>4. QED
        BY <2>5, <4>2, <4>3
    <3>6. QED
      BY <1>2, <2>3, <2>4, <3>2, <3>4, <3>5 DEF Gen2Inv
  <2>9. QED
    BY <2>7, <2>8
<1>7. QED
  BY <1>5, <1>6

-----------------------------------------------------------------------------
(* The invariant holds at the start. *)
LEMMA Gen2InitIsMeant == G!Init => Gen2Inv
<1> SUFFICES ASSUME G!Init PROVE Gen2Inv
  OBVIOUS
<1> DEFINE nobody == [i \in Slots |-> G!NoOne]
<1>1. /\ local = [i \in Slots |-> G!Free] /\ meant = nobody /\ held = nobody
      /\ device = G!NoSequence /\ enables = [m \in G!Masks |-> {}] /\ checked = G!Masks
      /\ halted_sent = G!NotSent /\ torn = FALSE
  BY DEF G!Init, Slots
<1>2. EncodedOnce
  <2>1. PICK app \in Applications : encoded = [spec \in app |-> G!encode_gen2_command(spec)]
    BY DEF G!Init
  <2>2. QED
    BY <2>1 DEF EncodedOnce, Specs
<1>3. \A i \in Slots : nobody[i] = G!Meant(nobody[i].spec, nobody[i].id, nobody[i].again)
  BY DEF G!NoOne, G!Meant
<1>4. ListIsMeant(local, meant)
  <2>1. \A i \in Slots : SlotIsMeant(local[i], meant[i])
    BY <1>1, <1>3 DEF SlotIsMeant, G!Free
  <2>2. QED
    BY <1>1, <2>1 DEF ListIsMeant
<1>5. ChipIsMeant
  <2>1. Shape(device) /\ \A i \in Slots : device.lengths[i] = 0
    BY <1>1 DEF Shape, G!NoSequence, Slots
  <2>2. QED
    BY <1>1, <1>3, <2>1 DEF ChipIsMeant, ChipSlotIsMeant
<1>6. MaskTypes /\ G!MasksNameTheirKind
  BY <1>1 DEF MaskTypes, G!MasksNameTheirKind
<1>7. G!SentAlone
  BY <1>1 DEF G!SentAlone
<1>8. QED
  BY <1>2, <1>4, <1>5, <1>6, <1>7 DEF Gen2Inv

(* Every step of the manager keeps the invariant. *)
LEMMA Gen2StepIsMeant == Gen2Inv /\ [G!Next]_(G!vars) => Gen2Inv'
<1> SUFFICES ASSUME Gen2Inv, [G!Next]_(G!vars) PROVE Gen2Inv'
  OBVIOUS
<1>1. CASE G!clear_local_sequence
  BY <1>1, ClearLocalStep
<1>2. CASE G!clear_sequence
  BY <1>2, ClearSequenceStep
<1>3. CASE G!write_sequence
  BY <1>3, WriteSequenceStep
<1>4. CASE G!read_device_to_local_sequence
  BY <1>4, ReadStep
<1>5. CASE \E index \in 0 .. MaxTxCommandCount : G!clear_command_in_local_sequence(index)
  BY <1>5, ClearCommandStep
<1>6. CASE \E spec \in G!specs, id \in TransactionIds :
                G!append_encoded_command(spec, id) \/ G!encode_and_append_command(spec, id)
  BY <1>6, AppendEncodedStep, EncodeAndAppendStep DEF G!specs, Specs
<1>7. CASE \E mask \in G!Masks, slots \in SUBSET G!Slots : G!write_enables(mask, slots)
  BY <1>7, WriteEnablesStep DEF Slots
<1>8. CASE \E spec \in G!specs : G!set_select_command(spec) /\ G!get_is_select(spec.command)
  BY <1>8, SetSelectStep DEF G!specs, Specs
<1>9. CASE \E spec \in G!specs : G!send_single_halted_command(spec)
  BY <1>9, SendSingleStep DEF G!specs, Specs
<1>10. CASE UNCHANGED G!vars
  <2>1. /\ encoded' = encoded
        /\ UNCHANGED <<local, meant, device, enables, halted_sent, held, checked, torn>>
    BY <1>10 DEF G!vars
  <2>2. ListIsMeant(local', meant')
    BY <2>1 DEF Gen2Inv
  <2>3. QED
    BY <2>1, <2>2, OnlyTheList
<1>11. QED
  BY <1>1, <1>2, <1>3, <1>4, <1>5, <1>6, <1>7, <1>8, <1>9, <1>10 DEF G!Next

(* What Gen2Inv says of the chip. *)
LEMMA MeantIsSent ==
    Gen2Inv => G!ChipHoldsWhatWasMeant /\ G!MasksNameTheirKind /\ G!SentAlone
<1> SUFFICES ASSUME Gen2Inv
             PROVE  G!ChipHoldsWhatWasMeant /\ G!MasksNameTheirKind /\ G!SentAlone
  OBVIOUS
<1>1. G!ChipHoldsWhatWasMeant
  BY DEF Gen2Inv, ChipIsMeant, ChipSlotIsMeant, G!ChipHoldsWhatWasMeant, G!BitsOfSlot, Slots
<1>2. QED
  BY <1>1 DEF Gen2Inv

-----------------------------------------------------------------------------
(* The answers of tags: what the chip is told of a command is what the     *)
(* reader takes the reply apart by.                                        *)

(* The half of an even number and of the odd one after it. *)
LEMMA HalfOf ==
    ASSUME NEW n \in Nat
    PROVE  (2 * n) \div 2 = n /\ (2 * n + 1) \div 2 = n
<1>1. (2 * n) \div 2 = n
  OBVIOUS
<1>2. (2 * n + 1) \div 2 = n
  <2> DEFINE x == 2 * n + 1
             half == x \div 2
  <2>1. half \in Nat /\ 2 * half <= x /\ x < 2 * half + 2
    <3>1. x \in Nat
      OBVIOUS
    <3> HIDE DEF x
    <3>2. QED
      BY <3>1
  <2> HIDE DEF half
  <2>2. half = n
    BY <2>1
  <2>3. QED
    BY <2>2 DEF half
<1>3. QED
  BY <1>1, <1>2

(* Two bytes of a word give the word. *)
LEMMA WordOfBytes ==
    ASSUME NEW x \in Nat, x \div 256 < 256
    PROVE  256 * G!Byte(x, 1) + G!Byte(x, 0) = x
<1>1. 256 ^ 1 = 256 /\ 256 ^ 0 = 1
  OBVIOUS
<1>2. G!Byte(x, 1) = (x \div 256) % 256 /\ G!Byte(x, 0) = (x \div 1) % 256
  BY <1>1 DEF G!Byte
<1>3. x \div 1 = x /\ x \div 256 \in 0 .. 255
  OBVIOUS
<1>4. (x \div 256) % 256 = x \div 256 /\ 256 * (x \div 256) + (x % 256) = x
  BY <1>3
<1>5. QED
  BY <1>2, <1>3, <1>4

(* The words of the payload are words of two bytes. *)
LEMMA WordIsTwoBytes ==
    ASSUME NEW w \in Nat
    PROVE  G!PayloadWord(w) \in Nat /\ G!PayloadWord(w) \div 256 < 256
<1> DEFINE m == 65536
           n == 513 * w
<1>1. m = 256 * 256
  OBVIOUS
<1>2. G!PayloadWord(w) = n % m
  BY DEF G!PayloadWord
<1> HIDE DEF m, n
<1>3. n \in Nat
  BY DEF n
<1>4. n % m \in Nat /\ n % m < 256 * 256
  BY <1>1, <1>3
<1>5. (n % m) \div 256 < 256
  BY <1>4
<1>6. QED
  BY <1>2, <1>4, <1>5

(* Words that were laid out as bytes are read. *)
LEMMA WordsAreRead ==
    ASSUME NEW W \in Nat, NEW words, words = [w \in 1 .. W |-> words[w]],
           \A w \in 1 .. W : words[w] \in Nat /\ words[w] \div 256 < 256, NEW data,
           \A w \in 1 .. W : /\ data[2 * w - 1] = G!Byte(words[w], 1)
                             /\ data[2 * w] = G!Byte(words[w], 0)
    PROVE  G!general_reply_decode(16 * W, data) = words
<1>1. (16 * W + 15) \div 16 = W
  OBVIOUS
<1>2. \A w \in 1 .. W : 256 * data[2 * w - 1] + data[2 * w] = words[w]
  BY WordOfBytes
<1>3. [w \in 1 .. W |-> 256 * data[2 * w - 1] + data[2 * w]] = [w \in 1 .. W |-> words[w]]
  BY <1>2
<1>4. QED
  BY <1>1, <1>3 DEF G!general_reply_decode

(* The data of a packet are the header, if there is one, and the bytes. *)
HeaderAndBytes(data, h, bytes, N) ==
    /\ data[1] = h
    /\ \A b \in 1 .. N : data[b + 1] = bytes[b] /\ Tail(data)[b] = bytes[b]

(* The data of a packet are the header, if there is one, and the bytes. *)
LEMMA DataOfPacket ==
    ASSUME NEW N \in Nat, NEW bytes, bytes = [b \in 1 .. N |-> bytes[b]], NEW h
    PROVE  /\ \A b \in 1 .. N : (<< >> \o bytes \o << 0, 0 >>)[b] = bytes[b]
           /\ HeaderAndBytes(<< h >> \o bytes \o << 0, 0 >>, h, bytes, N)
BY DEF HeaderAndBytes

(* A reply without an error gives back its words. *)
AreWords(words, W) ==
    /\ words = [w \in 1 .. W |-> words[w]]
    /\ \A w \in 1 .. W : words[w] \in Nat /\ words[w] \div 256 < 256
InBytes(words, W) == [b \in 1 .. 2 * W |-> G!Byte(words[(b + 1) \div 2], b % 2)]
LengthOf(c, W) == 16 * W + IF c \in G!RepliesWithHeader THEN 1 ELSE 0

AreTold(c, W, controls, words) ==
    /\ c \notin {"Gen2Select", "Gen2Authenticate"} /\ W \in Nat /\ W > 0
    /\ controls.has_header_bit = (c \in G!RepliesWithHeader)
    /\ controls.rx_length = LengthOf(c, W)
    /\ AreWords(words, W)

(* A reply without an error gives back its words. *)
LEMMA ReplyIsRead ==
    ASSUME NEW c, NEW W, NEW controls, NEW words, AreTold(c, W, controls, words)
    PROVE  G!decode_reply(c, G!Packet(controls, 0, InBytes(words, W))) =
                G!Reply(FALSE, G!NoError, words)
<1> DEFINE bytes == InBytes(words, W)
<1> USE DEF AreTold
<1> DEFINE header == c \in G!RepliesWithHeader
           packet == G!Packet(controls, 0, bytes)
           data == IF header THEN Tail(packet.data) ELSE packet.data
<1>1. /\ packet.status = "Ok"
      /\ packet.num_bits = 16 * W + IF header THEN 1 ELSE 0
      /\ packet.data = (IF header THEN << 0 >> ELSE << >>) \o bytes \o << 0, 0 >>
  <2> HIDE DEF header
  <2>1. /\ packet.status = "Ok" /\ packet.num_bits = controls.rx_length
        /\ packet.data = (IF controls.has_header_bit THEN << 0 >> ELSE << >>)
                            \o bytes \o << 0, 0 >>
    <3> DEFINE h == 0
    <3>1. h # 1 /\ packet = G!Packet(controls, h, bytes) /\ << 0 >> = << h >>
      OBVIOUS
    <3> HIDE DEF h, packet
    <3>2. packet = [status |-> "Ok", num_bits |-> controls.rx_length,
                    data |-> (IF controls.has_header_bit THEN << h >> ELSE << >>)
                                \o bytes \o << 0, 0 >>]
      BY <3>1 DEF G!Packet
    <3>3. /\ packet.status = "Ok" /\ packet.num_bits = controls.rx_length
          /\ packet.data = (IF controls.has_header_bit THEN << h >> ELSE << >>)
                                \o bytes \o << 0, 0 >>
      BY <3>2
    <3>4. QED
      BY <3>3 DEF h
  <2>2. QED
    BY <2>1 DEF header, LengthOf
<1>2. bytes = [b \in 1 .. 2 * W |-> bytes[b]]
  BY DEF InBytes
<1>3. (\A b \in 1 .. 2 * W : data[b] = bytes[b]) /\ (header => packet.data[1] = 0)
  <2> HIDE DEF packet, header
  <2>1. CASE header
    <3>1. /\ (<< 0 >> \o bytes \o << 0, 0 >>)[1] = 0
          /\ \A b \in 1 .. 2 * W : Tail(<< 0 >> \o bytes \o << 0, 0 >>)[b] = bytes[b]
      <4> DEFINE N == 2 * W
      <4>1. N \in Nat
        OBVIOUS
      <4> HIDE DEF N
      <4>2. bytes = [b \in 1 .. N |-> bytes[b]]
        BY <1>2 DEF N
      <4> DEFINE h == 0
      <4> HIDE DEF h
      <4>3. HeaderAndBytes(<< h >> \o bytes \o << 0, 0 >>, h, bytes, N)
        BY <4>1, <4>2, DataOfPacket, Zenon
      <4>4. QED
        BY <4>3 DEF HeaderAndBytes, N, h
    <3>2. QED
      BY <1>1, <2>1, <3>1
  <2>2. CASE ~header
    BY <1>1, <1>2, <2>2, DataOfPacket
  <2>3. QED
    BY <2>1, <2>2
<1>4. \A w \in 1 .. W : /\ bytes[2 * w - 1] = G!Byte(words[w], 1)
                        /\ bytes[2 * w] = G!Byte(words[w], 0)
  <2> SUFFICES ASSUME NEW w \in 1 .. W
               PROVE  /\ bytes[2 * w - 1] = G!Byte(words[w], 1)
                      /\ bytes[2 * w] = G!Byte(words[w], 0)
    OBVIOUS
  <2> DEFINE high == 2 * w - 1
             low == 2 * w
  <2>1. high \in 1 .. 2 * W /\ low \in 1 .. 2 * W
    OBVIOUS
  <2>2. (high + 1) \div 2 = w /\ (low + 1) \div 2 = w
    <3>1. high + 1 = 2 * w /\ low + 1 = 2 * w + 1
      OBVIOUS
    <3>2. (2 * w) \div 2 = w /\ (2 * w + 1) \div 2 = w
      <4>1. w \in Nat
        OBVIOUS
      <4>2. QED
        BY <4>1, HalfOf, Zenon
    <3> HIDE DEF high, low
    <3>3. QED
      BY <3>1, <3>2
  <2>3. high % 2 = 1 /\ low % 2 = 0
    OBVIOUS
  <2> HIDE DEF high, low
  <2>4. bytes[high] = G!Byte(words[w], 1) /\ bytes[low] = G!Byte(words[w], 0)
    BY <2>1, <2>2, <2>3 DEF InBytes
  <2>5. QED
    BY <2>4 DEF high, low
<1> HIDE DEF packet, data
<1>5. \A w \in 1 .. W : /\ data[2 * w - 1] = G!Byte(words[w], 1)
                        /\ data[2 * w] = G!Byte(words[w], 0)
  <2> TAKE w \in 1 .. W
  <2>1. 2 * w - 1 \in 1 .. 2 * W /\ 2 * w \in 1 .. 2 * W
    OBVIOUS
  <2>2. QED
    BY <1>3, <1>4, <2>1
<1>6. G!general_reply_decode(16 * W, data) = words
  BY <1>5, WordsAreRead DEF AreWords
<1>7. packet.num_bits - (IF header THEN 1 ELSE 0)
            + (IF c = "Gen2Authenticate" THEN 7 ELSE 0) = 16 * W
  BY <1>1
<1>8. header => ~(packet.num_bits < 9) /\ packet.data[1] % 2 # 1
  <2>1. header => packet.num_bits = 16 * W + 1 /\ packet.data[1] = 0
    BY <1>1, <1>3
  <2>2. 0 % 2 = 0 /\ ~(16 * W + 1 < 9)
    OBVIOUS
  <2>3. QED
    BY <2>1, <2>2
<1> HIDE DEF header
<1>9. G!decode_reply(c, packet) =
        G!Reply(FALSE, G!NoError, G!general_reply_decode(16 * W, data))
  BY <1>1, <1>7, <1>8 DEF G!decode_reply, data, header
<1>10. QED
  BY <1>6, <1>9 DEF packet

(* A reply with an error gives its code. *)
LEMMA ErrorIsRead ==
    ASSUME NEW c \in G!RepliesWithHeader, NEW controls, controls.has_header_bit,
           NEW code, code # G!NoError
    PROVE  G!decode_reply(c, G!Packet(controls, 1, << code, 0, 0, 0, 0 >>)) =
                G!Reply(TRUE, code, << >>)
<1> DEFINE packet == G!Packet(controls, 1, << code, 0, 0, 0, 0 >>)
<1>1. /\ packet.status = "Ok" /\ packet.num_bits = 41
      /\ packet.data = << 1 >> \o << code, 0, 0, 0, 0 >> \o << 0, 0 >>
  BY DEF G!Packet
<1>2. packet.data[1] = 1 /\ packet.data[2] = code
  <2> DEFINE bytes == << code, 0, 0, 0, 0 >>
             data == << 1 >> \o bytes \o << 0, 0 >>
  <2>1. bytes = [b \in 1 .. 5 |-> bytes[b]] /\ bytes[1] = code
    OBVIOUS
  <2>2. 5 \in Nat /\ 1 \in 1 .. 5 /\ 1 + 1 = 2
    OBVIOUS
  <2> DEFINE N == 5
             h == 1
  <2>7. N \in Nat /\ bytes = [b \in 1 .. N |-> bytes[b]]
    BY <2>1, <2>2
  <2> HIDE DEF bytes, N, h
  <2>8. HeaderAndBytes(<< h >> \o bytes \o << 0, 0 >>, h, bytes, N)
    BY <2>7, DataOfPacket, Zenon
  <2>3. data[1] = 1 /\ data[1 + 1] = bytes[1]
    BY <2>2, <2>8 DEF HeaderAndBytes, N, h
  <2>4. packet.data = data
    BY <1>1 DEF bytes
  <2> HIDE DEF packet, data
  <2>5. QED
    BY <2>1, <2>2, <2>3, <2>4
<1>3. c # "Gen2Select"
  BY DEF G!RepliesWithHeader
<1>4. ~(packet.num_bits < 9) /\ packet.data[1] % 2 = 1
  BY <1>1, <1>2
<1> HIDE DEF packet
<1>5. QED
  BY <1>1, <1>2, <1>3, <1>4 DEF G!decode_reply, packet

(* The count of words in a command that was encoded fits its field.  *)
LEMMA CountFits ==
    ASSUME NEW spec, G!IsTyped(spec), G!encode_gen2_command(spec) # << >>
    PROVE  /\ spec.command = "Gen2Read" => spec.args.word_count \in 0 .. 255
           /\ spec.command = "Gen2BlockPermalock" => spec.args.block_range \in 0 .. 255
<1> DEFINE es == G!gen2_command_encode_table[spec.command]
           args == spec.args
<1>1. \A n \in 1 .. Len(es) : PacksIt(es[n], args)
  BY EncodedIsLaidOut DEF LaidOut
<1>2. ASSUME NEW name, NEW n \in 1 .. Len(es), es[n] = G!Field(name, 8)
      PROVE  args[name] \in 0 .. 255
  <2>1. es[n].kind = "field" /\ es[n].name = name /\ es[n].width = 8
    BY <1>2 DEF G!Field
  <2> HIDE DEF es, args
  <2> DEFINE value == args[name]
  <2>2. value \in Nat /\ G!Shifted(value, 8) = 0
    BY <1>1, <2>1 DEF PacksIt
  <2> HIDE DEF value
  <2>3. value < 256
    BY <2>2, EightShifts, Zenon
  <2>4. value \in 0 .. 255
    BY <2>2, <2>3
  <2>5. QED
    BY <2>4 DEF value
<1>3. ASSUME spec.command = "Gen2Read" PROVE args.word_count \in 0 .. 255
  <2>1. es = G!read_command_encode
    BY <1>3 DEF G!gen2_command_encode_table
  <2>2. Len(es) = 4 /\ es[4] = G!Field("word_count", 8)
    BY <2>1 DEF G!read_command_encode
  <2> HIDE DEF es, args
  <2>3. 4 \in 1 .. Len(es)
    BY <2>2
  <2>4. QED
    BY <1>2, <2>2, <2>3
<1>4. ASSUME spec.command = "Gen2BlockPermalock" PROVE args.block_range \in 0 .. 255
  <2>1. es = G!block_permalock_command_encode
    BY <1>4 DEF G!gen2_command_encode_table
  <2>2. Len(es) = 7 /\ es[6] = G!Field("block_range", 8)
    BY <2>1 DEF G!block_permalock_command_encode
  <2> HIDE DEF es, args
  <2>3. 6 \in 1 .. Len(es)
    BY <2>2
  <2>4. QED
    BY <1>2, <2>2, <2>3
<1>5. QED
  BY <1>3, <1>4

(* The controls of a slot tell the Ex10 the length of the tag's answer.    *)
LEMMA ControlsOfCommand ==
    ASSUME NEW spec, G!IsTyped(spec), G!encode_gen2_command(spec) # << >>,
           spec.command \notin {"Gen2Select", "Gen2Authenticate"}
    PROVE  LET controls == G!get_gen2_tx_control_config(spec)
               W == G!Words(spec)
               header == spec.command \in G!RepliesWithHeader
           IN /\ W \in Nat /\ W > 0
              /\ controls.has_header_bit = header
              /\ controls.rx_length = LengthOf(spec.command, W)
<1> DEFINE controls == G!get_gen2_tx_control_config(spec)
           config == G!transaction_configs[spec.command]
           header == spec.command \in G!RepliesWithHeader
           W == G!Words(spec)
           more == G!MoreBits(spec)
<1>1. spec.command \in G!Commands
  BY DEF G!IsTyped
<1>2. W \in 2 .. 257 /\ more = 16 * (W - 2)
  <2>1. CASE spec.command = "Gen2Read"
    <3>1. spec.args.word_count \in 0 .. 255
      BY <2>1, CountFits
    <3> DEFINE n == spec.args.word_count
    <3>2. W = 2 + n /\ more = n * 16
      BY <2>1 DEF G!Words, G!MoreBits
    <3> HIDE DEF W, more, n
    <3>3. n \in 0 .. 255
      BY <3>1 DEF n
    <3>4. QED
      BY <3>2, <3>3
  <2>2. CASE spec.command = "Gen2BlockPermalock"
    <3>1. spec.args.block_range \in 0 .. 255
      BY <2>2, CountFits
    <3> DEFINE n == spec.args.block_range
               reads == spec.args.read_lock = 0
    <3>2. /\ W = 2 + IF reads THEN n ELSE 0
          /\ more = IF reads THEN n * 16 ELSE 0
      BY <2>2 DEF G!Words, G!MoreBits
    <3> HIDE DEF W, more, n, reads
    <3>3. n \in 0 .. 255
      BY <3>1 DEF n
    <3>4. CASE reads
      BY <3>2, <3>3, <3>4
    <3>5. CASE ~reads
      BY <3>2, <3>5
    <3>6. QED
      BY <3>4, <3>5
  <2>3. CASE spec.command \notin {"Gen2Read", "Gen2BlockPermalock"}
    <3>1. W = 2 + 0 /\ more = 0
      BY <2>3 DEF G!Words, G!MoreBits
    <3> HIDE DEF W, more
    <3>2. QED
      BY <3>1
  <2>4. QED
    BY <2>1, <2>2, <2>3
<1>3. config.has_header_bit = header /\ config.rx_length = IF header THEN 33 ELSE 32
  <2>1. ASSUME header PROVE config.has_header_bit = TRUE
    BY <2>1 DEF G!transaction_configs, G!Controls, G!RepliesWithHeader
  <2>2. ASSUME ~header PROVE config.has_header_bit = FALSE
    BY <1>1, <2>2 DEF G!transaction_configs, G!Controls, G!RepliesWithHeader, G!Commands,
                      G!gen2_command_encode_table
  <2>3. config.rx_length = IF header THEN 33 ELSE 32
    BY <1>1 DEF G!transaction_configs, G!Controls, G!RepliesWithHeader, G!Commands,
                G!gen2_command_encode_table
  <2> HIDE DEF config
  <2>4. header \in BOOLEAN
    OBVIOUS
  <2> HIDE DEF header
  <2>5. config.has_header_bit = header
    BY <2>1, <2>2, <2>4
  <2>6. QED
    BY <2>3, <2>5
<1>4. /\ controls.has_header_bit = config.has_header_bit
      /\ controls.rx_length = (config.rx_length + more) % 65536
  <2>1. config \in [DOMAIN config -> {config[f] : f \in DOMAIN config}]
        /\ {"has_header_bit", "rx_length", "response_type"} \subseteq DOMAIN config
    BY <1>1 DEF G!transaction_configs, G!Controls, G!Commands, G!gen2_command_encode_table
  <2> HIDE DEF config, more
  <2>2. QED
    BY <2>1 DEF G!get_gen2_tx_control_config, config, more
<1>5. \A n \in Nat : n < 256 * 256 => n % 65536 = n
  OBVIOUS
<1> HIDE DEF controls, config, header, W, more
<1>6. config.rx_length + more \in Nat /\ config.rx_length + more < 256 * 256
      /\ config.rx_length + more = 16 * W + IF header THEN 1 ELSE 0
  BY <1>2, <1>3
<1>7. controls.rx_length = 16 * W + IF header THEN 1 ELSE 0
  <2> DEFINE length == config.rx_length + more
  <2>1. length \in Nat /\ length < 256 * 256
    BY <1>6
  <2> HIDE DEF length
  <2>2. length % 65536 = length
    BY <1>5, <2>1
  <2>3. QED
    BY <1>4, <1>6, <2>2 DEF length
<1>8. W \in Nat /\ W > 0
  BY <1>2
<1>9. QED
  BY <1>3, <1>4, <1>7, <1>8 DEF controls, header, W, LengthOf

(* The answers to a command that was encoded are read. *)
LEMMA AnswerFollows ==
    ASSUME NEW spec, G!IsTyped(spec), G!encode_gen2_command(spec) # << >>,
           spec.command \notin {"Gen2Select", "Gen2Authenticate"}
    PROVE  G!AnswerIsRead(spec, G!get_gen2_tx_control_config(spec))
<1> DEFINE c == spec.command
           controls == G!get_gen2_tx_control_config(spec)
           W == G!Words(spec)
           words == G!Payload(spec)
           bytes == G!PayloadBytes(spec)
           header == c \in G!RepliesWithHeader
<1>1. c \notin {"Gen2Select", "Gen2Authenticate"}
  OBVIOUS
<1>2. /\ W \in Nat /\ W > 0
      /\ controls.has_header_bit = header
      /\ controls.rx_length = LengthOf(c, W)
  BY ControlsOfCommand
<1>3. G!TagSendsHeader = G!RepliesWithHeader
  BY DEF G!TagSendsHeader, G!RepliesWithHeader
<1>4. words = [w \in 1 .. W |-> G!PayloadWord(w)]
  BY DEF G!Payload
<1>5. bytes = InBytes(words, W)
  BY DEF G!PayloadBytes, InBytes
<1> HIDE DEF words, bytes, W, controls, c
<1>6. \A w \in 1 .. W : words[w] \in Nat /\ words[w] \div 256 < 256
  <2> SUFFICES ASSUME NEW w \in 1 .. W PROVE words[w] \in Nat /\ words[w] \div 256 < 256
    OBVIOUS
  <2>1. w \in Nat /\ words[w] = G!PayloadWord(w)
    BY <1>2, <1>4
  <2>2. QED
    BY <2>1, WordIsTwoBytes
<1>7. AreWords(words, W)
  BY <1>4, <1>6 DEF AreWords
<1>8. G!decode_reply(c, G!Packet(controls, 0, bytes)) = G!Reply(FALSE, G!NoError, words)
  <2>1. AreTold(c, W, controls, words)
    BY <1>1, <1>2, <1>7 DEF AreTold
  <2>2. G!decode_reply(c, G!Packet(controls, 0, InBytes(words, W))) =
            G!Reply(FALSE, G!NoError, words)
    BY <2>1, ReplyIsRead, Zenon
  <2>3. QED
    BY <1>5, <2>2
<1>9. ASSUME controls.has_header_bit, NEW code \in {0, 4, 15}
      PROVE  G!decode_reply(c, G!Packet(controls, 1, << code, 0, 0, 0, 0 >>)) =
                G!Reply(TRUE, code, << >>)
  <2>1. header
    BY <1>2, <1>9
  <2>2. code # G!NoError
    BY DEF G!NoError
  <2>3. QED
    BY <1>9, <2>1, <2>2, ErrorIsRead
<1>10. (c \in G!TagSendsHeader) = controls.has_header_bit
  BY <1>2, <1>3
<1>11. QED
  BY <1>8, <1>9, <1>10 DEF G!AnswerIsRead, words, bytes, controls, c

(* What Gen2Inv says of the answers of tags. *)
LEMMA AnswersFollow == Gen2Inv => G!AnswersAreRead
<1> SUFFICES ASSUME Gen2Inv, ~torn, NEW i \in Slots,
                    device.lengths[i] # 0,
                    held[i].spec.command \notin {"Gen2Select", "Gen2Authenticate"},
                    ~held[i].again \/ G!IsExact(held[i].spec)
             PROVE  G!AnswerIsRead(held[i].spec, device.controls[i])
  BY DEF G!AnswersAreRead, Slots
<1>1. ChipSlotIsMeant(device, i, held[i])
  BY DEF Gen2Inv, ChipIsMeant
<1>2. /\ held[i].spec \in Specs /\ Len(encoded[held[i].spec]) # 0
      /\ device.controls[i] = G!get_gen2_tx_control_config(held[i].spec)
  BY <1>1 DEF ChipSlotIsMeant
<1> DEFINE spec == held[i].spec
<1>3. Len(<< >>) = 0
  OBVIOUS
<1>4. G!IsTyped(spec) /\ G!encode_gen2_command(spec) # << >>
  BY <1>2, <1>3, CommandsAreTyped DEF Gen2Inv, EncodedOnce
<1>5. QED
  BY <1>2, <1>4, AnswerFollows

(* What it says of decoding. *)
LEMMA DecodingFollows == Gen2Inv => G!DecodeInvertsEncode
BY DEF Gen2Inv, ListIsMeant, SlotIsMeant, G!DecodeInvertsEncode, Slots

-----------------------------------------------------------------------------
(* Quotients as C takes them.                                              *)

(* A quotient is off by less than one. *)
LEMMA QuotientIsNear ==
    ASSUME NEW n \in Int, NEW d \in Nat \ {0}
    PROVE  /\ C!Quotient(n, d) \in Int
           /\ n - d < d * C!Quotient(n, d) /\ d * C!Quotient(n, d) < n + d
<1>1. C!Magnitude(d) = d /\ ~(d < 0)
  BY DEF C!Magnitude
<1>2. CASE n >= 0
  <2>1. C!Quotient(n, d) = n \div d
    BY <1>1, <1>2 DEF C!Quotient, C!Magnitude
  <2> DEFINE q == n \div d
  <2>2. q \in Int /\ n = d * q + (n % d) /\ n % d \in 0 .. d - 1
    OBVIOUS
  <2> HIDE DEF q
  <2>3. QED
    BY <2>1, <2>2 DEF q
<1>3. CASE n < 0
  <2>1. C!Quotient(n, d) = -((-n) \div d)
    BY <1>1, <1>3 DEF C!Quotient, C!Magnitude
  <2> DEFINE q == (-n) \div d
  <2>2. q \in Int /\ -n = d * q + ((-n) % d) /\ (-n) % d \in 0 .. d - 1
    OBVIOUS
  <2>3. d * (-q) = -(d * q)
    BY <2>2
  <2> HIDE DEF q
  <2>4. QED
    BY <2>1, <2>2, <2>3 DEF q
<1>4. QED
  BY <1>2, <1>3

(* A part of a number is no further from zero than the number. *)
LEMMA PartIsWithin ==
    ASSUME NEW d \in Nat \ {0}, NEW a \in 0 .. d, NEW B \in Nat, NEW y \in -B .. B
    PROVE  C!Quotient(a * y, d) \in -B .. B
<1> DEFINE q == C!Quotient(a * y, d)
<1>1. a * y \in Int
  OBVIOUS
<1>2. q \in Int /\ a * y - d < d * q /\ d * q < a * y + d
  BY <1>1, QuotientIsNear
<1>3. a * y <= d * B /\ -(d * B) <= a * y
  <2>1. a * y <= a * B /\ -(a * B) <= a * y
    <3>1. a * (B - y) >= 0 /\ a * (B + y) >= 0
      OBVIOUS
    <3>2. a * (B - y) = a * B - a * y /\ a * (B + y) = a * B + a * y
      OBVIOUS
    <3>3. a * B \in Int
      OBVIOUS
    <3>4. QED
      BY <3>1, <3>2, <3>3, <1>1
  <2>2. a * B <= d * B
    OBVIOUS
  <2>3. a * B \in Int /\ d * B \in Int
    OBVIOUS
  <2>4. QED
    BY <2>1, <2>2, <2>3, <1>1
<1> HIDE DEF q
<1>4. d * q < d * (B + 1) /\ d * (-B - 1) < d * q
  <2>1. d * (B + 1) = d * B + d /\ d * (-B - 1) = -(d * B) - d
    OBVIOUS
  <2>2. d * q \in Int /\ d * B \in Int
    BY <1>2
  <2>3. QED
    BY <1>1, <1>2, <1>3, <2>1, <2>2
<1>5. q < B + 1 /\ -B - 1 < q
  <2>1. ASSUME q >= B + 1 PROVE FALSE
    <3>1. d * (q - (B + 1)) >= 0
      BY <1>2, <2>1
    <3>2. d * (q - (B + 1)) = d * q - d * (B + 1)
      BY <1>2
    <3>3. d * q \in Int /\ d * (B + 1) \in Int
      BY <1>2
    <3>4. QED
      BY <1>4, <3>1, <3>2, <3>3
  <2>2. ASSUME q <= -B - 1 PROVE FALSE
    <3>1. d * ((-B - 1) - q) >= 0
      BY <1>2, <2>2
    <3>2. d * ((-B - 1) - q) = d * (-B - 1) - d * q
      BY <1>2
    <3>3. d * q \in Int /\ d * (-B - 1) \in Int
      BY <1>2
    <3>4. QED
      BY <1>4, <3>1, <3>2, <3>3
  <2>3. QED
    BY <1>2, <2>1, <2>2
<1>6. QED
  BY <1>2, <1>5 DEF q

(* The whole of a number is the number, and none of it is nothing. *)
LEMMA WholeIsExact ==
    ASSUME NEW d \in Nat \ {0}, NEW y \in Int, NEW z \in Int
    PROVE  C!Quotient(d * y, d) = y /\ C!Quotient(0 * z, d) = 0
<1>1. ASSUME NEW n \in Int, NEW m \in Int, n = d * m PROVE C!Quotient(n, d) = m
  <2> DEFINE q == C!Quotient(n, d)
  <2>1. q \in Int /\ d * m - d < d * q /\ d * q < d * m + d
    BY <1>1, QuotientIsNear
  <2> HIDE DEF q
  <2>2. d * (q - m) = d * q - d * m /\ d * q \in Int /\ d * m \in Int /\ d * (q - m) \in Int
    BY <1>1, <2>1
  <2>3. d * (q - m) < d /\ -d < d * (q - m)
    BY <2>1, <2>2
  <2>4. ASSUME NEW k \in Int, d * k < d, -d < d * k PROVE k = 0
    <3>1. k >= 1 => d * (k - 1) >= 0
      OBVIOUS
    <3>2. k <= -1 => d * (-1 - k) >= 0
      OBVIOUS
    <3>3. d * (k - 1) = d * k - d /\ d * (-1 - k) = -d - d * k /\ d * k \in Int
      OBVIOUS
    <3>4. QED
      BY <2>4, <3>1, <3>2, <3>3
  <2>5. q - m = 0
    BY <2>1, <2>3, <2>4
  <2>6. QED
    BY <2>1, <2>5 DEF q
<1>2. d * y \in Int /\ 0 * z = 0 /\ d * 0 = 0
  OBVIOUS
<1>3. QED
  BY <1>1, <1>2

(* Interpolation between integers is an integer, no further from zero than *)
(* twice the largest of them.                                              *)
LEMMA InterpolationIsBounded ==
    ASSUME NEW n \in Nat, n >= 2, NEW x, x \in [1 .. n -> Nat], NEW B \in Nat,
           NEW y, y \in [1 .. n -> -B .. B], Len(x) = n, NEW new \in Nat
    PROVE  C!interpolate(x, y, new) \in -(2 * B) .. 2 * B
<1> DEFINE Above == {j \in 2 .. Len(x) : x[j] >= new}
           i == C!Min(Above)
<1>1. 1 \in 1 .. n /\ n \in 1 .. n /\ -B .. B \subseteq -(2 * B) .. 2 * B
  OBVIOUS
<1>2. CASE new < x[1] \/ new > x[n]
  <2>1. C!interpolate(x, y, new) \in {y[1], y[n]}
    BY <1>2 DEF C!interpolate
  <2>2. y[1] \in -B .. B /\ y[n] \in -B .. B
    BY <1>1
  <2>3. QED
    BY <1>1, <2>1, <2>2
<1>3. CASE ~(new < x[1] \/ new > x[n])
  <2>1. i \in Above /\ \A j \in Above : i <= j
    <3>1. n \in 2 .. Len(x) /\ x[n] >= new
      BY <1>1, <1>3
    <3>2. Above \subseteq Nat
      OBVIOUS
    <3>3. n \in Above
      BY <3>1
    <3> HIDE DEF Above
    <3>4. \E k \in Above : \A j \in Above : k <= j
      BY <3>2, <3>3, LeastNumber
    <3>5. QED
      BY <3>4 DEF C!Min
  <2>2. /\ i \in 2 .. n /\ i \in 1 .. n /\ i - 1 \in 1 .. n /\ x[i] >= new
        /\ i - 1 >= 2 => x[i - 1] < new
    <3>1. i \in 2 .. n /\ x[i] >= new
      BY <2>1
    <3>2. i - 1 \in 1 .. n
      BY <3>1
    <3>3. i - 1 \notin Above
      <4> HIDE DEF Above
      <4>1. ~(i <= i - 1)
        BY <3>1
      <4>2. QED
        BY <2>1, <4>1
    <3>4. i - 1 >= 2 => x[i - 1] < new
      BY <3>2, <3>3
    <3>5. QED
      BY <3>1, <3>2, <3>4
  <2>3. C!interpolate(x, y, new) =
            IF x[i] = new THEN y[i]
            ELSE C!Quotient((x[i] - new) * y[i - 1], x[i] - x[i - 1])
                    + C!Quotient((new - x[i - 1]) * y[i], x[i] - x[i - 1])
    BY <1>3 DEF C!interpolate
  <2> HIDE DEF i
  <2>4. x[i - 1] <= new /\ x[i] \in Nat /\ x[i - 1] \in Nat /\ y[i] \in -B .. B /\ y[i - 1] \in -B .. B
    <3>1. i - 1 = 1 \/ i - 1 >= 2
      BY <2>2
    <3>2. x[1] <= new
      BY <1>1, <1>3
    <3>3. x[i] \in Nat /\ x[i - 1] \in Nat /\ y[i] \in -B .. B /\ y[i - 1] \in -B .. B
      BY <2>2
    <3>4. QED
      BY <2>2, <3>1, <3>2, <3>3
  <2>5. CASE x[i] = new
    BY <1>1, <2>3, <2>4, <2>5
  <2>6. CASE x[i] # new
    <3> DEFINE d == x[i] - x[i - 1]
               a == x[i] - new
               b == new - x[i - 1]
    <3>1. ASSUME NEW p \in Nat, NEW q \in Nat, p <= new, q >= new, q # new
          PROVE  q - p \in Nat \ {0} /\ q - new \in 0 .. q - p /\ new - p \in 0 .. q - p
      BY <3>1
    <3>2. d \in Nat \ {0} /\ a \in 0 .. d /\ b \in 0 .. d
      BY <2>2, <2>4, <2>6, <3>1
    <3>3. C!interpolate(x, y, new) = C!Quotient(a * y[i - 1], d) + C!Quotient(b * y[i], d)
      BY <2>3, <2>6
    <3> HIDE DEF d, a, b
    <3>4. C!Quotient(a * y[i - 1], d) \in -B .. B /\ C!Quotient(b * y[i], d) \in -B .. B
      BY <2>4, <3>2, PartIsWithin
    <3>5. QED
      BY <3>3, <3>4
  <2>7. QED
    BY <2>5, <2>6
<1>4. QED
  BY <1>2, <1>3

(* A table of n points that rise, and integers at them. *)
IsTable(x, y, n) ==
    /\ n \in Nat /\ n >= 2 /\ x \in [1 .. n -> Nat] /\ Len(x) = n /\ y \in [1 .. n -> Int]
    /\ \A h, l \in 1 .. n : h < l => x[h] < x[l]

(* At a point of the table, interpolation gives the value at that point.   *)
LEMMA InterpolationIsExact ==
    ASSUME NEW n, NEW x, NEW y, IsTable(x, y, n), NEW j \in 1 .. n
    PROVE  C!interpolate(x, y, x[j]) = y[j]
<1> n \in Nat /\ n >= 2 /\ x \in [1 .. n -> Nat] /\ Len(x) = n /\ y \in [1 .. n -> Int]
  BY DEF IsTable
<1> DEFINE new == x[j]
           Above == {l \in 2 .. Len(x) : x[l] >= new}
           i == C!Min(Above)
<1>1. 1 \in 1 .. n /\ 2 \in 1 .. n /\ n \in 1 .. n
  OBVIOUS
<1>rising. \A h, l \in 1 .. n : h < l => x[h] < x[l]
  BY DEF IsTable
<1>2. new \in Nat /\ ~(new < x[1]) /\ ~(new > x[n])
  <2>1. j = 1 \/ 1 < j
    OBVIOUS
  <2>2. j = n \/ j < n
    OBVIOUS
  <2>3. x[1] \in Nat /\ x[n] \in Nat /\ x[j] \in Nat
    BY <1>1
  <2>4. x[1] <= x[j]
    BY <1>1, <1>rising, <2>1, <2>3
  <2>5. x[j] <= x[n]
    BY <1>1, <1>rising, <2>2, <2>3
  <2>6. QED
    BY <2>3, <2>4, <2>5
<1>3. i \in Above /\ \A l \in Above : i <= l
  <2>1. n \in 2 .. Len(x) /\ x[n] >= new
    BY <1>1, <1>2
  <2>2. Above \subseteq Nat /\ n \in Above
    <3>1. Above \subseteq Nat
      OBVIOUS
    <3>2. QED
      BY <2>1, <3>1
  <2> HIDE DEF Above
  <2>3. \E k \in Above : \A l \in Above : k <= l
    BY <2>2, LeastNumber
  <2>4. QED
    BY <2>3 DEF C!Min
<1>4. C!interpolate(x, y, new) =
          IF x[i] = new THEN y[i]
          ELSE C!Quotient((x[i] - new) * y[i - 1], x[i] - x[i - 1])
                  + C!Quotient((new - x[i - 1]) * y[i], x[i] - x[i - 1])
  BY <1>2 DEF C!interpolate
<1>5. i \in 2 .. n /\ i \in 1 .. n /\ x[i] >= new
  BY <1>3
<1>6. CASE j >= 2
  <2>1. j \in Above
    BY <1>2, <1>6
  <2>2. i <= j
    BY <1>3, <2>1
  <2>3. i < j => x[i] < x[j]
    BY <1>5, <1>rising
  <2>4. x[i] \in Nat
    BY <1>5
  <2> HIDE DEF i, Above
  <2>5. i = j
    BY <1>2, <1>5, <2>2, <2>3, <2>4
  <2>6. QED
    BY <1>4, <2>5
<1>7. CASE j = 1
  <2>1. x[2] \in Nat /\ x[1] \in Nat /\ x[1] < x[2]
    BY <1>1, <1>rising
  <2>2. 2 \in Above
    BY <1>7, <2>1
  <2>3. i = 2
    <3>1. i <= 2
      BY <1>3, <2>2
    <3> HIDE DEF i
    <3>2. QED
      BY <1>5, <3>1
  <2> DEFINE d == x[2] - x[1]
  <2>4. d \in Nat \ {0} /\ x[2] # new /\ x[2] - new = d /\ new - x[1] = 0
    BY <1>7, <2>1
  <2>5. C!interpolate(x, y, new) = C!Quotient(d * y[1], d) + C!Quotient(0 * y[2], d)
    <3> HIDE DEF i, Above, d
    <3>1. i - 1 = 1
      BY <2>3
    <3>2. QED
      BY <1>4, <2>3, <2>4, <3>1 DEF d
  <2>6. y[1] \in Int /\ y[2] \in Int
    BY <1>1
  <2> HIDE DEF d
  <2>7. C!Quotient(d * y[1], d) = y[1] /\ C!Quotient(0 * y[2], d) = 0
    BY <2>4, <2>6, WholeIsExact
  <2>8. QED
    BY <1>7, <2>5, <2>6, <2>7
<1>8. QED
  BY <1>6, <1>7

-----------------------------------------------------------------------------
(* The calibration in use.                                                 *)

(* The offset of a calibration mode of the second word of its tables.      *)
ModesOf(k) == Luts[1].modes[k]
CorrectionOf(k, i) == Luts[1].correction[C!RxMode(Luts[1], ModesOf(k)[i].mode_id)]
Wide == -8191 .. 8191

(* The analog offsets come from the part, if its calibration is in use.    *)
OffsetsAreFresh ==
    params = part /\ part.version = C!Supported =>
        \A k \in C!FilterKinds : \A i \in DOMAIN ModesOf(k) :
            C!Flashed(part, k, i) # C!None =>
                /\ analog_offset[k][i] =
                        part.rssi.values[C!Flashed(part, k, i)] - CorrectionOf(k, i)
                /\ \A j \in DOMAIN ModesOf(k) : analog_freq[k][j] = ModesOf(k)[j].blf

CalibrationInv ==
    /\ part \in Parts
    /\ cal_version \in {0, part.version}
    /\ rssi_comp \in {C!None} \cup DOMAIN Luts
    /\ params # DefaultParameters => rssi_comp # C!None
    /\ DOMAIN params = C!Groups
    /\ \A g \in C!Groups : params[g] \in {DefaultParameters[g], part[g]}
    /\ DOMAIN analog_offset = C!FilterKinds /\ DOMAIN analog_freq = C!FilterKinds
    /\ \A k \in C!FilterKinds :
            /\ analog_offset[k] \in [DOMAIN ModesOf(k) -> Wide]
            /\ analog_freq[k] \in [DOMAIN ModesOf(k) -> Nat]
    /\ OffsetsAreFresh

(* What the tables are, in the words of the proofs. *)
LEMMA TablesAreMade ==
    /\ DefaultParameters.version # C!Supported
    /\ 1 \in DOMAIN Luts
    /\ \A l \in DOMAIN Luts : l # C!None /\ C!LutIsMade(Luts[l]) /\ C!AsDefault(Luts[l])
    /\ \A p \in Parts \cup {DefaultParameters} : C!ModesAreMeasured(p)
    /\ \A p \in Parts : p.version = C!Supported => C!PartIsMeasured(p)
    /\ RawRssis \subseteq 0 .. 4095 /\ Temperatures \subseteq Int
    /\ Powers \subseteq Int /\ TxFrequencies \subseteq Nat
BY HostLibraryConstants DEF C!CalibrationConstants

(* The calibration modes, and their corrections. *)
LEMMA ModesAreMade ==
    /\ DOMAIN ModesOf("drm") = 1 .. 2 /\ DOMAIN ModesOf("non_drm") = 1 .. 3
    /\ \A k \in C!FilterKinds :
        /\ ModesOf(k) \in Seq([mode_id : Nat, blf : Nat])
        /\ \A i \in DOMAIN ModesOf(k) :
            ModesOf(k)[i].blf \in Nat /\ ModesOf(k)[i].mode_id \in Nat /\ CorrectionOf(k, i) \in C!Small
<1>1. C!LutIsMade(Luts[1])
  BY TablesAreMade
<1>2. Luts[1].modes \in [C!FilterKinds -> Seq([mode_id : Nat, blf : Nat])]
      /\ Len(Luts[1].modes["drm"]) = 2 /\ Len(Luts[1].modes["non_drm"]) = 3
  BY <1>1 DEF C!LutIsMade
<1>3. "drm" \in C!FilterKinds /\ "non_drm" \in C!FilterKinds
  BY DEF C!FilterKinds
<1>4. DOMAIN ModesOf("drm") = 1 .. 2 /\ DOMAIN ModesOf("non_drm") = 1 .. 3
  BY <1>2, <1>3 DEF ModesOf
<1>5. ASSUME NEW k \in C!FilterKinds
      PROVE  /\ ModesOf(k) \in Seq([mode_id : Nat, blf : Nat])
             /\ \A i \in DOMAIN ModesOf(k) :
                    /\ ModesOf(k)[i].blf \in Nat /\ ModesOf(k)[i].mode_id \in Nat
                    /\ CorrectionOf(k, i) \in C!Small
  <2>1. ModesOf(k) \in Seq([mode_id : Nat, blf : Nat])
    BY <1>2 DEF ModesOf
  <2>2. ASSUME NEW i \in DOMAIN ModesOf(k)
        PROVE  /\ ModesOf(k)[i].blf \in Nat /\ ModesOf(k)[i].mode_id \in Nat
               /\ CorrectionOf(k, i) \in C!Small
    <3>1. ModesOf(k)[i] \in [mode_id : Nat, blf : Nat]
      <4>1. ASSUME NEW S, NEW s \in Seq(S), NEW j \in DOMAIN s PROVE s[j] \in S
        BY <4>1
      <4>2. QED
        BY <2>1, <4>1
    <3>2. ModesOf(k)[i].mode_id \in C!ToSet(Luts[1].rf_modes)
      BY <1>1 DEF C!LutIsMade, ModesOf
    <3>3. CorrectionOf(k, i) \in C!Small
      BY <1>1, <3>2 DEF C!LutIsMade, CorrectionOf
    <3>4. QED
      BY <3>1, <3>3
  <2>3. QED
    BY <2>1, <2>2
<1>6. QED
  BY <1>4, <1>5

(* At the start nothing is set up. *)
LEMMA CalibrationInitIsGood == C!Init => CalibrationInv
<1> SUFFICES ASSUME C!Init PROVE CalibrationInv
  OBVIOUS
<1>1. /\ part \in Parts /\ cal_version = 0 /\ params = DefaultParameters /\ rssi_comp = C!None
      /\ analog_offset = [drm |-> <<0, 0>>, non_drm |-> <<0, 0, 0>>]
      /\ analog_freq = analog_offset
  BY DEF C!Init
<1>2. DOMAIN params = C!Groups
  BY <1>1, TablesAreMade DEF C!ModesAreMeasured
<1>3. \A g \in C!Groups : params[g] \in {DefaultParameters[g], part[g]}
  BY <1>1
<1>4. DOMAIN analog_offset = C!FilterKinds /\ DOMAIN analog_freq = C!FilterKinds
  BY <1>1 DEF C!FilterKinds
<1>5. ASSUME NEW k \in C!FilterKinds
      PROVE  /\ analog_offset[k] \in [DOMAIN ModesOf(k) -> Wide]
             /\ analog_freq[k] \in [DOMAIN ModesOf(k) -> Nat]
  <2>1. << 0, 0 >> \in [1 .. 2 -> {0}] /\ << 0, 0, 0 >> \in [1 .. 3 -> {0}]
    OBVIOUS
  <2>2. analog_offset[k] \in [DOMAIN ModesOf(k) -> {0}]
    <3>1. k = "drm" \/ k = "non_drm"
      BY DEF C!FilterKinds
    <3>2. k = "drm" => analog_offset[k] = <<0, 0>> /\ DOMAIN ModesOf(k) = 1 .. 2
      BY <1>1, ModesAreMade
    <3>3. k = "non_drm" => analog_offset[k] = <<0, 0, 0>> /\ DOMAIN ModesOf(k) = 1 .. 3
      BY <1>1, ModesAreMade
    <3>4. QED
      BY <2>1, <3>1, <3>2, <3>3
  <2>3. 0 \in Wide /\ 0 \in Nat
    BY DEF Wide
  <2>4. QED
    BY <1>1, <2>2, <2>3
<1>6. OffsetsAreFresh
  BY <1>1, TablesAreMade DEF OffsetsAreFresh
<1>7. QED
  BY <1>1, <1>2, <1>3, <1>4, <1>5, <1>6 DEF CalibrationInv

(* Reading the calibration: what is read is the part's or was there, the   *)
(* offsets are taken anew from it, and a table and a filter are chosen.    *)
LEMMA ReadingIsGood ==
    ASSUME CalibrationInv, NEW missed \in SUBSET C!Groups, C!cal_init(missed)
    PROVE  CalibrationInv'
<1> DEFINE p == C!parameters_used(C!ReadGroups(missed))
           lut == Luts[rssi_comp']
<1>1. /\ part' = part /\ cal_version' = part.version /\ params' = C!ReadGroups(missed)
      /\ rssi_comp' = IF rssi_comp = C!None THEN 1 ELSE rssi_comp
      /\ C!init_analog_offsets(p, lut)
  BY DEF C!cal_init, C!Setup
<1>2. rssi_comp' \in DOMAIN Luts /\ rssi_comp' # C!None
  BY <1>1, TablesAreMade DEF CalibrationInv
<1>3. C!LutIsMade(lut) /\ C!AsDefault(lut)
  BY <1>2, TablesAreMade
<1>4. lut.modes = Luts[1].modes
  BY <1>3 DEF C!AsDefault
<1>5. DOMAIN params' = C!Groups /\ \A g \in C!Groups : params'[g] \in {DefaultParameters[g], part[g]}
  <2>1. CASE part.version # C!Supported
    BY <1>1, <2>1 DEF C!ReadGroups, CalibrationInv
  <2>2. CASE part.version = C!Supported
    <3>1. params' = [g \in C!Groups |-> IF g \in missed THEN params[g] ELSE part[g]]
      BY <1>1, <2>2 DEF C!ReadGroups
    <3>2. QED
      BY <3>1 DEF CalibrationInv
  <2>3. QED
    BY <2>1, <2>2
<1>6. p.rssi \in {DefaultParameters.rssi, part.rssi}
  BY <1>1, <1>5 DEF C!parameters_used, C!Groups
<1>7. \A k \in C!FilterKinds : \A i \in DOMAIN ModesOf(k) :
          C!Flashed(p, k, i) # C!None => p.rssi.values[C!Flashed(p, k, i)] \in C!Small
  <2>1. C!ModesAreMeasured(part) /\ C!ModesAreMeasured(DefaultParameters)
    BY TablesAreMade DEF CalibrationInv
  <2>2. QED
    BY <1>6, <2>1 DEF C!ModesAreMeasured, C!Flashed, C!IndexInFlash, ModesOf
<1> HIDE DEF p, lut
<1> DEFINE NewOffsets(k) == C!fill_calibration_offsets(p, lut, lut.modes[k], analog_offset[k])
           Frequencies(k) == [i \in DOMAIN lut.modes[k] |-> lut.modes[k][i].blf]
           filled == IF C!AnyFound(p, lut, lut.modes["drm"]) THEN C!FilterKinds ELSE {"drm"}
<1>8. \A k \in C!FilterKinds : C!check_sorted_by_blf(lut.modes[k])
  <2> SUFFICES ASSUME NEW k \in C!FilterKinds, NEW i \in 2 .. Len(lut.modes[k])
               PROVE  lut.modes[k][i - 1].blf <= lut.modes[k][i].blf
    BY DEF C!check_sorted_by_blf
  <2>1. lut.modes[k] \in Seq([mode_id : Nat, blf : Nat])
    BY <1>4, ModesAreMade DEF ModesOf
  <2>2. i \in DOMAIN lut.modes[k] /\ i - 1 \in DOMAIN lut.modes[k] /\ i - 1 < i
    <3>1. Len(lut.modes[k]) \in Nat /\ DOMAIN lut.modes[k] = 1 .. Len(lut.modes[k])
      BY <2>1, LenProperties
    <3>2. QED
      BY <3>1
  <2>3. lut.modes[k][i - 1].blf < lut.modes[k][i].blf
    BY <1>3, <2>2 DEF C!LutIsMade
  <2>4. lut.modes[k][i - 1].blf \in Nat /\ lut.modes[k][i].blf \in Nat
    BY <1>4, <2>2, ModesAreMade DEF ModesOf
  <2>5. QED
    BY <2>3, <2>4
<1>9. /\ analog_offset' = [k \in C!FilterKinds |-> IF k \in filled THEN NewOffsets(k)
                                                    ELSE analog_offset[k]]
      /\ analog_freq' = [k \in C!FilterKinds |-> IF k \in filled THEN Frequencies(k)
                                                  ELSE analog_freq[k]]
  <2>1. C!check_sorted_by_blf(lut.modes.drm) /\ C!check_sorted_by_blf(lut.modes.non_drm)
    BY <1>8 DEF C!FilterKinds
  <2>2. C!init_analog_offsets(p, lut)
    BY <1>1 DEF p, lut
  <2>3. QED
    BY <2>1, <2>2 DEF C!init_analog_offsets
<1>10. ASSUME NEW k \in C!FilterKinds, NEW i \in DOMAIN ModesOf(k)
       PROVE  /\ lut.modes[k][i].mode_id \in C!ToSet(lut.rf_modes)
              /\ lut.correction[C!RxMode(lut, lut.modes[k][i].mode_id)] = CorrectionOf(k, i)
              /\ C!IsCalibrated(p, lut, lut.modes[k][i].mode_id) <=> C!Flashed(p, k, i) # C!None
              /\ C!IndexInFlash(p, lut.modes[k][i].mode_id) = C!Flashed(p, k, i)
  <2>1. lut.modes[k][i].mode_id \in C!ToSet(lut.rf_modes)
    BY <1>3, <1>4 DEF C!LutIsMade, ModesOf
  <2>2. lut.correction[C!RxMode(lut, lut.modes[k][i].mode_id)] = CorrectionOf(k, i)
    BY <1>3, <1>4 DEF C!AsDefault, ModesOf, CorrectionOf
  <2>3. C!IndexInFlash(p, lut.modes[k][i].mode_id) = C!Flashed(p, k, i)
    BY <1>4 DEF C!Flashed
  <2>4. QED
    BY <2>1, <2>2, <2>3 DEF C!IsCalibrated
<1>11. ASSUME NEW k \in C!FilterKinds
       PROVE  NewOffsets(k) = [i \in DOMAIN ModesOf(k) |->
                              IF C!Flashed(p, k, i) # C!None
                              THEN p.rssi.values[C!Flashed(p, k, i)] - CorrectionOf(k, i)
                              ELSE analog_offset[k][i]]
  <2>1. DOMAIN lut.modes[k] = DOMAIN ModesOf(k)
    BY <1>4 DEF ModesOf
  <2>2. QED
    BY <1>10, <2>1 DEF C!fill_calibration_offsets
<1>12. ASSUME NEW k \in C!FilterKinds
       PROVE  /\ NewOffsets(k) \in [DOMAIN ModesOf(k) -> Wide]
              /\ Frequencies(k) = [j \in DOMAIN ModesOf(k) |-> ModesOf(k)[j].blf]
              /\ Frequencies(k) \in [DOMAIN ModesOf(k) -> Nat]
  <2>1. ASSUME NEW i \in DOMAIN ModesOf(k) PROVE NewOffsets(k)[i] \in Wide
    <3>1. analog_offset[k][i] \in Wide
      BY DEF CalibrationInv
    <3>2. CorrectionOf(k, i) \in C!Small
      BY ModesAreMade
    <3>3. C!Flashed(p, k, i) # C!None =>
              p.rssi.values[C!Flashed(p, k, i)] - CorrectionOf(k, i) \in Wide
      <4>1. \A a, b \in C!Small : a - b \in Wide
        BY DEF C!Small, Wide
      <4>2. QED
        BY <1>7, <3>2, <4>1
    <3>4. QED
      BY <1>11, <3>1, <3>3
  <2>2. NewOffsets(k) \in [DOMAIN ModesOf(k) -> Wide]
    <3> HIDE DEF NewOffsets
    <3>1. DOMAIN NewOffsets(k) = DOMAIN ModesOf(k) /\ NewOffsets(k) = [i \in DOMAIN ModesOf(k) |-> NewOffsets(k)[i]]
      BY <1>11
    <3>2. QED
      BY <2>1, <3>1
  <2>3. Frequencies(k) = [j \in DOMAIN ModesOf(k) |-> ModesOf(k)[j].blf]
    BY <1>4 DEF ModesOf
  <2> HIDE DEF Frequencies
  <2>4. Frequencies(k) \in [DOMAIN ModesOf(k) -> Nat]
    BY <2>3, ModesAreMade
  <2>5. QED
    BY <2>2, <2>3, <2>4
<1>13. OffsetsAreFresh'
  <2> SUFFICES ASSUME params' = part, part.version = C!Supported,
                      NEW k \in C!FilterKinds, NEW i \in DOMAIN ModesOf(k),
                      C!Flashed(part, k, i) # C!None
               PROVE  /\ analog_offset'[k][i] =
                            part.rssi.values[C!Flashed(part, k, i)] - CorrectionOf(k, i)
                      /\ \A j \in DOMAIN ModesOf(k) : analog_freq'[k][j] = ModesOf(k)[j].blf
    BY <1>1 DEF OffsetsAreFresh, ModesOf, CorrectionOf
  <2>1. p = part
    BY <1>1 DEF p, C!parameters_used
  <2>2. k \in filled
    <3>1. CASE k = "drm"
      BY <3>1
    <3>2. CASE k = "non_drm"
      <4>1. C!PartIsMeasured(part)
        BY TablesAreMade DEF CalibrationInv
      <4>2. PICK j \in DOMAIN ModesOf("drm") : C!Flashed(part, "drm", j) # C!None
        BY <3>2, <4>1 DEF C!PartIsMeasured, ModesOf
      <4>3. C!IsCalibrated(p, lut, lut.modes["drm"][j].mode_id)
        BY <1>10, <2>1, <4>2 DEF C!FilterKinds
      <4>4. j \in DOMAIN lut.modes["drm"]
        BY <1>4 DEF ModesOf
      <4>5. C!AnyFound(p, lut, lut.modes["drm"])
        BY <4>3, <4>4 DEF C!AnyFound
      <4>6. QED
        BY <4>5
    <3>3. QED
      BY <3>1, <3>2 DEF C!FilterKinds
  <2>3. analog_offset'[k] = NewOffsets(k) /\ analog_freq'[k] = Frequencies(k)
    BY <1>9, <2>2
  <2> HIDE DEF NewOffsets, Frequencies, filled
  <2>4. analog_offset'[k][i] = part.rssi.values[C!Flashed(part, k, i)] - CorrectionOf(k, i)
    BY <1>11, <2>1, <2>3
  <2>5. \A j \in DOMAIN ModesOf(k) : analog_freq'[k][j] = ModesOf(k)[j].blf
    BY <1>12, <2>3
  <2>6. QED
    BY <2>4, <2>5
<1>14. ASSUME NEW k \in C!FilterKinds
       PROVE  /\ analog_offset'[k] \in [DOMAIN ModesOf(k) -> Wide]
              /\ analog_freq'[k] \in [DOMAIN ModesOf(k) -> Nat]
  <2> HIDE DEF NewOffsets, Frequencies, filled
  <2>1. analog_offset'[k] \in {NewOffsets(k), analog_offset[k]}
        /\ analog_freq'[k] \in {Frequencies(k), analog_freq[k]}
    BY <1>9
  <2>2. QED
    BY <1>12, <2>1 DEF CalibrationInv
<1>15. DOMAIN analog_offset' = C!FilterKinds /\ DOMAIN analog_freq' = C!FilterKinds
  BY <1>9
<1>16. part' \in Parts /\ cal_version' \in {0, part'.version}
  BY <1>1 DEF CalibrationInv
<1>17. QED
  BY <1>1, <1>2, <1>5, <1>13, <1>14, <1>15, <1>16 DEF CalibrationInv, ModesOf

(* Every other call leaves what is kept of the calibration. *)
LEMMA CalibrationStepIsGood ==
    ASSUME CalibrationInv, [C!Next]_(C!vars) PROVE CalibrationInv'
<1>1. ASSUME NEW missed \in SUBSET C!Groups, C!cal_init(missed) PROVE CalibrationInv'
  BY <1>1, ReadingIsGood
<1>2. ASSUME part' = part, cal_version' \in {cal_version, part.version}, params' = params,
             rssi_comp' \in {rssi_comp} \cup DOMAIN Luts,
             analog_offset' = analog_offset, analog_freq' = analog_freq
      PROVE  CalibrationInv'
  <2>1. cal_version' \in {0, part.version}
    BY <1>2 DEF CalibrationInv
  <2>2. rssi_comp' \in {C!None} \cup DOMAIN Luts
        /\ (params # DefaultParameters => rssi_comp' # C!None)
    BY <1>2, TablesAreMade DEF CalibrationInv
  <2>3. OffsetsAreFresh'
    BY <1>2 DEF CalibrationInv, OffsetsAreFresh, ModesOf, CorrectionOf
  <2>4. QED
    BY <1>2, <2>1, <2>2, <2>3 DEF CalibrationInv, ModesOf
<1>3. ASSUME NEW version \in {cal_version, part.version}, C!cal_init_fails(version)
      PROVE  CalibrationInv'
  BY <1>2, <1>3 DEF C!cal_init_fails, C!Setup
<1>4. ASSUME NEW lut \in DOMAIN Luts, C!set_rssi_compensation_lut(lut) PROVE CalibrationInv'
  BY <1>2, <1>4 DEF C!set_rssi_compensation_lut, C!Setup
<1>5. ASSUME NEW filter \in DOMAIN DrmModes, C!set_rx_baseband_filter(filter)
      PROVE  CalibrationInv'
  BY <1>2, <1>5 DEF C!set_rx_baseband_filter, C!Setup
<1>6. ASSUME NEW status \in {"auto", "on", "off"}, C!set_drm_status(status)
      PROVE  CalibrationInv'
  BY <1>2, <1>6 DEF C!set_drm_status, C!Setup
<1>7. CASE UNCHANGED C!vars
  BY <1>2, <1>7 DEF C!vars
<1>8. QED
  BY <1>1, <1>3, <1>4, <1>5, <1>6, <1>7 DEF C!Next

-----------------------------------------------------------------------------
(* Strengths there and back.                                               *)

(* A calibration in use is the part's, with a table. *)
LEMMA PartIsInUse ==
    ASSUME CalibrationInv, C!Calibrated
    PROVE  /\ C!get_params = part /\ cal_version = C!Supported /\ params = part
           /\ part \in Parts /\ part.version = C!Supported /\ C!PartIsMeasured(part)
           /\ rssi_comp \in DOMAIN Luts /\ rssi_comp # C!None
<1>1. cal_version = C!Supported /\ params = part
  BY DEF C!Calibrated
<1>2. part.version = C!Supported
  BY <1>1 DEF CalibrationInv, C!Supported
<1>3. C!get_params = part
  BY <1>1, <1>2 DEF C!get_params, C!parameters_used
<1>4. rssi_comp # C!None
  BY <1>1, <1>2, TablesAreMade DEF CalibrationInv
<1>5. QED
  BY <1>1, <1>2, <1>3, <1>4, TablesAreMade DEF CalibrationInv

(* The points of the analog offsets. *)
LEMMA PointsAreMade ==
    ASSUME CalibrationInv, NEW k \in C!FilterKinds
    PROVE  \E n \in {2, 3} :
              /\ DOMAIN ModesOf(k) = 1 .. n
              /\ analog_freq[k] \in [1 .. n -> Nat] /\ Len(analog_freq[k]) = n
              /\ analog_offset[k] \in [1 .. n -> Wide]
<1>1. PICK n \in {2, 3} : DOMAIN ModesOf(k) = 1 .. n
  BY ModesAreMade DEF C!FilterKinds
<1>2. analog_freq[k] \in [1 .. n -> Nat] /\ analog_offset[k] \in [1 .. n -> Wide]
  BY <1>1 DEF CalibrationInv
<1>3. ASSUME NEW m \in Nat, NEW s \in [1 .. m -> Nat] PROVE Len(s) = m
  OBVIOUS
<1>4. Len(analog_freq[k]) = n
  BY <1>2, <1>3
<1>5. QED
  BY <1>1, <1>2, <1>4

(* What filters and frequency add is bounded. *)
LEMMA AnalogOffsetIsBounded ==
    ASSUME CalibrationInv, NEW k \in C!FilterKinds, NEW freq \in Nat
    PROVE  LET points == C!get_analog_baseband_freq_offset(freq, k)
           IN points \in Int /\ -16382 <= points /\ points <= 16382
<1> DEFINE B == 8191
           x == analog_freq[k]
           y == analog_offset[k]
           points == C!interpolate(x, y, freq)
<1>1. PICK n \in {2, 3} : x \in [1 .. n -> Nat] /\ Len(x) = n /\ y \in [1 .. n -> Wide]
  BY PointsAreMade
<1>2. Wide = -B .. B /\ B \in Nat
  BY DEF Wide
<1>3. n \in Nat /\ n >= 2
  OBVIOUS
<1> HIDE DEF B, x, y
<1>4. points \in -(2 * B) .. 2 * B
  BY <1>1, <1>2, <1>3, InterpolationIsBounded
<1> HIDE DEF points
<1>5. points \in Int /\ -16382 <= points /\ points <= 16382
  BY <1>4, SMT DEF B
<1>6. QED
  BY <1>5 DEF points, x, y, C!get_analog_baseband_freq_offset

(* The corrections of a reading are bounded. *)
LEMMA OffsetsAreBounded ==
    ASSUME CalibrationInv, C!Calibrated, NEW s \in C!RxSettings, NEW temp \in Temperatures,
           NEW mode \in C!ToSet(Luts[rssi_comp].rf_modes)
    PROVE  /\ C!Offsets(mode, s, temp) \in Int /\ C!Offsets(mode, s, temp) >= -27500
           /\ C!LbtOffsets(s, temp) \in Int
<1> DEFINE lut == Luts[rssi_comp]
           gain == C!get_gain_offset(part, s)
           warm == C!get_temp_offset(part, temp)
           own == C!get_mode_rssi_offset(mode, C!get_rf_mode_baseband_freq_khz(mode))
           heard == C!get_lbt_baseband_offset
<1>1. /\ C!get_params = part /\ C!PartIsMeasured(part)
      /\ rssi_comp \in DOMAIN Luts /\ rssi_comp # C!None
  BY PartIsInUse
<1>2. C!LutIsMade(lut)
  BY <1>1, TablesAreMade
<1>3. gain \in C!Small
  <2>1. PICK m \in {1, 2} : s \in [DOMAIN part.rssi.gains -> {m}]
    BY <1>1 DEF C!RxSettings
  <2>2. QED
    BY <1>1, <2>1 DEF C!PartIsMeasured
<1>4. warm \in -2600 .. 2600
  <2> DEFINE t == temp - part.rssi.temp_intercept
             n == -616 * t + 500
             q == C!Quotient(n, 1000)
  <2>1. t \in C!Small
    BY <1>1 DEF C!PartIsMeasured
  <2>2. warm \in {0, q}
    BY DEF C!get_temp_offset
  <2> HIDE DEF t
  <2>3. n \in Int /\ n <= 2523636 /\ -2523636 <= n
    BY <2>1 DEF C!Small
  <2> HIDE DEF n
  <2>4. q \in Int /\ n - 1000 < 1000 * q /\ 1000 * q < n + 1000
    BY <2>3, QuotientIsNear
  <2> HIDE DEF q, warm
  <2>5. q \in -2600 .. 2600
    BY <2>3, <2>4
  <2>6. QED
    BY <2>2, <2>5
<1>5. own \in Int /\ -20478 <= own /\ own <= 20478
  <2> DEFINE freq == C!get_rf_mode_baseband_freq_khz(mode)
             kind == IF C!rf_mode_is_drm(mode) THEN "drm" ELSE "non_drm"
             points == C!get_analog_baseband_freq_offset(C!Magnitude(freq), kind)
             correction == lut.correction[C!RxMode(lut, mode)]
  <2>1. own \in {-1, points + correction}
    BY <1>1 DEF C!get_mode_rssi_offset
  <2>2. correction \in C!Small
    BY <1>2 DEF C!LutIsMade
  <2>3. C!Magnitude(freq) \in Nat
    <3>1. freq \in Nat
      BY <1>1, <1>2 DEF C!get_rf_mode_baseband_freq_khz, C!LutIsMade
    <3>2. QED
      BY <3>1 DEF C!Magnitude
  <2>4. kind \in C!FilterKinds
    BY DEF C!FilterKinds
  <2> HIDE DEF freq, kind
  <2>5. points \in Int /\ -16382 <= points /\ points <= 16382
    BY <2>3, <2>4, AnalogOffsetIsBounded
  <2> HIDE DEF points, correction, own
  <2>6. QED
    BY <2>1, <2>2, <2>5 DEF C!Small
<1>6. heard \in Int
  <2>1. "non_drm" \in C!FilterKinds /\ lut.lbt_shift \in Nat /\ lut.lbt_correction \in C!Small
    BY <1>2 DEF C!FilterKinds, C!LutIsMade
  <2>2. C!get_analog_baseband_freq_offset(lut.lbt_shift, "non_drm") \in Int
    BY <2>1, AnalogOffsetIsBounded
  <2>3. heard = C!get_analog_baseband_freq_offset(lut.lbt_shift, "non_drm") + lut.lbt_correction
    BY DEF C!get_lbt_baseband_offset
  <2>4. \A c \in C!Small : c \in Int
    BY DEF C!Small
  <2>5. lut.lbt_correction \in Int
    BY <2>1, <2>4
  <2>6. \A a, b \in Int : a + b \in Int
    OBVIOUS
  <2> HIDE DEF heard, lut
  <2>7. QED
    BY <2>2, <2>3, <2>5, <2>6
<1>7. C!Offsets(mode, s, temp) = gain + warm + own /\ C!LbtOffsets(s, temp) = gain + warm + heard
  BY <1>1 DEF C!Offsets, C!LbtOffsets
<1> HIDE DEF gain, warm, own, heard
<1>8. QED
  BY <1>3, <1>4, <1>5, <1>6, <1>7 DEF C!Small

(* In cdBm and back, a strength is the same or the next one. *)
LEMMA ThereAndBack ==
    ASSUME NEW p, p.rssi.default_log2 \in Int, p.rssi.default_cdbm \in Int, NEW v \in Nat, v <= 32000
    PROVE  C!int16(C!cdbm_to_log2(p, C!log2_to_cdbm(p, v))) \in {v, v + 1}
<1> DEFINE L == p.rssi.default_log2
           D == p.rssi.default_cdbm
           n == (v - L) * 470 + D * 100 + 50
           cdbm == C!Quotient(n, 100)
           m == (cdbm - D) * 100 + 235
           q == C!Quotient(m, 470)
<1>1. C!cdbm_to_log2(p, C!log2_to_cdbm(p, v)) = (q + L) % 65536
  BY DEF C!cdbm_to_log2, C!log2_to_cdbm, C!uint16
<1>2. L \in Int /\ D \in Int
  OBVIOUS
<1> HIDE DEF L, D
<1>3. n \in Int
  BY <1>2
<1>4. cdbm \in Int /\ n - 100 < 100 * cdbm /\ 100 * cdbm < n + 100
  <2> HIDE DEF n
  <2>1. QED
    BY <1>3, QuotientIsNear
<1> HIDE DEF cdbm
<1>5. m \in Int /\ 470 * (v - L) + 185 < m /\ m < 470 * (v - L) + 385
  BY <1>2, <1>4
<1>6. q \in Int /\ m - 470 < 470 * q /\ 470 * q < m + 470
  <2> HIDE DEF m
  <2>1. QED
    BY <1>5, QuotientIsNear
<1> HIDE DEF m, q
<1>7. q + L \in {v, v + 1}
  BY <1>2, <1>5, <1>6
<1> DEFINE back == q + L
<1>8. back \in Nat /\ back <= 32001
  BY <1>7
<1> HIDE DEF back
<1>9. C!int16(back % 65536) = back
  BY <1>8 DEF C!int16
<1>10. QED
  BY <1>1, <1>7, <1>9 DEF back

(* What a reading and listening give, for the same strength. *)
LEMMA StrengthComesBack == CalibrationInv => C!RssiRoundTrips
<1> SUFFICES ASSUME CalibrationInv, C!Calibrated, NEW s \in C!RxSettings,
                    NEW temp \in Temperatures,
                    NEW mode \in C!ToSet(Luts[rssi_comp].rf_modes), NEW raw \in RawRssis,
                    raw >= C!Offsets(mode, s, temp)
             PROVE  LET cdbm == C!get_compensated_rssi(raw, mode, s, temp)
                        heard == raw - C!Offsets(mode, s, temp) + C!LbtOffsets(s, temp)
                    IN /\ C!Magnitude(C!get_rssi_log2(cdbm, mode, s, temp) - raw) <= 1
                       /\ C!get_compensated_lbt_rssi(heard, s, temp) = cdbm
  BY DEF C!RssiRoundTrips
<1> DEFINE off == C!Offsets(mode, s, temp)
           lbt == C!LbtOffsets(s, temp)
           v == raw - off
           cdbm == C!get_compensated_rssi(raw, mode, s, temp)
           back == C!int16(C!cdbm_to_log2(part, cdbm))
           log2 == back + off
<1>1. /\ C!get_params = part /\ cal_version = C!Supported /\ C!PartIsMeasured(part)
      /\ rssi_comp # C!None
  BY PartIsInUse
<1>2. off \in Int /\ off >= -27500 /\ lbt \in Int
  BY OffsetsAreBounded
<1>3. raw \in Nat /\ raw <= 4095 /\ raw >= off
  BY TablesAreMade
<1> HIDE DEF off, lbt
<1>4. v \in Nat /\ v <= 32000 /\ v % 65536 = v
  <2>1. v \in Nat /\ v <= 32000
    BY <1>2, <1>3
  <2> HIDE DEF v
  <2>2. QED
    BY <2>1
<1>5. cdbm = C!log2_to_cdbm(part, v)
  BY <1>1, <1>4 DEF C!get_compensated_rssi, C!uint16, off
<1>6. C!get_compensated_lbt_rssi(v + lbt, s, temp) = cdbm
  <2>1. (v + lbt) - lbt = v
    BY <1>2, <1>4
  <2>2. QED
    BY <1>1, <1>4, <1>5, <2>1 DEF C!get_compensated_lbt_rssi, C!uint16, lbt
<1>7. C!get_rssi_log2(cdbm, mode, s, temp) = IF log2 <= 0 THEN 0 ELSE log2
  BY <1>1 DEF C!get_rssi_log2, off
<1> HIDE DEF cdbm
<1>8. back \in {v, v + 1}
  <2>1. part.rssi.default_log2 \in Int /\ part.rssi.default_cdbm \in Int
    BY <1>1 DEF C!PartIsMeasured
  <2> HIDE DEF v
  <2>2. C!int16(C!cdbm_to_log2(part, C!log2_to_cdbm(part, v))) \in {v, v + 1}
    BY <1>4, <2>1, ThereAndBack
  <2>3. QED
    BY <1>5, <2>2
<1> HIDE DEF back
<1>9. log2 \in {raw, raw + 1}
  BY <1>2, <1>3, <1>8
<1> HIDE DEF log2, v
<1>10. (IF log2 <= 0 THEN 0 ELSE log2) - raw \in {0, 1}
  BY <1>3, <1>9
<1>11. C!Magnitude(C!get_rssi_log2(cdbm, mode, s, temp) - raw) <= 1
  BY <1>7, <1>10 DEF C!Magnitude
<1>12. QED
  BY <1>6, <1>11 DEF v, off, lbt, cdbm

(* At the frequency of a calibration mode its own offset is found. *)
LEMMA PointIsExact ==
    ASSUME CalibrationInv, NEW k \in C!FilterKinds, NEW i \in DOMAIN ModesOf(k),
           \A j \in DOMAIN ModesOf(k) : analog_freq[k][j] = ModesOf(k)[j].blf
    PROVE  C!get_analog_baseband_freq_offset(analog_freq[k][i], k) = analog_offset[k][i]
<1> DEFINE x == analog_freq[k]
           y == analog_offset[k]
<1>1. PICK n \in {2, 3} : /\ DOMAIN ModesOf(k) = 1 .. n
                          /\ x \in [1 .. n -> Nat] /\ Len(x) = n /\ y \in [1 .. n -> Wide]
  BY PointsAreMade
<1>2. \A h, l \in 1 .. n : h < l => x[h] < x[l]
  <2>1. C!LutIsMade(Luts[1])
    BY TablesAreMade
  <2>2. \A h, l \in DOMAIN ModesOf(k) : h < l => ModesOf(k)[h].blf < ModesOf(k)[l].blf
    BY <2>1 DEF C!LutIsMade, ModesOf
  <2>3. \A h \in 1 .. n : x[h] = ModesOf(k)[h].blf
    BY <1>1
  <2> HIDE DEF x
  <2>4. QED
    BY <1>1, <2>2, <2>3
<1>3. y \in [1 .. n -> Int]
  <2>1. Wide \subseteq Int
    BY DEF Wide
  <2> HIDE DEF y
  <2>2. QED
    BY <1>1, <2>1
<1> HIDE DEF x, y
<1>4. IsTable(x, y, n)
  <2>1. n \in Nat /\ n >= 2
    OBVIOUS
  <2>2. QED
    BY <1>1, <1>2, <1>3, <2>1 DEF IsTable
<1>5. i \in 1 .. n
  BY <1>1
<1>6. C!interpolate(x, y, x[i]) = y[i]
  BY <1>4, <1>5, InterpolationIsExact
<1>7. QED
  BY <1>6 DEF x, y, C!get_analog_baseband_freq_offset

(* At a calibration mode the digital correction goes out and comes back.   *)
LEMMA ModeIsExact == CalibrationInv => C!CalibratedModeIsExact
<1> SUFFICES ASSUME CalibrationInv, C!Calibrated, rx_baseband_filter # C!None,
                    NEW k \in C!FilterKinds, NEW m \in C!ToSet(Luts[rssi_comp].modes[k]),
                    C!IndexInFlash(part, m.mode_id) # C!None,
                    C!rf_mode_is_drm(m.mode_id) = (k = "drm")
             PROVE  C!get_mode_rssi_offset(m.mode_id, C!get_rf_mode_baseband_freq_khz(m.mode_id))
                        = part.rssi.values[C!IndexInFlash(part, m.mode_id)]
  BY DEF C!CalibratedModeIsExact
<1> DEFINE lut == Luts[rssi_comp]
           mode == m.mode_id
           value == part.rssi.values[C!IndexInFlash(part, mode)]
           freq == C!get_rf_mode_baseband_freq_khz(mode)
           correction == lut.correction[C!RxMode(lut, mode)]
<1>1. /\ params = part /\ part \in Parts /\ part.version = C!Supported
      /\ rssi_comp \in DOMAIN Luts /\ rssi_comp # C!None
  BY PartIsInUse
<1>2. C!LutIsMade(lut) /\ C!AsDefault(lut) /\ C!ModesAreMeasured(part)
  BY <1>1, TablesAreMade
<1>3. lut.modes[k] = ModesOf(k)
  BY <1>2 DEF C!AsDefault, ModesOf
<1>4. PICK i \in DOMAIN ModesOf(k) : m = ModesOf(k)[i]
  BY <1>3 DEF C!ToSet
<1>5. /\ mode \in C!ToSet(lut.rf_modes) /\ lut.blf_khz[C!RxMode(lut, mode)] = ModesOf(k)[i].blf
      /\ correction = CorrectionOf(k, i)
  BY <1>2, <1>3, <1>4 DEF C!LutIsMade, C!AsDefault, CorrectionOf, ModesOf
<1>6. C!Flashed(part, k, i) = C!IndexInFlash(part, mode)
  BY <1>4 DEF C!Flashed, ModesOf
<1>7. value \in C!Small
  BY <1>2, <1>6 DEF C!ModesAreMeasured, ModesOf
<1>8. /\ analog_offset[k][i] = value - CorrectionOf(k, i)
      /\ \A j \in DOMAIN ModesOf(k) : analog_freq[k][j] = ModesOf(k)[j].blf
  BY <1>1, <1>6 DEF CalibrationInv, OffsetsAreFresh
<1>9. freq = analog_freq[k][i] /\ analog_freq[k][i] \in Nat
  BY <1>1, <1>5, <1>8, ModesAreMade DEF C!get_rf_mode_baseband_freq_khz
<1>10. C!get_analog_baseband_freq_offset(freq, k) = analog_offset[k][i]
  BY <1>8, <1>9, PointIsExact
<1>11. C!get_mode_rssi_offset(mode, freq) =
          C!get_analog_baseband_freq_offset(freq, k) + correction
  <2>1. (IF C!rf_mode_is_drm(mode) THEN "drm" ELSE "non_drm") = k
    BY DEF C!FilterKinds
  <2>2. C!Magnitude(freq) = freq
    BY <1>9 DEF C!Magnitude
  <2> HIDE DEF freq, mode, correction
  <2>3. ~(C!None \in {rssi_comp, rx_baseband_filter})
    BY <1>1
  <2>4. C!get_mode_rssi_offset(mode, freq) =
            C!get_analog_baseband_freq_offset(C!Magnitude(freq),
                IF C!rf_mode_is_drm(mode) THEN "drm" ELSE "non_drm") + correction
    BY <1>5, <2>3 DEF C!get_mode_rssi_offset, correction
  <2>5. QED
    BY <2>1, <2>2, <2>4
<1>12. CorrectionOf(k, i) \in C!Small
  BY ModesAreMade
<1> HIDE DEF value, freq, mode, correction
<1>13. C!get_mode_rssi_offset(mode, freq) = value
  <2> DEFINE c == CorrectionOf(k, i)
  <2>1. C!get_mode_rssi_offset(mode, freq) = (value - c) + c
    BY <1>5, <1>8, <1>10, <1>11
  <2>2. value \in Int /\ c \in Int
    <3>1. \A a \in C!Small : a \in Int
      BY DEF C!Small
    <3>2. QED
      BY <1>7, <1>12, <3>1
  <2> HIDE DEF c
  <2>3. (value - c) + c = value
    BY <2>2
  <2>4. QED
    BY <2>1, <2>3
<1>14. QED
  BY <1>13 DEF value, freq, mode

-----------------------------------------------------------------------------
(* The attenuator of a power.                                              *)

(* Between points of a table an integer is found. *)
LEMMA BetweenIsNumber ==
    ASSUME NEW n, NEW x, NEW y, IsTable(x, y, n), NEW new \in Nat
    PROVE  C!Interpolated(x, y, new) \in Int
<1> n \in Nat /\ n >= 2 /\ x \in [1 .. n -> Nat] /\ Len(x) = n /\ y \in [1 .. n -> Int]
  BY DEF IsTable
<1> DEFINE Above == {l \in 2 .. Len(x) : x[l] >= new}
           i == C!Min(Above)
<1>1. 1 \in 1 .. n /\ n \in 1 .. n
  OBVIOUS
<1>2. CASE new < x[1] \/ new > x[n]
  <2>1. C!Interpolated(x, y, new) \in {y[1], y[n]}
    BY <1>2 DEF C!Interpolated
  <2>2. y[1] \in Int /\ y[n] \in Int
    BY <1>1
  <2>3. QED
    BY <2>1, <2>2
<1>3. CASE ~(new < x[1] \/ new > x[n])
  <2>1. i \in Above
    <3>1. n \in 2 .. Len(x) /\ x[n] >= new
      BY <1>1, <1>3
    <3>2. Above \subseteq Nat
      OBVIOUS
    <3>3. n \in Above
      BY <3>1
    <3> HIDE DEF Above
    <3>4. \E k \in Above : \A l \in Above : k <= l
      BY <3>2, <3>3, LeastNumber
    <3>5. QED
      BY <3>4 DEF C!Min
  <2>2. C!Interpolated(x, y, new) =
            y[i - 1] + C!Quotient((new - x[i - 1]) * (y[i] - y[i - 1]), x[i] - x[i - 1])
    BY <1>3 DEF C!Interpolated
  <2>3. i \in 2 .. n
    BY <2>1
  <2> HIDE DEF i
  <2> DEFINE h == i - 1
  <2>4. h \in 1 .. n /\ i \in 1 .. n /\ h < i
    BY <2>3
  <2> HIDE DEF h
  <2>5. x[h] < x[i]
    BY <2>4 DEF IsTable
  <2>6. x[h] \in Nat /\ x[i] \in Nat /\ y[h] \in Int /\ y[i] \in Int
    BY <2>4
  <2>7. x[i] - x[h] \in Nat \ {0} /\ (new - x[h]) * (y[i] - y[h]) \in Int
    <3>1. x[i] - x[h] \in Nat \ {0}
      BY <2>5, <2>6
    <3>2. new - x[h] \in Int /\ y[i] - y[h] \in Int
      BY <2>6
    <3>3. \A a, b \in Int : a * b \in Int
      OBVIOUS
    <3>4. (new - x[h]) * (y[i] - y[h]) \in Int
      BY <3>2, <3>3, Zenon
    <3>5. QED
      BY <3>1, <3>4
  <2>8. C!Quotient((new - x[h]) * (y[i] - y[h]), x[i] - x[h]) \in Int
    BY <2>7, QuotientIsNear
  <2>9. C!Interpolated(x, y, new) =
            y[h] + C!Quotient((new - x[h]) * (y[i] - y[h]), x[i] - x[h])
    BY <2>2 DEF h
  <2>10. \A a, b \in Int : a + b \in Int
    OBVIOUS
  <2>11. QED
    BY <2>6, <2>8, <2>9, <2>10
<1>4. QED
  BY <1>2, <1>3

(* Falling powers from one on. *)
Falls(powers, start, n) ==
    /\ n \in Nat /\ start \in 1 .. n /\ powers \in [1 .. n -> Int] /\ Len(powers) = n
    /\ \A i, j \in start .. n : i < j => powers[j] < powers[i]

(* In falling powers, one that is as near as the next is the nearest of    *)
(* those that follow, if it is the first one that is so the nearest of all. *)
LEMMA FirstNearIsNearest ==
    ASSUME NEW powers, NEW start, NEW n, Falls(powers, start, n), NEW p \in Int,
           NEW c \in start .. n, C!NoFurther(powers, p, c),
           \A i \in start .. n : i < c => ~C!NoFurther(powers, p, i)
    PROVE  \A i \in start .. n : C!Magnitude(powers[c] - p) <= C!Magnitude(powers[i] - p)
<1> n \in Nat /\ start \in 1 .. n /\ powers \in [1 .. n -> Int] /\ Len(powers) = n
  BY DEF Falls
<1> SUFFICES ASSUME NEW i \in start .. n
             PROVE  C!Magnitude(powers[c] - p) <= C!Magnitude(powers[i] - p)
  OBVIOUS
<1>1. i \in 1 .. n /\ c \in 1 .. n
  OBVIOUS
<1>2. powers[i] \in Int /\ powers[c] \in Int
  BY <1>1
<1>3. CASE i = c
  BY <1>2, <1>3 DEF C!Magnitude
<1>4. CASE i > c
  <2> DEFINE d == c + 1
  <2>1. d \in start .. n /\ d \in 1 .. n /\ c < d /\ (d = i \/ d < i) /\ c # n
    BY <1>4
  <2>2. C!Magnitude(powers[c] - p) <= C!Magnitude(powers[d] - p)
    BY <2>1 DEF C!NoFurther
  <2> HIDE DEF d
  <2>3. powers[d] < powers[c] /\ (d < i => powers[i] < powers[d])
    BY <2>1 DEF Falls
  <2>4. powers[d] \in Int
    BY <2>1
  <2>5. powers[i] <= powers[d]
    BY <1>2, <2>1, <2>3, <2>4
  <2>6. ASSUME NEW a \in Int, NEW b \in Int, NEW e \in Int, b < a, e <= b,
               C!Magnitude(a - p) <= C!Magnitude(b - p)
        PROVE  C!Magnitude(a - p) <= C!Magnitude(e - p)
    BY <2>6 DEF C!Magnitude
  <2>7. QED
    BY <1>2, <2>2, <2>3, <2>4, <2>5, <2>6
<1>5. CASE i < c
  <2> DEFINE d == c - 1
  <2>1. d \in start .. n /\ d \in 1 .. n /\ d < c /\ (d = i \/ i < d) /\ d + 1 = c /\ d # n
    BY <1>5
  <2> HIDE DEF d
  <2>2. ~(C!Magnitude(powers[d] - p) <= C!Magnitude(powers[c] - p))
    BY <2>1 DEF C!NoFurther
  <2>3. powers[c] < powers[d] /\ (i < d => powers[d] < powers[i])
    BY <2>1 DEF Falls
  <2>4. powers[d] \in Int
    BY <2>1
  <2>5. powers[d] <= powers[i]
    BY <1>2, <2>1, <2>3, <2>4
  <2>6. ASSUME NEW a \in Int, NEW b \in Int, NEW e \in Int, a < b, b <= e,
               ~(C!Magnitude(b - p) <= C!Magnitude(a - p))
        PROVE  C!Magnitude(a - p) <= C!Magnitude(e - p)
    BY <2>6 DEF C!Magnitude
  <2>7. QED
    BY <1>2, <2>2, <2>3, <2>4, <2>5, <2>6
<1>6. QED
  BY <1>3, <1>4, <1>5

(* Above the first power, that one is the nearest. *)
LEMMA FirstIsNearestBelow ==
    ASSUME NEW powers, NEW start, NEW n, Falls(powers, start, n), NEW p \in Int,
           p > powers[start]
    PROVE  \A i \in start .. n : C!Magnitude(powers[start] - p) <= C!Magnitude(powers[i] - p)
<1> n \in Nat /\ start \in 1 .. n /\ powers \in [1 .. n -> Int] /\ Len(powers) = n
  BY DEF Falls
<1> SUFFICES ASSUME NEW i \in start .. n
             PROVE  C!Magnitude(powers[start] - p) <= C!Magnitude(powers[i] - p)
  OBVIOUS
<1>1. i \in 1 .. n /\ start \in start .. n /\ (i = start \/ start < i)
  OBVIOUS
<1>2. powers[i] \in Int /\ powers[start] \in Int
  BY <1>1
<1>3. start < i => powers[i] < powers[start]
  BY <1>1 DEF Falls
<1>4. powers[i] <= powers[start]
  BY <1>1, <1>2, <1>3
<1>5. QED
  BY <1>2, <1>4 DEF C!Magnitude

(* The attenuation chosen is the nearest of those that were measured. *)
LEMMA ChosenIsNearest ==
    ASSUME NEW where, NEW power, C!TableIsMeasured(C!Table(where)),
           C!CompensatedPower(power, where) \in Int
    PROVE  LET powers == C!Table(where).coarse_attn_cal
               chosen == C!choose_coarse_atten_v5(power, where) + 1
               p == C!CompensatedPower(power, where)
           IN /\ powers[chosen] # C!Cleared
              /\ \A i \in DOMAIN powers :
                    powers[i] # C!Cleared =>
                        C!Magnitude(powers[chosen] - p) <= C!Magnitude(powers[i] - p)
<1> DEFINE powers == C!Table(where).coarse_attn_cal
           n == Len(powers)
           p == C!CompensatedPower(power, where)
           Valid == {i \in DOMAIN powers : powers[i] < C!Cleared}
           start == C!Min(Valid)
           Near == {i \in start .. n : C!NoFurther(powers, p, i)}
           chosen == C!choose_coarse_atten_v5(power, where) + 1
<1>1. /\ powers \in Seq(Int) /\ \E i \in DOMAIN powers : powers[i] # C!Cleared
      /\ \A i, j \in DOMAIN powers :
            /\ powers[i] <= C!Cleared
            /\ i < j /\ powers[i] # C!Cleared => powers[j] < powers[i]
  BY DEF C!TableIsMeasured
<1> HIDE DEF powers, p
<1>2. n \in Nat /\ powers \in [1 .. n -> Int] /\ DOMAIN powers = 1 .. n
  BY <1>1, LenProperties
<1> HIDE DEF n
<1>3. C!Cleared \in Int
  BY DEF C!Cleared
<1>4. \A i \in 1 .. n : powers[i] # C!Cleared <=> powers[i] < C!Cleared
  <2> SUFFICES ASSUME NEW i \in 1 .. n PROVE powers[i] # C!Cleared <=> powers[i] < C!Cleared
    OBVIOUS
  <2>1. powers[i] <= C!Cleared /\ powers[i] \in Int
    BY <1>1, <1>2
  <2>2. QED
    BY <1>3, <2>1
<1>5. start \in Valid /\ \A i \in Valid : start <= i
  <2>1. Valid \subseteq Nat
    BY <1>2
  <2>2. Valid # {}
    BY <1>1, <1>2, <1>4
  <2> HIDE DEF Valid
  <2>3. \E k \in Valid : \A l \in Valid : k <= l
    BY <2>1, <2>2, LeastNumber
  <2>4. QED
    BY <2>3 DEF C!Min
<1>6. start \in 1 .. n /\ powers[start] < C!Cleared
  BY <1>2, <1>5
<1>7. C!FirstValid(powers, C!None) = start
  BY <1>5 DEF C!FirstValid, C!FirstIndex
<1>8. start # C!None
  BY <1>6 DEF C!None
<1>9. \A i \in 1 .. n : powers[i] # C!Cleared => i \in start .. n
  <2> SUFFICES ASSUME NEW i \in 1 .. n, powers[i] # C!Cleared PROVE i \in start .. n
    OBVIOUS
  <2>1. i \in Valid
    BY <1>2, <1>4
  <2>2. start <= i
    BY <1>5, <2>1
  <2> HIDE DEF start
  <2>3. QED
    BY <1>6, <2>2
<1> HIDE DEF start
<1>10. Falls(powers, start, n)
  <2>1. ASSUME NEW i \in start .. n, NEW j \in start .. n, i < j PROVE powers[j] < powers[i]
    <3>1. i \in 1 .. n /\ j \in 1 .. n /\ (start = i \/ start < i)
      BY <1>6
    <3>2. start < i => powers[i] < powers[start]
      BY <1>1, <1>2, <1>4, <1>6, <3>1
    <3>3. powers[i] < C!Cleared
      <4>1. powers[i] \in Int /\ powers[start] \in Int
        BY <1>2, <1>6, <3>1
      <4>2. QED
        BY <1>3, <1>6, <3>1, <3>2, <4>1
    <3>4. QED
      BY <1>1, <1>2, <1>4, <2>1, <3>1, <3>3
  <2>2. Len(powers) = n
    BY DEF n
  <2>3. QED
    BY <1>2, <1>6, <2>1, <2>2 DEF Falls
<1> DEFINE c == C!Min(Near)
<1>11. c \in Near /\ \A i \in Near : c <= i
  <2>1. Near \subseteq Nat
    BY <1>2, <1>6
  <2>2. n \in Near
    <3>1. C!NoFurther(powers, p, n)
      BY DEF C!NoFurther, n
    <3>2. QED
      BY <1>2, <1>6, <3>1
  <2> HIDE DEF Near
  <2>3. \E k \in Near : \A l \in Near : k <= l
    BY <2>1, <2>2, LeastNumber
  <2>4. QED
    BY <2>3 DEF C!Min
<1>12. c \in start .. n /\ C!NoFurther(powers, p, c)
  BY <1>11
<1>13. \A i \in start .. n : i < c => ~C!NoFurther(powers, p, i)
  <2> SUFFICES ASSUME NEW i \in start .. n, i < c, C!NoFurther(powers, p, i) PROVE FALSE
    OBVIOUS
  <2>1. i \in Near
    OBVIOUS
  <2>2. c <= i
    BY <1>11, <2>1
  <2> HIDE DEF c
  <2>3. QED
    BY <1>2, <1>6, <1>12, <2>2
<1>14. C!choose_coarse_atten_v5(power, where) = (IF p > powers[start] THEN start - 1 ELSE c - 1)
  BY <1>7, <1>8 DEF C!choose_coarse_atten_v5, powers, p, n
<1> HIDE DEF c, Near, Valid
<1>15. chosen = IF p > powers[start] THEN start ELSE c
  <2>1. \A m \in Int : (m - 1) + 1 = m
    OBVIOUS
  <2>2. start \in Int /\ c \in Int
    BY <1>2, <1>6, <1>12
  <2>3. QED
    BY <1>14, <2>1, <2>2
<1> HIDE DEF chosen
<1>16. p \in Int
  BY DEF p
<1>17. chosen \in start .. n
       /\ \A i \in start .. n : C!Magnitude(powers[chosen] - p) <= C!Magnitude(powers[i] - p)
  <2>1. CASE p > powers[start]
    <3>1. start \in start .. n
      BY <1>2, <1>6
    <3>2. chosen = start
      BY <1>15, <2>1
    <3>3. QED
      BY <1>10, <1>16, <2>1, <3>1, <3>2, FirstIsNearestBelow
  <2>2. CASE ~(p > powers[start])
    <3>1. chosen = c
      BY <1>15, <2>2
    <3>2. \A i \in start .. n : C!Magnitude(powers[c] - p) <= C!Magnitude(powers[i] - p)
      BY <1>10, <1>12, <1>13, <1>16, FirstNearIsNearest
    <3>3. QED
      BY <1>12, <3>1, <3>2
  <2>3. QED
    BY <2>1, <2>2
<1>18. powers[chosen] # C!Cleared
  <2>1. chosen \in 1 .. n /\ (chosen = start \/ start < chosen)
    BY <1>2, <1>6, <1>17
  <2>2. start < chosen => powers[chosen] < powers[start]
    BY <1>2, <1>6, <1>10, <1>17 DEF Falls
  <2>3. powers[chosen] \in Int /\ powers[start] \in Int
    BY <1>2, <1>6, <2>1
  <2>4. QED
    BY <1>3, <1>6, <2>1, <2>2, <2>3
<1>19. QED
  BY <1>2, <1>9, <1>17, <1>18 DEF chosen, powers, p

(* So it is for a part whose calibration is in use. *)
LEMMA NearestIsChosen == CalibrationInv => C!AttenuatorIsNearest
<1> SUFFICES ASSUME CalibrationInv, C!Calibrated, NEW where \in C!Settings, NEW power \in Powers
             PROVE  LET powers == C!Table(where).coarse_attn_cal
                        chosen == C!choose_coarse_atten_v5(power, where) + 1
                        p == C!CompensatedPower(power, where)
                    IN /\ powers[chosen] # C!Cleared
                       /\ \A i \in DOMAIN powers :
                            powers[i] # C!Cleared =>
                                C!Magnitude(powers[chosen] - p) <= C!Magnitude(powers[i] - p)
  BY DEF C!AttenuatorIsNearest
<1> DEFINE t == C!Table(where)
<1>1. /\ where.freq \in TxFrequencies /\ where.temp \in Temperatures
      /\ where.temp_comp_enabled \in BOOLEAN /\ where.band \in {"lower", "upper"}
  BY DEF C!Settings
<1>2. C!TableIsMeasured(t)
  BY <1>1, PartIsInUse DEF C!PartIsMeasured, C!Table
<1>3. power \in Int /\ where.temp \in Int /\ where.freq \in Nat
  <2>1. Powers \subseteq Int /\ Temperatures \subseteq Int /\ TxFrequencies \subseteq Nat
    BY TablesAreMade
  <2>2. power \in Powers
    OBVIOUS
  <2>3. QED
    BY <1>1, <2>1, <2>2
<1>4. C!TempShift(t.fwd_power_temp_slope, where) \in Int
  <2>1. t.fwd_power_temp_slope \in Int /\ t.cal_temp \in Int
    BY <1>2 DEF C!TableIsMeasured
  <2>2. QED
    BY <1>3, <2>1 DEF C!TempShift
<1>5. C!compensate_coarse_freq_v5(where) \in Int
  <2> DEFINE x == t.freqs
             y == t.fwd_pwr_shifts
  <2>1. /\ x \in Seq(Nat) /\ Len(x) >= 2 /\ y \in [DOMAIN x -> Int]
        /\ \A i, j \in DOMAIN x : i < j => x[i] < x[j]
    BY <1>2 DEF C!TableIsMeasured
  <2> HIDE DEF x, y
  <2>2. Len(x) \in Nat /\ x \in [1 .. Len(x) -> Nat] /\ DOMAIN x = 1 .. Len(x)
    BY <2>1, LenProperties
  <2>3. IsTable(x, y, Len(x))
    BY <2>1, <2>2 DEF IsTable
  <2>4. C!Interpolated(x, y, where.freq) \in Int
    BY <1>3, <2>3, BetweenIsNumber
  <2>5. QED
    BY <2>4 DEF C!compensate_coarse_freq_v5, x, y
<1>6. C!CompensatedPower(power, where) \in Int
  <2>1. \A a, b, c \in Int : a - b - c \in Int
    OBVIOUS
  <2>2. QED
    BY <1>3, <1>4, <1>5, <2>1 DEF C!CompensatedPower
<1>7. QED
  BY <1>2, <1>6, ChosenIsNearest

-----------------------------------------------------------------------------
(* The theorems about the composed specification.                          *)

(* The inductive invariant of the Gen2 commands. *)
THEOREM Gen2Invariant == Spec => [](component = "gen2" => Gen2Inv)
<1>1. Init => Gen2Inv
  BY Gen2InitIsMeant DEF Init
<1>2. (component = "gen2" => Gen2Inv) /\ [Next]_vars => (component = "gen2" => Gen2Inv)'
  <2> SUFFICES ASSUME component = "gen2" => Gen2Inv, [Next]_vars, component' = "gen2"
               PROVE  Gen2Inv'
    OBVIOUS
  <2>1. component = "gen2" /\ [G!Next]_(G!vars)
    BY DEF Next, vars, Gen2, Calibration, Commands, ActiveRegion, AggregateOp
  <2>2. QED
    BY <2>1, Gen2StepIsMeant
<1>3. QED
  BY <1>1, <1>2, PTL DEF Spec

(* The chip holds, enables and sends the commands that the application     *)
(* gave, for any list, any commands that the codec takes and any transfers *)
(* that are lost.                                                          *)
THEOREM ChipIsTrue == Spec => []ChipSendsWhatWasMeant
<1>1. (component = "gen2" => Gen2Inv) => ChipSendsWhatWasMeant
  BY MeantIsSent DEF ChipSendsWhatWasMeant
<1>2. QED
  BY <1>1, Gen2Invariant, PTL

(* Decoding inverts encoding, and a tag's answer is read as what it is, by *)
(* the controls that the chip holds for the command, whatever the list     *)
(* went through.                                                           *)
THEOREM AnswersAreTrue == Spec => []CommandsSurvive
<1>1. (component = "gen2" => Gen2Inv) => CommandsSurvive
  BY AnswersFollow, DecodingFollows DEF CommandsSurvive
<1>2. QED
  BY <1>1, Gen2Invariant, PTL

(* The inductive invariant of the calibration: what is kept of it is the   *)
(* part's or the default's, and while the part's is in use the analog      *)
(* offsets were taken from it.                                             *)
THEOREM CalibrationInvariant == Spec => [](component = "calibration" => CalibrationInv)
<1>1. Init => CalibrationInv
  BY CalibrationInitIsGood DEF Init
<1>2. (component = "calibration" => CalibrationInv) /\ [Next]_vars
          => (component = "calibration" => CalibrationInv)'
  <2> SUFFICES ASSUME component = "calibration" => CalibrationInv, [Next]_vars,
                      component' = "calibration"
               PROVE  CalibrationInv'
    OBVIOUS
  <2>1. component = "calibration" /\ [C!Next]_(C!vars)
    BY DEF Next, vars, OthersOfG, C!vars, Gen2, Calibration, Commands, ActiveRegion, AggregateOp
  <2>2. QED
    BY <2>1, CalibrationStepIsGood
<1>3. QED
  BY <1>1, <1>2, PTL DEF Spec

(* Converting a strength to cdBm and back is off by one at most, listening *)
(* hears a signal as strong as reading, and a calibrated mode gets its own *)
(* offset: for any part and tables whose corrections stay within their     *)
(* widths, whatever was set up and whichever reads failed before.          *)
THEOREM StrengthIsRecovered == Spec => []RssiIsRecovered
<1>1. (component = "calibration" => CalibrationInv) => RssiIsRecovered
  BY StrengthComesBack, ModeIsExact DEF RssiIsRecovered
<1>2. QED
  BY <1>1, CalibrationInvariant, PTL

(* The attenuation chosen for a power is, of those that were measured, the *)
(* one whose power is nearest to it, for any part whose powers fall with   *)
(* the attenuation.                                                        *)
THEOREM AttenuatorIsNearest == Spec => [](component = "calibration" => C!AttenuatorIsNearest)
<1>1. (component = "calibration" => CalibrationInv)
          => (component = "calibration" => C!AttenuatorIsNearest)
  BY NearestIsChosen
<1>2. QED
  BY <1>1, CalibrationInvariant, PTL

=============================================================================
