----------------------- MODULE NativeEmulatorProofs -----------------------
(* Whatever the widths, the size of RAM, the opcode map and the program, which *)
(* may rewrite itself: the native engine keeps its types and executes, at each *)
(* step, the instruction memory holds at the program counter; and, its         *)
(* registers and counters read where they are while a chunk runs, it is the    *)
(* reference emulator, except at the short jumps of the fixed-width ISA.       *)
EXTENDS NativeEmulator, FiniteSetTheorems, TLAPS

-----------------------------------------------------------------------------
(* Arithmetic of addresses.                                                    *)

(* Division with remainder, as the masks and shifts of the source rely on it.  *)
LEMMA DivMod ==
    ASSUME NEW x \in Int, NEW R \in Nat, R > 0
    PROVE  x = R * (x \div R) + (x % R) /\ x % R \in 0 .. R - 1 /\ x \div R \in Int
  <1>1. x % R \in Int /\ x % R >= 0 /\ x % R < R
    BY SMT
  <1>2. x = R * (x \div R) + (x % R)
    BY SMT
  <1>3. x \div R \in Int
    BY SMT
  <1> QED
    BY <1>1, <1>2, <1>3

(* A multiple of R strictly between -R and R is zero.                          *)
LEMMA SmallMultiple ==
    ASSUME NEW k \in Int, NEW R \in Nat, R > 0, -R < R * k, R * k < R
    PROVE  k = 0
  BY SMT

(* Quotient and remainder are unique.                                          *)
LEMMA Remainder ==
    ASSUME NEW x \in Int, NEW R \in Nat, R > 0, NEW q \in Int, NEW r \in 0 .. R - 1,
           x = R * q + r
    PROVE  x % R = r
  <1> DEFINE d == x \div R
             e == x % R
  <1>1. x = R * d + e /\ e \in 0 .. R - 1 /\ d \in Int
    BY DivMod
  <1> HIDE DEF d, e
  <1>2. R * (q - d) = e - r
    BY <1>1, SMT
  <1>3. q - d = 0
    BY <1>1, <1>2, SmallMultiple, SMT
  <1>4. e = r
    BY <1>1, <1>2, <1>3, SMT
  <1> QED
    BY <1>4 DEF e

(* Addresses in the same place of RAM stay together when both move by k.       *)
LEMMA SameShift ==
    ASSUME NEW x \in Int, NEW y \in Int, NEW k \in Int, NEW R \in Nat, R > 0,
           x % R = y % R
    PROVE  (x + k) % R = (y + k) % R
  <1> DEFINE a == x \div R
             b == y \div R
             r == x % R
             c == (y + k) \div R
             s == (y + k) % R
  <1>1. x = R * a + r /\ a \in Int /\ r \in 0 .. R - 1
    BY DivMod
  <1>2. y = R * b + r /\ b \in Int
    BY DivMod
  <1>3. y + k = R * c + s /\ c \in Int /\ s \in 0 .. R - 1
    BY DivMod
  <1> HIDE DEF a, b, r, c, s
  <1> DEFINE q == a - b + c
             z == x + k
  <1>4. z = R * q + s /\ q \in Int /\ z \in Int
    BY <1>1, <1>2, <1>3, SMT
  <1> HIDE DEF q, z
  <1>5. z % R = s
    BY <1>3, <1>4, Remainder
  <1> QED
    BY <1>5 DEF s, z

(* Going forward from a by the distance of x from a arrives at x.              *)
LEMMA Arrive ==
    ASSUME NEW x \in Int, NEW a \in Int, NEW R \in Nat, R > 0, x \in 0 .. R - 1
    PROVE  (a + ((x - a) % R)) % R = x
  <1> DEFINE d == (x - a) \div R
             r == (x - a) % R
  <1>1. x - a = R * d + r /\ d \in Int /\ r \in 0 .. R - 1
    BY DivMod
  <1> HIDE DEF d, r
  <1> DEFINE q == -d
             z == a + r
  <1>2. z = R * q + x /\ q \in Int /\ z \in Int
    BY <1>1, SMT
  <1> HIDE DEF q, z
  <1>3. z % R = x
    BY <1>2, Remainder
  <1> QED
    BY <1>3 DEF r, z

(* Two digits make a number below the product of their bases.                  *)
LEMMA Digits ==
    ASSUME NEW X \in Nat, NEW Y \in Nat, NEW x \in 0 .. X - 1, NEW y \in 0 .. Y - 1
    PROVE  x * Y + y \in 0 .. X * Y - 1
  <1>1. (X - 1 - x) * Y >= 0
    BY SMT
  <1>2. X * Y = (X - 1 - x) * Y + x * Y + Y
    BY SMT
  <1>3. x * Y \in Int /\ x * Y >= 0 /\ X * Y \in Int
    BY SMT
  <1> QED
    BY <1>1, <1>2, <1>3, SMT

(* The widths of the machine.                                                  *)
LEMMA Widths ==
    /\ BYTE \in Nat /\ BYTE >= 4 /\ NREG < BYTE
    /\ HALF \in Nat /\ HALF >= 16 /\ HALF = BYTE * BYTE /\ BYTE < HALF
    /\ WORD \in Nat /\ WORD >= 256 /\ WORD = HALF * HALF /\ HALF < WORD
    /\ NREG \in Nat /\ NREG >= 2 /\ RamSize \in Nat /\ RamSize >= 4
  <1>1. NREG \in Nat /\ NREG >= 2 /\ RamSize \in Nat /\ RamSize >= 4
    BY MachineAssumption
  <1>2. ASSUME NEW k \in Nat, NEW n \in Nat, n >= 2, k >= n
        PROVE  k * k \in Nat /\ k * k >= n * n /\ k < k * k
    BY <1>2, SMT
  <1>3. BYTE \in Nat /\ BYTE >= 4 /\ NREG < BYTE
    BY <1>1, <1>2, SMT DEF BYTE
  <1>4. HALF \in Nat /\ HALF >= 16 /\ BYTE < HALF
    BY <1>2, <1>3, SMT DEF HALF
  <1>5. WORD \in Nat /\ WORD >= 256 /\ HALF < WORD
    BY <1>2, <1>4, SMT DEF WORD
  <1> QED
    BY <1>1, <1>3, <1>4, <1>5 DEF HALF, WORD

-----------------------------------------------------------------------------
(* Decoding.                                                                   *)

(* A byte holds two register numbers.                                          *)
LEMMA RegisterNumbers ==
    ASSUME NEW b \in Byte
    PROVE  Low(b) \in Reg /\ High(b) \in Reg
  <1>1. b \in Int /\ b >= 0 /\ b < NREG * NREG /\ NREG \in Nat /\ NREG >= 2
    BY Widths DEF Byte, BYTE
  <1> DEFINE q == b \div NREG
             r == b % NREG
  <1>2. b = NREG * q + r /\ r \in 0 .. NREG - 1 /\ q \in Int
    BY <1>1, DivMod
  <1> HIDE DEF q, r
  <1>3. q >= 0
    <2>1. SUFFICES ASSUME q <= -1 PROVE FALSE
      BY <1>2, SMT
    <2>2. NREG * q <= -NREG
      BY <1>1, <1>2, <2>1, SMT
    <2> QED
      BY <1>1, <1>2, <2>2, SMT
  <1>4. q <= NREG - 1
    <2>1. SUFFICES ASSUME q >= NREG PROVE FALSE
      BY <1>1, <1>2, SMT
    <2>2. NREG * q >= NREG * NREG
      BY <1>1, <1>2, <2>1, SMT
    <2> QED
      BY <1>1, <1>2, <2>2, SMT
  <1> QED
    BY <1>1, <1>2, <1>3, <1>4, SMT DEF Low, High, Reg, q, r

(* Every address of the program lands in RAM.                                  *)
LEMMA InRam ==
    ASSUME NEW a \in Int
    PROVE  a % RamSize \in Address
  BY Widths, DivMod DEF Address

(* Reducing to a word.                                                         *)
LEMMA InWord ==
    ASSUME NEW a \in Int
    PROVE  a % WORD \in Word
  BY Widths, DivMod DEF Word

(* A decoded entry is well formed; an instruction that assigns a register      *)
(* names one other than zr, or the sink.                                       *)
LEMMA DecodeType ==
    ASSUME NEW m \in [Address -> Byte], NEW at \in Word
    PROVE  LET e == Decode(m, at)
           IN  /\ e \in Entry /\ e.valid /\ e.tag = at
               /\ e.uop.arm \in {"in", "getpc", "alu", "load"} => e.a \in 1 .. NREG
               /\ e.uop.arm \in {"branch", "store"} => e.a \in Reg
  <1> DEFINE byte(i) == m[(at + i) % RamSize]
             o == Op[byte(0)]
             e == Decode(m, at)
  <1>1. at \in Int /\ 0 \in Word
    BY Widths DEF Word
  <1>2. byte(0) \in Byte /\ byte(1) \in Byte /\ byte(2) \in Byte /\ byte(3) \in Byte
    BY <1>1, InRam
  <1>3. o \in OpArms
    BY <1>2, MachineAssumption
  <1>4. e.valid = TRUE /\ e.tag = at /\ e.uop = o
    BY DEF Decode
  <1>5. /\ e.a \in 0 .. NREG
        /\ o.arm \in {"in", "getpc", "alu", "load"} => e.a \in 1 .. NREG
        /\ o.arm \in {"branch", "store"} => e.a \in Reg
    <2>1. e.a = CASE o.arm \in {"in", "getpc", "alu", "load"} -> Dst(High(byte(1)))
                  [] o.arm \in {"branch", "store"}            -> Low(byte(1))
                  [] OTHER                                    -> 0
      BY DEF Decode
    <2>2. Low(byte(1)) \in Reg /\ Dst(High(byte(1))) \in 1 .. NREG
      BY <1>2, RegisterNumbers, Widths, SMT DEF Dst, Sink, Reg
    <2> QED
      BY <2>1, <2>2, Widths, SMT DEF Reg
  <1>6. e.b \in Reg /\ e.c \in Reg
    <2>1. Low(byte(1)) \in Reg /\ Low(byte(2)) \in Reg /\ 0 \in Reg
      BY <1>2, RegisterNumbers, Widths, SMT DEF Reg
    <2>2. e.b = (IF o.arm = "alu" THEN Low(byte(1)) ELSE 0)
      BY DEF Decode
    <2>3. e.c = (IF o.arm \in Operands /\ ~o.imm THEN Low(byte(2)) ELSE 0)
      BY DEF Decode
    <2> QED
      BY <2>1, <2>2, <2>3
  <1>7. e.imm \in Word
    <2>1. byte(2) * BYTE + byte(3) \in 0 .. BYTE * BYTE - 1
      BY <1>2, Widths, Digits DEF Byte
    <2>2. byte(2) * BYTE + byte(3) \in Word
      BY <2>1, Widths, SMT DEF Word
    <2>3. e.imm = (IF o.arm \in Operands /\ o.imm THEN byte(2) * BYTE + byte(3) ELSE 0)
      BY DEF Decode
    <2> QED
      BY <1>1, <2>2, <2>3
  <1>8. e.next \in Word
    <2>1. SizeIn(o) \in Int
      BY DEF SizeIn
    <2>2. NextPc(at, SizeIn(o)) \in Word
      BY <1>1, <2>1, InWord DEF NextPc
    <2>3. e.next = (IF o.arm = "invalid" THEN 0 ELSE NextPc(at, SizeIn(o)))
      BY DEF Decode
    <2> QED
      BY <1>1, <2>2, <2>3
  <1>9. e = [valid |-> e.valid, tag |-> e.tag, uop |-> e.uop, a |-> e.a, b |-> e.b,
             c |-> e.c, imm |-> e.imm, next |-> e.next]
    BY DEF Decode
  <1>10. e \in Entry
    BY <1>3, <1>4, <1>5, <1>6, <1>7, <1>8, <1>9 DEF Entry
  <1> QED
    BY <1>4, <1>5, <1>10

(* Decoding looks at four bytes and no others.                                 *)
LEMMA DecodeDepends ==
    ASSUME NEW m, NEW n, NEW at,
           \A i \in 0 .. 3 : m[(at + i) % RamSize] = n[(at + i) % RamSize]
    PROVE  Decode(m, at) = Decode(n, at)
  <1>1. /\ m[(at + 0) % RamSize] = n[(at + 0) % RamSize]
        /\ m[(at + 1) % RamSize] = n[(at + 1) % RamSize]
        /\ m[(at + 2) % RamSize] = n[(at + 2) % RamSize]
        /\ m[(at + 3) % RamSize] = n[(at + 3) % RamSize]
    OBVIOUS
  <1> QED
    BY <1>1, Zenon DEF Decode

-----------------------------------------------------------------------------
(* The cache.                                                                  *)

(* Looking an instruction up leaves it decoded in its slot.                    *)
LEMMA FetchedCoherent ==
    ASSUME NEW c \in [Address -> Entry], NEW m \in [Address -> Byte], NEW at \in Word,
           Coherent(c, m)
    PROVE  /\ Fetched(c, m, at) \in [Address -> Entry]
           /\ Coherent(Fetched(c, m, at), m)
           /\ Fetched(c, m, at)[at % RamSize] = Decode(m, at)
  <1> DEFINE slot == at % RamSize
             e == Decode(m, at)
  <1>1. slot \in Address
    BY InRam, Widths DEF Word
  <1>2. e \in Entry /\ e.tag = at
    BY DecodeType
  <1>3. CASE c[slot].valid /\ c[slot].tag = at
    <2>1. Fetched(c, m, at) = c
      BY <1>3 DEF Fetched
    <2>2. c[slot] = Decode(m, at)
      BY <1>1, <1>3 DEF Coherent
    <2> QED
      BY <2>1, <2>2
  <1>4. CASE ~(c[slot].valid /\ c[slot].tag = at)
    <2>1. Fetched(c, m, at) = [c EXCEPT ![slot] = e]
      BY <1>4 DEF Fetched
    <2> HIDE DEF e, slot
    <2>2. [c EXCEPT ![slot] = e] \in [Address -> Entry]
      BY <1>2
    <2>3. [c EXCEPT ![slot] = e][slot] = e
      BY <1>1
    <2>4. ASSUME NEW x \in Address, [c EXCEPT ![slot] = e][x].valid
          PROVE  /\ [c EXCEPT ![slot] = e][x].tag % RamSize = x
                 /\ [c EXCEPT ![slot] = e][x] = Decode(m, [c EXCEPT ![slot] = e][x].tag)
      <3>1. CASE x = slot
        BY <1>2, <2>3, <3>1 DEF slot, e
      <3>2. CASE x # slot
        BY <2>4, <3>2 DEF Coherent
      <3> QED
        BY <3>1, <3>2
    <2> QED
      BY <2>1, <2>2, <2>3, <2>4 DEF Coherent, slot, e
  <1> QED
    BY <1>3, <1>4

(* What a store writes are bytes, at the addresses it names and no others.     *)
LEMMA WrittenBytes ==
    ASSUME NEW m, m \in [DOMAIN m -> Byte], DOMAIN m \subseteq Int,
           NEW size \in Nat, size > 0, NEW a \in Int, NEW v \in Int, NEW n \in {1, 2, 4}
    PROVE  /\ Written(m, size, a, v, n) \in [DOMAIN m -> Byte]
           /\ \A x \in DOMAIN m : (x - a) % size >= n => Written(m, size, a, v, n)[x] = m[x]
  <1>1. ASSUME NEW x \in DOMAIN m
        PROVE  LET i == (x - a) % size
                   w == IF i < n THEN (v \div Place[n - i]) % BYTE ELSE m[x]
               IN  i \in Nat /\ w \in Byte
    <2> DEFINE i == (x - a) % size
    <2>1. x - a \in Int
      BY <1>1, SMT
    <2>2. i \in Nat
      BY <2>1, DivMod, SMT
    <2>3. CASE i < n
      <3> HIDE DEF i
      <3>1. n - i \in 1 .. 4
        BY <2>2, <2>3, SMT
      <3>2. Place[n - i] \in Nat /\ Place[n - i] > 0
        <4>1. HALF * BYTE \in Nat /\ HALF * BYTE > 0
          BY Widths, SMT
        <4> DEFINE k == n - i
        <4>2. k \in 1 .. 4
          BY <3>1
        <4> HIDE DEF k
        <4>3. Place[k] \in Nat /\ Place[k] > 0
          <5>1. k = 1 \/ k = 2 \/ k = 3 \/ k = 4
            BY <4>2, SMT
          <5>2. Place[1] = 1 /\ Place[2] = BYTE /\ Place[3] = HALF /\ Place[4] = HALF * BYTE
            BY DEF Place
          <5> QED
            BY <4>1, <5>1, <5>2, Widths
        <4> QED
          BY <4>3 DEF k
      <3> DEFINE p == v \div Place[n - i]
      <3>3. p \in Int
        BY <3>2, DivMod
      <3> HIDE DEF p
      <3>4. BYTE \in Nat /\ BYTE > 0
        BY Widths
      <3>5. p % BYTE \in 0 .. BYTE - 1
        BY <3>3, <3>4, DivMod
      <3> QED
        BY <2>2, <2>3, <3>5 DEF Byte, i, p
    <2>4. CASE ~(i < n)
      BY <2>2, <2>4
    <2> QED
      BY <2>3, <2>4
  <1> QED
    BY <1>1, SMT DEF Written

(* A store and the invalidation after it leave the cache coherent: every       *)
(* instruction that has a written byte among its four starts in one of the     *)
(* slots that are invalidated.                                                 *)
LEMMA StoreCoherent ==
    ASSUME NEW c \in [Address -> Entry], NEW m \in [Address -> Byte], Coherent(c, m),
           NEW a \in Int, NEW v \in Int, NEW n \in {1, 2, 4}
    PROVE  /\ Written(m, RamSize, a, v, n) \in [Address -> Byte]
           /\ Invalidated(c, a, n) \in [Address -> Entry]
           /\ Coherent(Invalidated(c, a, n), Written(m, RamSize, a, v, n))
  <1> DEFINE w == Written(m, RamSize, a, v, n)
             d == Invalidated(c, a, n)
  <1>1. Address \subseteq Int /\ RamSize \in Nat /\ RamSize > 0
    BY Widths DEF Address
  <1>2. w \in [Address -> Byte] /\ \A x \in Address : (x - a) % RamSize >= n => w[x] = m[x]
    <2>1. DOMAIN m = Address /\ m \in [DOMAIN m -> Byte]
      OBVIOUS
    <2> HIDE DEF w
    <2>2. /\ Written(m, RamSize, a, v, n) \in [DOMAIN m -> Byte]
          /\ \A x \in DOMAIN m : (x - a) % RamSize >= n => Written(m, RamSize, a, v, n)[x] = m[x]
      BY <1>1, <2>1, WrittenBytes
    <2> QED
      BY <2>1, <2>2 DEF w
  <1>3. d \in [Address -> Entry]
    BY DEF Invalidated, Entry
  <1>4. ASSUME NEW x \in Address, d[x].valid
        PROVE  d[x].tag % RamSize = x /\ d[x] = Decode(w, d[x].tag)
    <2>1. x \notin Overlapping(a, n) /\ d[x] = c[x]
      BY <1>4 DEF Invalidated, Entry
    <2> DEFINE at == c[x].tag
    <2>2. at \in Int /\ at % RamSize = x /\ c[x] = Decode(m, at)
      BY <1>4, <2>1, Widths DEF Coherent, Entry, Word
    <2> HIDE DEF at
    <2>3. ASSUME NEW i \in 0 .. 3
          PROVE  w[(at + i) % RamSize] = m[(at + i) % RamSize]
      <3> DEFINE y == (at + i) % RamSize
                 j == (y - a) % RamSize
      <3>1. y \in Address /\ y \in Int
        BY <1>1, <2>2, InRam
      <3>2. j \in 0 .. RamSize - 1
        <4>1. y - a \in Int
          BY <3>1
        <4> QED
          BY <1>1, <4>1, DivMod
      <3>3. SUFFICES ASSUME j < n PROVE FALSE
        BY <1>2, <3>1, <3>2, SMT
      <3>4. (a + j) % RamSize = y
        BY <1>1, <3>1, Arrive DEF Address
      <3>5. (at + i) % RamSize = (a + j) % RamSize /\ at + i \in Int /\ a + j \in Int
        BY <2>2, <3>2, <3>4
      <3> HIDE DEF y, j
      <3>6. ((at + i) + (-i)) % RamSize = ((a + j) + (-i)) % RamSize
        BY <1>1, <3>5, SameShift
      <3>7. (at + i) + (-i) = at /\ (a + j) + (-i) = a + (j - i) /\ j - i \in -3 .. n - 1
        BY <2>2, <3>2, <3>3, SMT
      <3>8. x = (a + (j - i)) % RamSize
        BY <2>2, <3>6, <3>7
      <3>9. x \in Overlapping(a, n)
        BY <3>7, <3>8 DEF Overlapping
      <3> QED
        BY <2>1, <3>9
    <2>4. Decode(w, at) = Decode(m, at)
      BY <2>3, DecodeDepends
    <2> QED
      BY <2>1, <2>2, <2>4 DEF at
  <1> QED
    BY <1>2, <1>3, <1>4 DEF Coherent

-----------------------------------------------------------------------------
(* Values.                                                                     *)

(* What is read from a memory of bytes fits a word.                            *)
LEMMA ReadWord ==
    ASSUME NEW m, NEW size \in Nat, size > 0, m \in [0 .. size - 1 -> Byte],
           NEW a \in Int, NEW n \in Int
    PROVE  Read(m, size, a, n) \in Word
  <1> DEFINE byte(i) == m[(a + i) % size]
  <1>1. \A i \in 0 .. 3 : byte(i) \in Byte
    <2>1. ASSUME NEW i \in 0 .. 3 PROVE byte(i) \in Byte
      <3>1. a + i \in Int
        OBVIOUS
      <3>2. (a + i) % size \in 0 .. size - 1
        BY <3>1, DivMod
      <3> QED
        BY <3>2
    <2> QED
      BY <2>1
  <1>2. byte(0) \in Byte /\ byte(1) \in Byte /\ byte(2) \in Byte /\ byte(3) \in Byte
    BY <1>1
  <1>3. \/ Read(m, size, a, n) = byte(0)
        \/ Read(m, size, a, n) = byte(0) * BYTE + byte(1)
        \/ Read(m, size, a, n) = (byte(0) * BYTE + byte(1)) * HALF + byte(2) * BYTE + byte(3)
    BY DEF Read
  <1> HIDE DEF byte
  <1>4. byte(0) * BYTE + byte(1) \in 0 .. HALF - 1 /\ byte(2) * BYTE + byte(3) \in 0 .. HALF - 1
    BY <1>2, Widths, Digits DEF Byte
  <1> DEFINE h == byte(0) * BYTE + byte(1)
             l == byte(2) * BYTE + byte(3)
  <1>5. h \in 0 .. HALF - 1 /\ l \in 0 .. HALF - 1
    BY <1>4
  <1>6. h * HALF + byte(2) * BYTE + byte(3) = h * HALF + l
    <2>1. byte(2) \in Int /\ byte(3) \in Int /\ BYTE \in Int /\ h \in Int /\ HALF \in Int
      BY <1>2, <1>5, Widths DEF Byte
    <2> HIDE DEF h
    <2>2. h * HALF \in Int /\ byte(2) * BYTE \in Int
      BY <2>1, SMT
    <2> QED
      BY <2>1, <2>2, SMT
  <1> HIDE DEF h, l
  <1>7. h * HALF + l \in 0 .. WORD - 1
    BY <1>5, Widths, Digits
  <1>8. byte(0) \in Word /\ h \in Word
    <2>1. BYTE \in Nat /\ HALF \in Nat /\ WORD \in Nat /\ BYTE < HALF /\ HALF < WORD
      BY Widths
    <2>2. byte(0) \in 0 .. BYTE - 1
      BY <1>2 DEF Byte
    <2> QED
      BY <1>5, <2>1, <2>2 DEF Word
  <1> QED
    BY <1>3, <1>6, <1>7, <1>8 DEF h, Word

(* So does what the ALU computes.                                              *)
LEMMA AluWord ==
    ASSUME NEW code, NEW a \in Word, NEW b \in Word
    PROVE  Alu(code, a, b) \in Word
  <1>1. (a + b) \in Int /\ (a - b) \in Int
    BY Widths DEF Word
  <1>2. (a + b) % WORD \in Word /\ (a - b) % WORD \in Word
    BY <1>1, InWord
  <1>3. Flags(a, b) \in Word
    <2>1. Flags(a, b) \in 0 .. 7
      BY SMT DEF Flags
    <2> QED
      BY <2>1, Widths, SMT DEF Word
  <1> QED
    BY <1>2, <1>3 DEF Alu

-----------------------------------------------------------------------------
(* The inductive invariant: with the types, coherence and the dispatched       *)
(* instruction, that a chunk has not reached its limit while it runs.          *)
IInv ==
    /\ TypeOK
    /\ CacheCoherent
    /\ DispatchesMemory
    /\ phase = "chunk" => ssteps < limit

(* The instruction being executed and its operand.                             *)
LEMMA Dispatched ==
    ASSUME IInv, phase = "chunk"
    PROVE  /\ D \in Entry /\ Source \in Word
           /\ D.uop.arm \in {"in", "getpc", "alu", "load"} => D.a \in 1 .. NREG
           /\ D.uop.arm \in {"branch", "store"} => sregs[D.a] \in Word
           /\ sregs[D.b] \in Word /\ D.next \in Word
  <1>1. memory \in [Address -> Byte] /\ spc \in Word /\ sregs \in [0 .. NREG -> Word]
    BY DEF IInv, TypeOK
  <1>2. D = Decode(memory, spc)
    BY DEF IInv, DispatchesMemory
  <1>3. /\ D \in Entry
        /\ D.uop.arm \in {"in", "getpc", "alu", "load"} => D.a \in 1 .. NREG
        /\ D.uop.arm \in {"branch", "store"} => D.a \in Reg
    BY <1>1, <1>2, DecodeType
  <1>4. D.b \in Reg /\ D.c \in Reg /\ D.imm \in Word /\ D.next \in Word
    BY <1>3 DEF Entry
  <1>5. Reg \subseteq 0 .. NREG
    BY Widths, SMT DEF Reg
  <1> QED
    BY <1>1, <1>3, <1>4, <1>5 DEF Source

(* Assigning a register leaves zr alone.                                       *)
LEMMA PutKeeps ==
    ASSUME IInv, phase = "chunk", NEW v \in Word, Put(v),
           D.uop.arm \in {"in", "getpc", "alu", "load"}
    PROVE  sregs' \in [0 .. NREG -> Word] /\ sregs'[0] = 0
  <1>1. sregs \in [0 .. NREG -> Word] /\ sregs[0] = 0
    BY DEF IInv, TypeOK
  <1>2. D.a \in 1 .. NREG
    BY Dispatched
  <1>3. sregs' = [sregs EXCEPT ![D.a] = v]
    BY DEF Put
  <1>4. 0 \in 0 .. NREG /\ D.a # 0
    BY <1>2, Widths, SMT
  <1> QED
    BY <1>1, <1>3, <1>4

(* The end of every instruction, after its own effect.                         *)
LEMMA FinishKeeps ==
    ASSUME IInv, phase = "chunk", NEW to \in Word, NEW c \in [Address -> Entry],
           Finish(to, c, memory'), Coherent(c, memory'),
           memory' \in [Address -> Byte], sregs' \in [0 .. NREG -> Word], sregs'[0] = 0,
           inputs' \in Seq(Word),
           \E n \in PersistentSizes : persistent' \in [0 .. n - 1 -> Byte]
    PROVE  IInv'
  <1>1. /\ limit' = limit /\ regs' = regs /\ pc' = pc /\ steps' = steps /\ result' = result
        /\ spc' = to /\ ssteps' = ssteps + 1
    BY DEF Finish
  <1>2. ssteps \in Nat /\ limit \in Nat /\ ssteps < limit /\ limit <= MaxSteps /\ MaxSteps \in Nat
    BY MachineAssumption DEF IInv, TypeOK
  <1>3. ssteps' \in 0 .. MaxSteps
    BY <1>1, <1>2, SMT
  <1>4. CASE to # previous /\ ~(ssteps + 1 >= limit) /\ to # HaltAddress
    <2>1. previous' = to /\ cache' = Fetched(c, memory', to) /\ phase' = phase /\ status' = status
      BY <1>4, Zenon DEF Finish
    <2>2. /\ cache' \in [Address -> Entry] /\ Coherent(cache', memory')
          /\ cache'[to % RamSize] = Decode(memory', to)
      BY <2>1, FetchedCoherent
    <2>3. TypeOK'
      BY <1>1, <1>3, <2>1, <2>2 DEF IInv, TypeOK
    <2>4. CacheCoherent'
      BY <2>2 DEF CacheCoherent, Coherent
    <2>5. DispatchesMemory'
      BY <1>1, <2>1, <2>2 DEF DispatchesMemory, D
    <2>6. ssteps' < limit'
      BY <1>1, <1>2, <1>4, SMT
    <2> QED
      BY <2>3, <2>4, <2>5, <2>6 DEF IInv
  <1>5. CASE ~(to # previous /\ ~(ssteps + 1 >= limit) /\ to # HaltAddress)
    <2>1. /\ phase' = "done" /\ cache' = c /\ previous' = previous
          /\ status' \in {"stopped", "limit", "halt"}
      BY <1>5 DEF Finish
    <2>2. TypeOK'
      BY <1>1, <1>3, <2>1 DEF IInv, TypeOK
    <2> QED
      BY <2>1, <2>2 DEF IInv, CacheCoherent, Coherent, DispatchesMemory
  <1> QED
    BY <1>4, <1>5

-----------------------------------------------------------------------------
(* The steps.                                                                  *)

(* The initial state.                                                          *)
LEMMA InitIInv == NativeInit => IInv
  <1> SUFFICES ASSUME NativeInit PROVE IInv
    OBVIOUS
  <1>1. 0 \in Word /\ 0 \in Reg /\ 0 \in 0 .. NREG /\ 0 \in Byte /\ 0 \in 0 .. MaxSteps
    BY Widths, MachineAssumption, SMT DEF Word, Reg, Byte
  <1>2. Blank \in Entry
    BY <1>1, SMT DEF Blank, Entry, OpArms
  <1>3. \E n \in PersistentSizes : persistent \in [0 .. n - 1 -> Byte]
    BY <1>1 DEF NativeInit, Init
  <1>4. memory \in [Address -> Byte] /\ pc \in Word /\ inputs \in Seq(Word)
    BY MachineAssumption DEF NativeInit, Init
  <1>5. TypeOK
    BY <1>1, <1>2, <1>3, <1>4 DEF NativeInit, Init, TypeOK
  <1> QED
    BY <1>5 DEF IInv, NativeInit, CacheCoherent, DispatchesMemory

(* A chunk starts from the machine object, with an empty cache.                *)
LEMMA BeginIInv ==
    ASSUME IInv, Begin
    PROVE  IInv'
  <1> DEFINE empty == [x \in Address |-> Blank]
  <1>0. /\ memory' = memory /\ regs' = regs /\ pc' = pc /\ steps' = steps /\ result' = result
        /\ inputs' = inputs /\ persistent' = persistent
    BY DEF Begin, vars
  <1>1. 0 \in Word /\ 0 \in Reg /\ 0 \in 0 .. NREG
    BY Widths, SMT DEF Word, Reg
  <1>2. Blank \in Entry /\ Blank.valid = FALSE
    BY <1>1, SMT DEF Blank, Entry, OpArms
  <1>3. empty \in [Address -> Entry] /\ Coherent(empty, memory)
    BY <1>2 DEF Coherent
  <1>4. memory \in [Address -> Byte] /\ pc \in Word /\ regs \in [Reg -> Word] /\ regs[0] = 0
    BY DEF IInv, TypeOK
  <1>5. sregs' \in [0 .. NREG -> Word] /\ sregs'[0] = 0 /\ spc' = pc /\ ssteps' = steps
    <2>1. sregs' = [r \in 0 .. NREG |-> IF r = Sink THEN 0 ELSE regs[r]]
      BY DEF Begin
    <2>2. \A r \in 0 .. NREG : r # Sink => r \in Reg
      BY Widths, SMT DEF Sink, Reg
    <2>3. 0 # Sink
      BY Widths DEF Sink
    <2> QED
      BY <1>1, <1>4, <2>1, <2>2, <2>3 DEF Begin
  <1>6. limit' \in 0 .. MaxSteps /\ steps < limit' /\ steps \in 0 .. MaxSteps
    BY MachineAssumption, NativeAssumption, SMT DEF IInv, TypeOK, Begin, Lesser
  <1> HIDE DEF empty
  <1>7. CASE pc = HaltAddress
    <2>1. phase' = "done" /\ status' = "halt" /\ cache' = empty /\ previous' = previous
      BY <1>7 DEF Begin, empty
    <2>2. TypeOK'
      BY <1>0, <1>3, <1>5, <1>6, <2>1 DEF IInv, TypeOK
    <2> QED
      BY <1>0, <1>3, <2>1, <2>2 DEF IInv, CacheCoherent, Coherent, DispatchesMemory
  <1>8. CASE pc # HaltAddress
    <2>1. phase' = "chunk" /\ status' = status /\ previous' = pc
          /\ cache' = Fetched(empty, memory, pc)
      BY <1>8 DEF Begin, empty
    <2>2. /\ cache' \in [Address -> Entry] /\ Coherent(cache', memory)
          /\ cache'[pc % RamSize] = Decode(memory, pc)
      BY <1>3, <1>4, <2>1, FetchedCoherent
    <2>3. TypeOK'
      BY <1>0, <1>4, <1>5, <1>6, <2>1, <2>2 DEF IInv, TypeOK
    <2>4. CacheCoherent'
      BY <1>0, <2>2 DEF CacheCoherent, Coherent
    <2>5. DispatchesMemory'
      BY <1>0, <1>5, <2>1, <2>2 DEF DispatchesMemory, D
    <2> QED
      BY <1>5, <1>6, <2>3, <2>4, <2>5 DEF IInv
  <1> QED
    BY <1>7, <1>8

(* What persistent memory is, from its types.                                  *)
LEMMA PersistentShape ==
    ASSUME IInv
    PROVE  /\ PersistentSize \in Nat
           /\ persistent \in [0 .. PersistentSize - 1 -> Byte]
           /\ PersistentSize \in PersistentSizes
  <1>1. PICK n \in PersistentSizes : persistent \in [0 .. n - 1 -> Byte]
    BY DEF IInv, TypeOK
  <1>2. n \in Nat
    BY MachineAssumption
  <1>3. DOMAIN persistent = 0 .. n - 1
    BY <1>1
  <1>4. Cardinality(0 .. n - 1) = IF 0 > n - 1 THEN 0 ELSE n - 1 - 0 + 1
    BY <1>2, FS_Interval
  <1>5. PersistentSize = n
    BY <1>2, <1>3, <1>4, SMT DEF PersistentSize
  <1> QED
    BY <1>1, <1>2, <1>5

(* An instruction that leaves memory and the cache as they are.                *)
LEMMA QuietKeeps ==
    ASSUME IInv, phase = "chunk", NEW to \in Word, Finish(to, cache, memory), memory' = memory,
           sregs' \in [0 .. NREG -> Word], sregs'[0] = 0, inputs' \in Seq(Word),
           \E n \in PersistentSizes : persistent' \in [0 .. n - 1 -> Byte]
    PROVE  IInv'
  <1>1. /\ cache \in [Address -> Entry] /\ memory' \in [Address -> Byte]
        /\ Coherent(cache, memory') /\ Finish(to, cache, memory')
    BY DEF IInv, TypeOK, CacheCoherent
  <1> QED
    BY <1>1, FinishKeeps

(* Every dispatched instruction.                                               *)
LEMMA InstructionIInv ==
    ASSUME IInv, L_NOP \/ L_IN \/ L_OUT \/ L_GETPC \/ L_ALU \/ L_BRANCH \/ L_LOAD \/ L_STORE
                 \/ L_PLOAD \/ L_PSTORE
    PROVE  IInv'
  <1>0. phase = "chunk"
    BY DEF L_NOP, L_IN, L_OUT, L_GETPC, L_ALU, L_BRANCH, L_LOAD, L_STORE, L_PLOAD, L_PSTORE, Arm
  <1>1. /\ D \in Entry /\ Source \in Word
        /\ D.uop.arm \in {"in", "getpc", "alu", "load"} => D.a \in 1 .. NREG
        /\ D.uop.arm \in {"branch", "store"} => sregs[D.a] \in Word
        /\ sregs[D.b] \in Word /\ D.next \in Word
    BY <1>0, Dispatched
  <1>2. /\ memory \in [Address -> Byte] /\ sregs \in [0 .. NREG -> Word] /\ sregs[0] = 0
        /\ inputs \in Seq(Word) /\ previous \in Word
        /\ \E n \in PersistentSizes : persistent \in [0 .. n - 1 -> Byte]
        /\ cache \in [Address -> Entry] /\ Coherent(cache, memory)
    BY <1>0 DEF IInv, TypeOK, CacheCoherent
  <1>3. Source \in Int /\ 0 \in Word /\ RamSize \in Nat /\ RamSize > 0
    BY <1>1, Widths DEF Word
  <1>4. ASSUME D.uop.code % 4 # 3
        PROVE  SizeOf(D.uop.code) \in {1, 2, 4}
    <2> DEFINE k == D.uop.code % 4
    <2>1. D.uop.code \in 0 .. 15
      BY <1>1 DEF Entry, OpArms
    <2>2. k \in {0, 1, 2}
      BY <1>4, <2>1, SMT
    <2> HIDE DEF k
    <2>3. <<1, 2, 4>>[k + 1] \in {1, 2, 4}
      BY <2>2
    <2> QED
      BY <2>3 DEF SizeOf, k
  <1>5. CASE L_NOP
    BY <1>0, <1>1, <1>2, <1>5, QuietKeeps DEF L_NOP
  <1>6. CASE L_IN
    <2> DEFINE v == IF inputs = <<>> THEN 0 ELSE Head(inputs)
    <2>1. v \in Word /\ inputs' \in Seq(Word)
      BY <1>2, <1>3, <1>6 DEF L_IN
    <2>2. D.uop.arm = "in" /\ Put(v)
      BY <1>6 DEF L_IN, Arm
    <2> HIDE DEF v
    <2>3. sregs' \in [0 .. NREG -> Word] /\ sregs'[0] = 0
      BY <1>0, <2>1, <2>2, PutKeeps
    <2>4. memory' = memory /\ persistent' = persistent /\ Finish(D.next, cache, memory)
      BY <1>6 DEF L_IN
    <2> QED
      BY <1>0, <1>1, <1>2, <2>1, <2>3, <2>4, QuietKeeps
  <1>7. CASE L_OUT
    BY <1>0, <1>1, <1>2, <1>7, QuietKeeps DEF L_OUT
  <1>8. CASE L_GETPC
    <2>1. sregs' \in [0 .. NREG -> Word] /\ sregs'[0] = 0
      BY <1>0, <1>2, <1>8, PutKeeps DEF L_GETPC, Arm
    <2> QED
      BY <1>0, <1>1, <1>2, <1>8, <2>1, QuietKeeps DEF L_GETPC
  <1>9. CASE L_ALU
    <2>1. Alu(D.uop.code, sregs[D.b], Source) \in Word
      BY <1>1, AluWord
    <2>2. sregs' \in [0 .. NREG -> Word] /\ sregs'[0] = 0
      BY <1>0, <1>9, <2>1, PutKeeps DEF L_ALU, Arm
    <2> QED
      BY <1>0, <1>1, <1>2, <1>9, <2>2, QuietKeeps DEF L_ALU
  <1>10. CASE L_BRANCH
    <2> DEFINE to == IF Taken(D.uop.code, sregs[D.a]) THEN Source ELSE D.next
    <2>1. to \in Word
      BY <1>1
    <2>2. Finish(to, cache, memory)
      BY <1>10 DEF L_BRANCH
    <2> HIDE DEF to
    <2> QED
      BY <1>0, <1>2, <1>10, <2>1, <2>2, QuietKeeps DEF L_BRANCH
  <1>11. CASE L_LOAD
    <2>1. memory \in [0 .. RamSize - 1 -> Byte]
      BY <1>2 DEF Address
    <2>2. Read(memory, RamSize, Source, SizeOf(D.uop.code)) \in Word
      <3>1. SizeOf(D.uop.code) \in Int
        BY <1>4, <1>11 DEF L_LOAD, Arm, Guarded
      <3> QED
        BY <1>3, <2>1, <3>1, ReadWord
    <2>3. sregs' \in [0 .. NREG -> Word] /\ sregs'[0] = 0
      BY <1>0, <1>11, <2>2, PutKeeps DEF L_LOAD, Arm
    <2> QED
      BY <1>0, <1>1, <1>2, <1>11, <2>3, QuietKeeps DEF L_LOAD
  <1>12. CASE L_STORE
    <2> DEFINE n == SizeOf(D.uop.code)
               v == sregs[D.a]
               c == Invalidated(cache, Source, n)
    <2>1. D.uop.arm = "store" /\ memory' = Written(memory, RamSize, Source, v, n)
          /\ Finish(D.next, c, memory') /\ sregs' = sregs /\ inputs' = inputs
          /\ persistent' = persistent
      BY <1>12 DEF L_STORE, Arm
    <2>2. v \in Int
      BY <1>1, <2>1, Widths DEF Word
    <2>3. n \in {1, 2, 4}
      BY <1>4, <1>12 DEF L_STORE, Arm, Guarded
    <2> HIDE DEF n, v
    <2>4. memory' \in [Address -> Byte] /\ c \in [Address -> Entry] /\ Coherent(c, memory')
      BY <1>2, <1>3, <2>1, <2>2, <2>3, StoreCoherent
    <2> HIDE DEF c
    <2> QED
      BY <1>0, <1>1, <1>2, <2>1, <2>4, FinishKeeps
  <1>13. CASE L_PLOAD
    <2>1. PersistentSize \in Nat /\ PersistentSize > 0
          /\ persistent \in [0 .. PersistentSize - 1 -> Byte]
      BY <1>13, PersistentShape DEF L_PLOAD
    <2>2. Read(persistent, PersistentSize, Source, 4) \in Word
      BY <1>3, <2>1, ReadWord
    <2>3. sregs' \in [0 .. NREG -> Word] /\ sregs'[0] = 0
      BY <1>0, <1>13, <2>2, PutKeeps DEF L_PLOAD, Arm
    <2> QED
      BY <1>0, <1>1, <1>2, <1>13, <2>3, QuietKeeps DEF L_PLOAD
  <1>14. CASE L_PSTORE
    <2>1. PersistentSize \in Nat /\ PersistentSize > 0 /\ PersistentSize \in PersistentSizes
          /\ persistent \in [0 .. PersistentSize - 1 -> Byte]
      BY <1>14, PersistentShape DEF L_PSTORE
    <2>2. sregs[D.a] \in Int
      BY <1>1, <1>14, Widths DEF L_PSTORE, Arm, Word
    <2>3. DOMAIN persistent = 0 .. PersistentSize - 1 /\ persistent \in [DOMAIN persistent -> Byte]
          /\ DOMAIN persistent \subseteq Int
      BY <2>1
    <2>4. persistent' = Written(persistent, PersistentSize, Source, sregs[D.a], 4)
      BY <1>14 DEF L_PSTORE
    <2>5. persistent' \in [0 .. PersistentSize - 1 -> Byte]
      BY <1>3, <2>1, <2>2, <2>3, <2>4, WrittenBytes
    <2> QED
      BY <1>0, <1>1, <1>2, <1>14, <2>1, <2>5, QuietKeeps DEF L_PSTORE
  <1> QED
    BY <1>5, <1>6, <1>7, <1>8, <1>9, <1>10, <1>11, <1>12, <1>13, <1>14

(* Every step of the engine.                                                   *)
LEMMA StepIInv == IInv /\ [NativeNext]_allVars => IInv'
  <1> SUFFICES ASSUME IInv, [NativeNext]_allVars PROVE IInv'
    OBVIOUS
  <1>1. CASE Begin
    BY <1>1, BeginIInv
  <1>2. CASE Give_up
    BY <1>2 DEF Give_up, nativeVars, IInv, TypeOK, CacheCoherent, Coherent, DispatchesMemory, D
  <1>3. CASE Sync
    <2>1. /\ regs' = [r \in Reg |-> sregs[r]] /\ pc' = spc /\ steps' = ssteps
          /\ phase' = "between" /\ result' \in {"stopped", "error", "running"}
          /\ memory' = memory /\ inputs' = inputs /\ persistent' = persistent
          /\ status' = status /\ sregs' = sregs /\ spc' = spc /\ ssteps' = ssteps
          /\ limit' = limit /\ previous' = previous /\ cache' = cache
      BY <1>3 DEF Sync
    <2>2. 0 \in Reg /\ Reg \subseteq 0 .. NREG
      BY Widths, SMT DEF Reg
    <2>3. TypeOK'
      BY <2>1, <2>2 DEF IInv, TypeOK
    <2> QED
      BY <2>1, <2>3 DEF IInv, CacheCoherent, DispatchesMemory
  <1>4. CASE L_INVALID
    BY <1>4 DEF L_INVALID, vars, IInv, TypeOK, CacheCoherent, Coherent, DispatchesMemory, Arm
  <1>5. CASE L_NOP \/ L_IN \/ L_OUT \/ L_GETPC \/ L_ALU \/ L_BRANCH \/ L_LOAD \/ L_STORE
             \/ L_PLOAD \/ L_PSTORE
    BY <1>5, InstructionIInv
  <1>6. CASE UNCHANGED allVars
    BY <1>6 DEF allVars, vars, nativeVars, IInv, TypeOK, CacheCoherent, Coherent,
                DispatchesMemory, D
  <1> QED
    BY <1>1, <1>2, <1>3, <1>4, <1>5, <1>6 DEF NativeNext

(* Registers, counters, cache entries and memory keep their widths, and zr is  *)
(* never written, whatever the program.                                        *)
THEOREM NativeTypes == NativeSpec => []TypeOK
  <1>1. IInv => TypeOK
    BY DEF IInv
  <1> QED
    BY <1>1, InitIInv, StepIInv, PTL DEF NativeSpec

(* Every valid entry of the decode cache agrees with memory in every state of  *)
(* a chunk: no store leaves a stale one behind.                                *)
THEOREM NativeCoherence == NativeSpec => []CacheCoherent
  <1>1. IInv => CacheCoherent
    BY DEF IInv
  <1> QED
    BY <1>1, InitIInv, StepIInv, PTL DEF NativeSpec

(* What is executed is what memory holds at the program counter.               *)
THEOREM NativeDispatch == NativeSpec => []DispatchesMemory
  <1>1. IInv => DispatchesMemory
    BY DEF IInv
  <1> QED
    BY <1>1, InitIInv, StepIInv, PTL DEF NativeSpec
-----------------------------------------------------------------------------
(* The refinement: the machine as the reference sees it.                       *)
ShownRegs   == IF InChunk THEN [r \in Reg |-> sregs[r]] ELSE regs
ShownPc     == IF InChunk THEN spc ELSE pc
ShownSteps  == IF InChunk THEN ssteps ELSE steps
ShownResult == IF phase = "done" /\ status \in {"stopped", "error"} THEN status ELSE result

(* A chunk runs only while the machine does, and not at the halt address; one  *)
(* that ended there has steps left.                                            *)
RunSound ==
    /\ InChunk => result = "running"
    /\ phase = "chunk" => spc # HaltAddress
    /\ phase = "done" /\ status = "halt" => spc = HaltAddress /\ ssteps < MaxSteps

LEMMA RunSoundStep == IInv /\ RunSound /\ [NativeNext]_allVars => RunSound'
  <1> SUFFICES ASSUME IInv, RunSound, [NativeNext]_allVars PROVE RunSound'
    OBVIOUS
  <1>1. CASE Begin
    <2>1. /\ result = "running" /\ result' = result /\ spc' = pc /\ ssteps' = steps
          /\ steps < MaxSteps
          /\ \/ pc = HaltAddress /\ phase' = "done" /\ status' = "halt"
             \/ pc # HaltAddress /\ phase' = "chunk"
      BY <1>1 DEF Begin, vars
    <2> QED
      BY <2>1 DEF RunSound, InChunk
  <1>2. CASE Give_up
    BY <1>2 DEF Give_up, nativeVars, RunSound, InChunk
  <1>3. CASE Sync
    BY <1>3 DEF Sync, RunSound, InChunk
  <1>4. CASE L_INVALID
    BY <1>4 DEF L_INVALID, vars, RunSound, InChunk, Arm
  <1>5. ASSUME phase = "chunk", NEW to, NEW c, NEW m, Finish(to, c, m)
        PROVE  RunSound'
    <2>1. result' = "running" /\ spc' = to /\ ssteps' = ssteps + 1
      BY <1>5 DEF RunSound, InChunk, Finish
    <2>2. ssteps \in Nat /\ limit \in Nat /\ MaxSteps \in Nat /\ limit <= MaxSteps
      BY MachineAssumption DEF IInv, TypeOK
    <2>3. \/ phase' = "done" /\ status' \in {"stopped", "limit"}
          \/ phase' = "done" /\ status' = "halt" /\ to = HaltAddress /\ ~(ssteps + 1 >= limit)
          \/ phase' = "chunk" /\ to # HaltAddress
      BY <1>5, Zenon DEF Finish
    <2>4. ~(ssteps + 1 >= limit) => ssteps + 1 < MaxSteps
      BY <2>2, SMT
    <2> QED
      BY <2>1, <2>3, <2>4 DEF RunSound, InChunk
  <1>6. CASE L_NOP \/ L_IN \/ L_OUT \/ L_GETPC \/ L_ALU \/ L_BRANCH \/ L_LOAD \/ L_STORE
             \/ L_PLOAD \/ L_PSTORE
    <2>1. phase = "chunk"
      BY <1>6 DEF L_NOP, L_IN, L_OUT, L_GETPC, L_ALU, L_BRANCH, L_LOAD, L_STORE, L_PLOAD,
                  L_PSTORE, Arm
    <2>2. \E to, c, m : Finish(to, c, m)
      BY <1>6 DEF L_NOP, L_IN, L_OUT, L_GETPC, L_ALU, L_BRANCH, L_LOAD, L_STORE, L_PLOAD,
                  L_PSTORE
    <2> QED
      BY <1>5, <2>1, <2>2
  <1>7. CASE UNCHANGED allVars
    BY <1>7 DEF allVars, vars, nativeVars, RunSound, InChunk
  <1> QED
    BY <1>1, <1>2, <1>3, <1>4, <1>6, <1>7 DEF NativeNext

(* Widths, memory and arithmetic are spelled out once for both engines.        *)
LEMMA SameArithmetic ==
    /\ Reference!WORD = WORD /\ Reference!Reg = Reg
    /\ \A b : Reference!High(b) = High(b) /\ Reference!Low(b) = Low(b)
    /\ \A m, size, a, n : Reference!Read(m, size, a, n) = Read(m, size, a, n)
    /\ \A m, size, a, v, n : Reference!Written(m, size, a, v, n) = Written(m, size, a, v, n)
    /\ \A code, a, b : Reference!Alu(code, a, b) = Alu(code, a, b)
    /\ \A code, source : Reference!Taken(code, source) = Taken(code, source)
    /\ \A code : Reference!SizeOf(code) = SizeOf(code)
    /\ Reference!PersistentSize = PersistentSize
  <1>1. Reference!BYTE = BYTE
    BY DEF Reference!BYTE, BYTE
  <1>2. Reference!HALF = HALF
    BY <1>1 DEF Reference!HALF, HALF
  <1>3. Reference!WORD = WORD
    BY <1>2 DEF Reference!WORD, WORD
  <1>4. Reference!Reg = Reg
    BY DEF Reference!Reg, Reg
  <1>5. \A b : Reference!High(b) = High(b) /\ Reference!Low(b) = Low(b)
    BY DEF Reference!High, High, Reference!Low, Low
  <1>6. \A m, size, a, n : Reference!Read(m, size, a, n) = Read(m, size, a, n)
    BY <1>1, <1>2, Zenon DEF Reference!Read, Read
  <1>7. Reference!Place = Place
    BY <1>1, <1>2, Zenon DEF Reference!Place, Place
  <1>8. \A m, size, a, v, n : Reference!Written(m, size, a, v, n) = Written(m, size, a, v, n)
    BY <1>1, <1>7, Zenon DEF Reference!Written, Written
  <1>9. \A v : Reference!Signed(v) = Signed(v)
    BY <1>3, Zenon DEF Reference!Signed, Signed
  <1>10. \A a, b : Reference!Flags(a, b) = Flags(a, b)
    BY <1>9, Zenon DEF Reference!Flags, Flags
  <1>11. \A code, a, b : Reference!Alu(code, a, b) = Alu(code, a, b)
    BY <1>3, <1>10, Zenon DEF Reference!Alu, Alu
  <1>12. \A v, i : Reference!HasBit(v, i) = HasBit(v, i)
    BY Zenon DEF Reference!HasBit, HasBit
  <1>13. \A code, source : Reference!Taken(code, source) = Taken(code, source)
    BY <1>12, Zenon DEF Reference!Taken, Taken
  <1>14. \A code : Reference!SizeOf(code) = SizeOf(code)
    BY Zenon DEF Reference!SizeOf, SizeOf
  <1>15. Reference!PersistentSize = PersistentSize
    <2>1. \A S : Reference!Cardinality(S) = Cardinality(S)
      BY Zenon DEF Reference!Cardinality, Cardinality
    <2> QED
      BY <2>1 DEF Reference!PersistentSize, PersistentSize
  <1> QED
    BY <1>3, <1>4, <1>5, <1>6, <1>8, <1>11, <1>13, <1>14, <1>15

(* What the reference decodes is what the engine dispatches.                   *)
LEMMA SameInstruction ==
    ASSUME IInv, phase = "chunk"
    PROVE  /\ Reference!Opcode = D.uop
           /\ D.uop.arm \in {"in", "getpc", "alu", "load"} =>
                 D.a = Dst(High(Reference!At(1)))
           /\ D.uop.arm = "alu" => ShownRegs[Low(Reference!At(1))] = sregs[D.b]
           /\ D.uop.arm \in {"branch", "store"} => ShownRegs[Low(Reference!At(1))] = sregs[D.a]
           /\ D.uop.arm \in Operands => Reference!Operand = Source
           /\ D.uop.arm # "invalid" => D.next = NextPc(spc, SizeIn(D.uop))
           /\ D.uop \in OpArms /\ Reference!At(1) \in Byte
  <1> DEFINE byte(i) == memory[(spc + i) % RamSize]
             o == Op[byte(0)]
  <1>1. memory \in [Address -> Byte] /\ spc \in Word /\ spc \in Int
        /\ sregs \in [0 .. NREG -> Word]
    BY Widths DEF IInv, TypeOK, Word
  <1>2. D = Decode(memory, spc)
    BY DEF IInv, DispatchesMemory
  <1>3. byte(0) \in Byte /\ byte(1) \in Byte /\ byte(2) \in Byte /\ byte(3) \in Byte
    BY <1>1, InRam
  <1>4. o \in OpArms
    BY <1>3, MachineAssumption
  <1>5. D.uop = o
    BY <1>2 DEF Decode
  <1>6. ShownPc = spc /\ ShownRegs = [r \in Reg |-> sregs[r]]
    BY DEF ShownPc, ShownRegs, InChunk
  <1>7. \A i : Reference!At(i) = byte(i)
    BY <1>6 DEF Reference!At, ShownPc
  <1>8. Reference!Opcode = o
    BY <1>7 DEF Reference!Opcode
  <1>9. /\ Low(byte(1)) \in Reg /\ Low(byte(2)) \in Reg
    BY <1>3, RegisterNumbers
  <1> HIDE DEF o
  <1>10. o.arm \in {"in", "getpc", "alu", "load"} => D.a = Dst(High(byte(1)))
    BY <1>2 DEF Decode, o
  <1>11. o.arm \in {"branch", "store"} => D.a = Low(byte(1))
    BY <1>2 DEF Decode, o
  <1>12. o.arm = "alu" => D.b = Low(byte(1))
    BY <1>2 DEF Decode, o
  <1>13. o.arm \in Operands => Reference!Operand = Source
    <2>1. SUFFICES ASSUME o.arm \in Operands PROVE Reference!Operand = Source
      OBVIOUS
    <2>2. CASE o.imm
      <3>1. D.imm = byte(2) * BYTE + byte(3)
        BY <1>2, <2>1, <2>2 DEF Decode, o
      <3>2. Source = D.imm
        BY <1>5, <2>2 DEF Source
      <3>3. Reference!Immediate = Read(memory, RamSize, spc + 2, 2)
        BY <1>6, SameArithmetic DEF Reference!Immediate, ShownPc
      <3>4. Read(memory, RamSize, spc + 2, 2)
              = memory[((spc + 2) + 0) % RamSize] * BYTE + memory[((spc + 2) + 1) % RamSize]
        BY DEF Read
      <3>5. (spc + 2) + 0 = spc + 2 /\ (spc + 2) + 1 = spc + 3
        BY <1>1
      <3>6. Reference!Operand = Reference!Immediate
        BY <1>8, <2>2 DEF Reference!Operand
      <3> QED
        BY <3>1, <3>2, <3>3, <3>4, <3>5, <3>6
    <2>3. CASE ~o.imm
      <3>1. D.c = Low(byte(2))
        BY <1>2, <2>1, <2>3 DEF Decode, o
      <3>2. Source = sregs[D.c]
        BY <1>5, <2>3 DEF Source
      <3>3. Reference!Operand = ShownRegs[Low(byte(2))]
        BY <1>7, <1>8, <2>3, SameArithmetic DEF Reference!Operand, ShownRegs
      <3> QED
        BY <1>6, <1>9, <3>1, <3>2, <3>3
    <2> QED
      BY <2>2, <2>3
  <1>14. o.arm # "invalid" => D.next = NextPc(spc, SizeIn(o))
    BY <1>2 DEF Decode, o
  <1>15. o.arm = "alu" => ShownRegs[Low(byte(1))] = sregs[D.b]
    BY <1>6, <1>9, <1>12
  <1>16. o.arm \in {"branch", "store"} => ShownRegs[Low(byte(1))] = sregs[D.a]
    BY <1>6, <1>9, <1>11
  <1> HIDE DEF byte
  <1> QED
    BY <1>3, <1>4, <1>5, <1>7, <1>8, <1>10, <1>13, <1>14, <1>15, <1>16

(* Assigning a register: the sink is not shown, as writes to zr are dropped.   *)
LEMMA AssignShown ==
    ASSUME IInv, phase = "chunk", InChunk', NEW v, sregs' = [sregs EXCEPT ![D.a] = v],
           D.uop.arm \in {"in", "getpc", "alu", "load"},
           NEW r, r = Reference!High(Reference!At(1))
    PROVE  ShownRegs' = IF r = 0 THEN ShownRegs ELSE [ShownRegs EXCEPT ![r] = v]
  <1>1. D.a = Dst(r) /\ r \in Reg
    BY SameInstruction, SameArithmetic, RegisterNumbers
  <1>2. /\ ShownRegs = [x \in Reg |-> sregs[x]] /\ ShownRegs' = [x \in Reg |-> sregs'[x]]
        /\ sregs' = [sregs EXCEPT ![D.a] = v] /\ sregs \in [0 .. NREG -> Word]
    BY DEF ShownRegs, InChunk, IInv, TypeOK
  <1>3. NREG \notin Reg /\ Reg \subseteq 0 .. NREG
    BY Widths, SMT DEF Reg
  <1>4. CASE r = 0
    <2>1. D.a = NREG
      BY <1>1, <1>4 DEF Dst, Sink
    <2>2. \A x \in Reg : sregs'[x] = sregs[x]
      BY <1>2, <1>3, <2>1
    <2> QED
      BY <1>2, <1>4, <2>2
  <1>5. CASE r # 0
    <2>1. D.a = r
      BY <1>1, <1>5 DEF Dst
    <2>2. \A x \in Reg : sregs'[x] = IF x = r THEN v ELSE sregs[x]
      BY <1>1, <1>2, <1>3, <2>1
    <2>3. ShownRegs' = [ShownRegs EXCEPT ![r] = v]
      BY <1>1, <1>2, <2>2
    <2> QED
      BY <1>5, <2>3
  <1> QED
    BY <1>4, <1>5

(* The end of an instruction that goes on where the reference does.            *)
LEMMA AdvanceShown ==
    ASSUME IInv, RunSound, phase = "chunk", NEW n, NEW c, NEW m, Finish(n, c, m), NEW to,
           n = IF Symphony /\ (to - spc) % WORD \in 1 .. 4 THEN (spc + 4) % WORD ELSE to % WORD
    PROVE  Reference!Advance(to) /\ InChunk'
  <1>1. /\ spc' = n /\ ssteps' = ssteps + 1 /\ result' = "running" /\ previous = spc
    BY DEF Finish, RunSound, InChunk, IInv, DispatchesMemory
  <1>2. \/ phase' = "done" /\ status' = "stopped" /\ n = spc
        \/ phase' = "done" /\ status' \in {"limit", "halt"} /\ n # spc
        \/ phase' = "chunk" /\ n # spc
    BY <1>1, Zenon DEF Finish
  <1>3. InChunk /\ InChunk'
    BY <1>2 DEF InChunk
  <1>4. /\ ShownPc = spc /\ ShownPc' = n /\ ShownSteps' = ShownSteps + 1
        /\ ShownResult' = IF n = spc THEN "stopped" ELSE "running"
    BY <1>1, <1>2, <1>3 DEF ShownPc, ShownSteps, ShownResult
  <1>5. ShownPc' = IF Symphony /\ (to - ShownPc) % Reference!WORD \in 1 .. 4
                   THEN (ShownPc + 4) % Reference!WORD ELSE to % Reference!WORD
    BY <1>4, SameArithmetic
  <1>6. ShownResult' = IF ShownPc' = ShownPc THEN "stopped" ELSE "running"
    BY <1>4
  <1> QED
    BY <1>3, <1>4, <1>5, <1>6 DEF Reference!Advance, ShownPc, ShownSteps, ShownResult

(* Where the reference would go: past the instruction.                         *)
LEMMA FallsThrough ==
    ASSUME IInv, phase = "chunk", D.uop.arm # "invalid"
    PROVE  LET to == spc + SizeIn(D.uop)
           IN  D.next = IF Symphony /\ (to - spc) % WORD \in 1 .. 4
                        THEN (spc + 4) % WORD ELSE to % WORD
  <1> DEFINE z == SizeIn(D.uop)
             to == spc + z
  <1>1. D.next = NextPc(spc, z)
    BY SameInstruction
  <1>2. spc \in Word /\ z \in 1 .. 4 /\ WORD \in Nat /\ WORD >= 256
    BY Widths DEF IInv, TypeOK, SizeIn
  <1>3. spc \in Int
    BY <1>2 DEF Word
  <1> HIDE DEF z
  <1>4. to - spc = z
    BY <1>2, <1>3
  <1>5. z % WORD = z
    BY <1>2
  <1>6. (to - spc) % WORD \in 1 .. 4
    BY <1>2, <1>4, <1>5
  <1> QED
    BY <1>1, <1>6 DEF NextPc, z

(* Where the reference goes, in terms of the decoded instruction.              *)
LEMMA ReferencePath ==
    ASSUME IInv, phase = "chunk",
           NEW to, to = IF D.uop.arm = "branch" /\ Taken(D.uop.code, sregs[D.a]) THEN Source
                        ELSE spc + SizeIn(D.uop)
    PROVE  ReferenceGoesTo = IF Symphony /\ (to - spc) % WORD \in 1 .. 4
                             THEN (spc + 4) % WORD ELSE to % WORD
  <1> DEFINE byte(i) == memory[(spc + i) % RamSize]
             op == Op[memory[spc % RamSize]]
             target == IF op.imm THEN byte(2) * BYTE + byte(3) ELSE sregs[Low(byte(2))]
  <1>1. D = Decode(memory, spc)
    BY DEF IInv, DispatchesMemory
  <1>2. spc + 0 = spc
    BY Widths DEF IInv, TypeOK, Word
  <1>3. D.uop = op
    BY <1>1, <1>2 DEF Decode
  <1>4. Op[memory[(spc + 0) % RamSize]] = op
    BY <1>2
  <1>5. op.arm = "branch" => D.a = Low(byte(1))
    BY <1>1, <1>3, <1>4 DEF Decode
  <1>6. op.arm = "branch" => Source = target
    <2>1. op.arm = "branch" /\ op.imm => D.imm = byte(2) * BYTE + byte(3)
      BY <1>1, <1>3, <1>4 DEF Decode, Operands
    <2>2. op.arm = "branch" /\ ~op.imm => D.c = Low(byte(2))
      BY <1>1, <1>3, <1>4 DEF Decode, Operands
    <2> QED
      BY <1>3, <2>1, <2>2 DEF Source
  <1>7. to = IF op.arm = "branch" /\ Taken(op.code, sregs[Low(byte(1))]) THEN target
             ELSE spc + SizeIn(op)
    BY <1>3, <1>5, <1>6
  <1> QED
    BY <1>7, Zenon DEF ReferenceGoesTo

(* A branch goes where the reference takes it, if SamePath says so.            *)
LEMMA GoesTo ==
    ASSUME IInv, phase = "chunk", SamePath, D.uop.arm = "branch",
           NEW to, to = IF Taken(D.uop.code, sregs[D.a]) THEN Source ELSE spc + SizeIn(D.uop)
    PROVE  (IF Taken(D.uop.code, sregs[D.a]) THEN Source ELSE D.next)
              = IF Symphony /\ (to - spc) % WORD \in 1 .. 4 THEN (spc + 4) % WORD ELSE to % WORD
  <1>1. ReferenceGoesTo = NativeGoesTo
    BY DEF SamePath
  <1>2. NativeGoesTo = IF Taken(D.uop.code, sregs[D.a]) THEN Source ELSE D.next
    BY DEF NativeGoesTo
  <1>3. ReferenceGoesTo = IF Symphony /\ (to - spc) % WORD \in 1 .. 4
                          THEN (spc + 4) % WORD ELSE to % WORD
    BY ReferencePath
  <1> QED
    BY <1>1, <1>2, <1>3

(* The one case in which the engines part: on Symphony, _step_symphony takes a *)
(* program counter one to four bytes on for one that fell through, also when a *)
(* branch put it there.                                                        *)
ShortJump ==
    /\ phase = "chunk" /\ Symphony
    /\ D.uop.arm = "branch" /\ Taken(D.uop.code, sregs[D.a])
    /\ (Source - spc) % WORD \in 1 .. 3

(* A word from one to four bytes after another, around the end of memory.      *)
LEMMA BytesOn ==
    ASSUME NEW x \in Word, NEW y \in Word
    PROVE  /\ y % WORD = y
           /\ (y - x) % WORD = 4 <=> y = (x + 4) % WORD
  <1>1. WORD \in Nat /\ WORD >= 256
    BY Widths
  <1>2. x \in Int /\ y \in Int /\ 0 <= x /\ x < WORD /\ 0 <= y /\ y < WORD
    BY <1>1 DEF Word
  <1>3. y % WORD = y
    BY <1>1, <1>2, SMT
  <1> DEFINE W == WORD
             d == (y - x) % W
             n == (x + 4) % W
  <1>4. d = IF y >= x THEN y - x ELSE y - x + W
    <2>1. CASE y >= x
      <3>1. y - x \in 0 .. W - 1 /\ y - x = W * 0 + (y - x)
        BY <1>1, <1>2, <2>1
      <3> QED
        BY <1>1, <1>2, <2>1, <3>1, Remainder
    <2>2. CASE ~(y >= x)
      <3>1. y - x + W \in 0 .. W - 1 /\ y - x = W * (-1) + (y - x + W)
        BY <1>1, <1>2, <2>2
      <3> QED
        BY <1>1, <1>2, <2>2, <3>1, Remainder
    <2> QED
      BY <2>1, <2>2
  <1>5. n = IF x + 4 < W THEN x + 4 ELSE x + 4 - W
    <2>1. CASE x + 4 < W
      <3>1. x + 4 \in 0 .. W - 1 /\ x + 4 = W * 0 + (x + 4)
        BY <1>1, <1>2, <2>1
      <3> QED
        BY <1>1, <1>2, <2>1, <3>1, Remainder
    <2>2. CASE ~(x + 4 < W)
      <3>1. x + 4 - W \in 0 .. W - 1 /\ x + 4 = W * 1 + (x + 4 - W)
        BY <1>1, <1>2, <2>2
      <3> QED
        BY <1>1, <1>2, <2>2, <3>1, Remainder
    <2> QED
      BY <2>1, <2>2
  <1> HIDE DEF d, n
  <1>6. d = 4 <=> y = n
    BY <1>1, <1>2, <1>4, <1>5
  <1> QED
    BY <1>3, <1>6 DEF d, n

LEMMA PathsPart == ASSUME IInv PROVE SamePath <=> ~ShortJump
  <1>1. CASE phase # "chunk" \/ D.uop.arm = "invalid"
    BY <1>1 DEF SamePath, ShortJump
  <1>2. CASE phase = "chunk" /\ D.uop.arm # "invalid"
    <2> DEFINE jumps == D.uop.arm = "branch" /\ Taken(D.uop.code, sregs[D.a])
               to == IF jumps THEN Source ELSE spc + SizeIn(D.uop)
    <2>1. ReferenceGoesTo = IF Symphony /\ (to - spc) % WORD \in 1 .. 4
                            THEN (spc + 4) % WORD ELSE to % WORD
      BY <1>2, ReferencePath
    <2>2. NativeGoesTo = IF jumps THEN Source ELSE D.next
      BY DEF NativeGoesTo
    <2>3. SamePath <=> NativeGoesTo = ReferenceGoesTo
      BY <1>2 DEF SamePath
    <2>4. ShortJump <=> Symphony /\ jumps /\ (Source - spc) % WORD \in 1 .. 3
      BY <1>2 DEF ShortJump
    <2>5. CASE ~jumps
      <3>1. D.next = IF Symphony /\ ((spc + SizeIn(D.uop)) - spc) % WORD \in 1 .. 4
                     THEN (spc + 4) % WORD ELSE (spc + SizeIn(D.uop)) % WORD
        BY <1>2, FallsThrough
      <3> QED
        BY <2>1, <2>2, <2>3, <2>4, <2>5, <3>1
    <2>6. CASE jumps
      <3> DEFINE d == (Source - spc) % WORD
                 past == (spc + 4) % WORD
      <3>1. Source % WORD = Source /\ (d = 4 <=> Source = past)
        BY <1>2, Dispatched, BytesOn DEF IInv, TypeOK
      <3>2. ReferenceGoesTo = IF Symphony /\ d \in 1 .. 4 THEN past ELSE Source
        BY <2>1, <2>6, <3>1
      <3>3. NativeGoesTo = Source
        BY <2>2, <2>6
      <3> HIDE DEF d, past
      <3>4. d \in 1 .. 4 <=> d \in 1 .. 3 \/ d = 4
        OBVIOUS
      <3>5. d \in 1 .. 3 => d # 4
        OBVIOUS
      <3>6. ShortJump <=> Symphony /\ d \in 1 .. 3
        BY <2>4, <2>6 DEF d
      <3> QED
        BY <2>3, <3>1, <3>2, <3>3, <3>4, <3>5, <3>6
    <2> QED
      BY <2>5, <2>6
  <1> QED
    BY <1>1, <1>2

(* Every dispatched instruction is a step of the reference.                    *)
LEMMA InstructionShown ==
    ASSUME IInv, RunSound, SamePath,
           L_NOP \/ L_IN \/ L_OUT \/ L_GETPC \/ L_ALU \/ L_BRANCH \/ L_LOAD \/ L_STORE
               \/ L_PLOAD \/ L_PSTORE
    PROVE  Reference!Next
  <1> DEFINE u == D.uop
             size == SizeIn(u)
             past == spc + size
  <1>0. phase = "chunk"
    BY DEF L_NOP, L_IN, L_OUT, L_GETPC, L_ALU, L_BRANCH, L_LOAD, L_STORE, L_PLOAD, L_PSTORE, Arm
  <1>1. /\ Reference!Opcode = u
        /\ u.arm = "alu" => ShownRegs[Reference!Low(Reference!At(1))] = sregs[D.b]
        /\ u.arm \in {"branch", "store"} =>
              ShownRegs[Reference!Low(Reference!At(1))] = sregs[D.a]
        /\ u.arm \in Operands => Reference!Operand = Source
    BY <1>0, SameInstruction, SameArithmetic
  <1>2. Reference!Runs
    <2>1. ssteps \in Nat /\ limit \in Nat /\ MaxSteps \in Nat /\ limit <= MaxSteps /\ ssteps < limit
      BY <1>0, MachineAssumption DEF IInv, TypeOK
    <2>2. ssteps < MaxSteps
      BY <2>1, SMT
    <2>3. ShownResult = "running" /\ ShownSteps = ssteps /\ ShownPc = spc /\ spc # HaltAddress
      BY <1>0 DEF RunSound, InChunk, ShownResult, ShownSteps, ShownPc
    <2> QED
      BY <2>2, <2>3 DEF Reference!Runs, ShownResult, ShownSteps, ShownPc
  <1>3. Reference!NeedsPersistent <=> Guarded
    BY <1>1 DEF Reference!NeedsPersistent, Guarded
  <1>4. \A n, c, m : Finish(n, c, m) =>
            /\ InChunk'
            /\ n = D.next /\ u.arm # "invalid" => Reference!Advance(past)
    <2> SUFFICES ASSUME NEW n, NEW c, NEW m, Finish(n, c, m)
                 PROVE  /\ InChunk'
                        /\ n = D.next /\ u.arm # "invalid" => Reference!Advance(past)
      OBVIOUS
    <2>1. phase' \in {"done", phase}
      BY Zenon DEF Finish
    <2>2. InChunk'
      BY <1>0, <2>1 DEF InChunk
    <2>3. CASE n = D.next /\ u.arm # "invalid"
      <3>1. n = IF Symphony /\ (past - spc) % WORD \in 1 .. 4
                THEN (spc + 4) % WORD ELSE past % WORD
        BY <1>0, <2>3, FallsThrough
      <3> HIDE DEF past
      <3> QED
        BY <1>0, <2>2, <3>1, AdvanceShown
    <2> QED
      BY <2>2, <2>3
  <1>5. ShownPc = spc
    BY <1>0 DEF ShownPc, InChunk
  <1>6. sregs' = sregs /\ InChunk' => ShownRegs' = ShownRegs
    BY <1>0 DEF ShownRegs, InChunk
  <1> DEFINE r == Reference!High(Reference!At(1))
  <1>7. \A v : sregs' = [sregs EXCEPT ![D.a] = v] /\ InChunk'
                   /\ u.arm \in {"in", "getpc", "alu", "load"}
                 => ShownRegs' = IF r = 0 THEN ShownRegs ELSE [ShownRegs EXCEPT ![r] = v]
    BY <1>0, AssignShown
  <1>8. CASE L_NOP
    <2>1. u.arm = "nop" /\ Finish(D.next, cache, memory)
          /\ sregs' = sregs /\ UNCHANGED <<memory, inputs, outputs, persistent>>
      BY <1>8 DEF L_NOP, Arm
    <2>2. Reference!Advance(spc + 1) /\ InChunk'
      BY <1>4, <2>1 DEF SizeIn
    <2> QED
      BY <1>1, <1>2, <1>5, <1>6, <2>1, <2>2
         DEF Reference!Next, Reference!Nop, ShownPc, ShownRegs
  <1>9. CASE L_IN
    <2> DEFINE v == IF inputs = <<>> THEN 0 ELSE Head(inputs)
    <2>1. /\ u.arm = "in" /\ sregs' = [sregs EXCEPT ![D.a] = v]
          /\ Finish(D.next, cache, memory)
          /\ inputs' = IF inputs = <<>> THEN inputs ELSE Tail(inputs)
          /\ UNCHANGED <<memory, outputs, persistent>>
      BY <1>9 DEF L_IN, Arm, Put
    <2>2. Reference!Advance(spc + 2) /\ InChunk'
      BY <1>4, <2>1 DEF SizeIn
    <2> HIDE DEF v
    <2>3. ShownRegs' = IF r = 0 THEN ShownRegs ELSE [ShownRegs EXCEPT ![r] = v]
      BY <1>7, <2>1, <2>2
    <2> QED
      BY <1>1, <1>2, <1>5, <2>1, <2>2, <2>3
         DEF Reference!Next, Reference!In, Reference!Assign, ShownPc, ShownRegs, v
  <1>10. CASE L_OUT
    <2>1. /\ u.arm = "out" /\ Finish(D.next, cache, memory) /\ outputs' = Append(outputs, Source)
          /\ sregs' = sregs /\ UNCHANGED <<memory, inputs, persistent>>
      BY <1>10 DEF L_OUT, Arm
    <2>2. Reference!Advance(spc + (IF u.imm THEN 4 ELSE 3)) /\ InChunk'
      BY <1>4, <2>1 DEF SizeIn
    <2>3. outputs' = Append(outputs, Reference!Operand)
      BY <1>1, <2>1 DEF Operands
    <2> QED
      BY <1>1, <1>2, <1>5, <1>6, <2>1, <2>2, <2>3
         DEF Reference!Next, Reference!Out, ShownPc, ShownRegs
  <1>11. CASE L_GETPC
    <2>1. /\ u.arm = "getpc" /\ sregs' = [sregs EXCEPT ![D.a] = previous]
          /\ Finish(D.next, cache, memory)
          /\ UNCHANGED <<memory, inputs, outputs, persistent>>
      BY <1>11 DEF L_GETPC, Arm, Put
    <2>2. Reference!Advance(spc + 2) /\ InChunk'
      BY <1>4, <2>1 DEF SizeIn
    <2>3. previous = spc
      BY <1>0 DEF IInv, DispatchesMemory
    <2>4. ShownRegs' = IF r = 0 THEN ShownRegs ELSE [ShownRegs EXCEPT ![r] = spc]
      BY <1>7, <2>1, <2>2, <2>3
    <2> QED
      BY <1>1, <1>2, <1>5, <2>1, <2>2, <2>4
         DEF Reference!Next, Reference!GetPc, Reference!Assign, ShownPc, ShownRegs
  <1>12. CASE L_ALU
    <2> DEFINE v == Alu(u.code, sregs[D.b], Source)
    <2>1. /\ u.arm = "alu" /\ sregs' = [sregs EXCEPT ![D.a] = v] /\ Finish(D.next, cache, memory)
          /\ UNCHANGED <<memory, inputs, outputs, persistent>>
      BY <1>12 DEF L_ALU, Arm, Put
    <2>2. Reference!Advance(spc + (IF u.imm THEN 4 ELSE 3)) /\ InChunk'
      BY <1>4, <2>1 DEF SizeIn
    <2>3. v = Reference!Alu(u.code, ShownRegs[Reference!Low(Reference!At(1))], Reference!Operand)
      BY <1>1, <2>1, SameArithmetic DEF Operands
    <2> HIDE DEF v
    <2>4. ShownRegs' = IF r = 0 THEN ShownRegs ELSE [ShownRegs EXCEPT ![r] = v]
      BY <1>7, <2>1, <2>2
    <2> QED
      BY <1>1, <1>2, <1>5, <2>1, <2>2, <2>3, <2>4
         DEF Reference!Next, Reference!Arithmetic, Reference!Assign, ShownPc, ShownRegs
  <1>13. CASE L_BRANCH
    <2> DEFINE taken == Taken(u.code, sregs[D.a])
               n == IF taken THEN Source ELSE D.next
               to == IF taken THEN Source ELSE past
    <2>1. /\ u.arm = "branch" /\ Finish(n, cache, memory)
          /\ sregs' = sregs /\ UNCHANGED <<memory, inputs, outputs, persistent>>
      BY <1>13 DEF L_BRANCH, Arm
    <2>2. n = IF Symphony /\ (to - spc) % WORD \in 1 .. 4 THEN (spc + 4) % WORD ELSE to % WORD
      BY <1>0, <2>1, GoesTo
    <2>3. to = IF Reference!Taken(u.code, ShownRegs[Reference!Low(Reference!At(1))])
               THEN Reference!Operand ELSE spc + (IF u.imm THEN 4 ELSE 3)
      BY <1>1, <2>1, SameArithmetic DEF Operands, SizeIn
    <2> HIDE DEF n, to
    <2>4. Reference!Advance(to) /\ InChunk'
      BY <1>0, <2>1, <2>2, AdvanceShown
    <2> QED
      BY <1>1, <1>2, <1>5, <1>6, <2>1, <2>3, <2>4
         DEF Reference!Next, Reference!Branch, ShownPc, ShownRegs
  <1>14. CASE L_LOAD
    <2> DEFINE v == Read(memory, RamSize, Source, SizeOf(u.code))
    <2>1. /\ u.arm = "load" /\ ~Guarded /\ sregs' = [sregs EXCEPT ![D.a] = v]
          /\ Finish(D.next, cache, memory)
          /\ UNCHANGED <<memory, inputs, outputs, persistent>>
      BY <1>14 DEF L_LOAD, Arm, Put
    <2>2. Reference!Advance(spc + (IF u.imm THEN 4 ELSE 3)) /\ InChunk'
      BY <1>4, <2>1 DEF SizeIn
    <2>3. v = Reference!Read(memory, RamSize, Reference!Operand, Reference!SizeOf(u.code))
      BY <1>1, <2>1, SameArithmetic DEF Operands
    <2> HIDE DEF v
    <2>4. ShownRegs' = IF r = 0 THEN ShownRegs ELSE [ShownRegs EXCEPT ![r] = v]
      BY <1>7, <2>1, <2>2
    <2> QED
      BY <1>1, <1>2, <1>3, <1>5, <2>1, <2>2, <2>3, <2>4
         DEF Reference!Next, Reference!Load, Reference!Assign, ShownPc, ShownRegs
  <1>15. CASE L_STORE
    <2> DEFINE w == Written(memory, RamSize, Source, sregs[D.a], SizeOf(u.code))
               c == Invalidated(cache, Source, SizeOf(u.code))
    <2>1. /\ u.arm = "store" /\ ~Guarded /\ memory' = w /\ Finish(D.next, c, memory')
          /\ sregs' = sregs /\ UNCHANGED <<inputs, outputs, persistent>>
      BY <1>15 DEF L_STORE, Arm
    <2> HIDE DEF c
    <2>2. Reference!Advance(spc + (IF u.imm THEN 4 ELSE 3)) /\ InChunk'
      BY <1>4, <2>1 DEF SizeIn
    <2>3. w = Reference!Written(memory, RamSize, Reference!Operand,
                                ShownRegs[Reference!Low(Reference!At(1))],
                                Reference!SizeOf(u.code))
      BY <1>1, <2>1, SameArithmetic DEF Operands
    <2> HIDE DEF w
    <2> QED
      BY <1>1, <1>2, <1>3, <1>5, <1>6, <2>1, <2>2, <2>3
         DEF Reference!Next, Reference!Store, ShownPc, ShownRegs
  <1>16. CASE L_PLOAD
    <2> DEFINE v == Read(persistent, PersistentSize, Source, 4)
    <2>1. /\ u.arm = "load" /\ Guarded /\ PersistentSize > 0 /\ sregs' = [sregs EXCEPT ![D.a] = v]
          /\ Finish(D.next, cache, memory) /\ UNCHANGED <<memory, inputs, outputs, persistent>>
      BY <1>16 DEF L_PLOAD, Arm, Put
    <2>2. Reference!Advance(spc + (IF u.imm THEN 4 ELSE 3)) /\ InChunk'
      BY <1>4, <2>1 DEF SizeIn
    <2>3. v = Reference!Read(persistent, Reference!PersistentSize, Reference!Operand, 4)
          /\ Reference!PersistentSize > 0
      BY <1>1, <2>1, SameArithmetic DEF Operands
    <2> HIDE DEF v
    <2>4. ShownRegs' = IF r = 0 THEN ShownRegs ELSE [ShownRegs EXCEPT ![r] = v]
      BY <1>7, <2>1, <2>2
    <2> QED
      BY <1>1, <1>2, <1>3, <1>5, <2>1, <2>2, <2>3, <2>4
         DEF Reference!Next, Reference!PersistentLoad, Reference!Assign, ShownPc, ShownRegs
  <1>17. CASE L_PSTORE
    <2> DEFINE w == Written(persistent, PersistentSize, Source, sregs[D.a], 4)
    <2>1. /\ u.arm = "store" /\ Guarded /\ PersistentSize > 0 /\ persistent' = w
          /\ Finish(D.next, cache, memory)
          /\ sregs' = sregs /\ UNCHANGED <<memory, inputs, outputs>>
      BY <1>17 DEF L_PSTORE, Arm
    <2>2. Reference!Advance(spc + (IF u.imm THEN 4 ELSE 3)) /\ InChunk'
      BY <1>4, <2>1 DEF SizeIn
    <2>3. w = Reference!Written(persistent, Reference!PersistentSize, Reference!Operand,
                                ShownRegs[Reference!Low(Reference!At(1))], 4)
          /\ Reference!PersistentSize > 0
      BY <1>1, <2>1, SameArithmetic DEF Operands
    <2> HIDE DEF w
    <2> QED
      BY <1>1, <1>2, <1>3, <1>5, <1>6, <2>1, <2>2, <2>3
         DEF Reference!Next, Reference!PersistentStore, ShownPc, ShownRegs
  <1> QED
    BY <1>8, <1>9, <1>10, <1>11, <1>12, <1>13, <1>14, <1>15, <1>16, <1>17

(* Every step of the engine is a step of the reference or shows nothing.       *)
LEMMA StepShown ==
    ASSUME IInv, RunSound, SamePath, [NativeNext]_allVars
    PROVE  [Reference!Next]_(Reference!vars)
  <1>0. memory' = memory /\ inputs' = inputs /\ outputs' = outputs /\ persistent' = persistent
        /\ ShownRegs' = ShownRegs /\ ShownPc' = ShownPc /\ ShownSteps' = ShownSteps
        /\ ShownResult' = ShownResult
        => UNCHANGED Reference!vars
    BY DEF Reference!vars, ShownRegs, ShownPc, ShownSteps, ShownResult
  <1>1. CASE Begin
    <2>1. /\ phase = "between" /\ result = "running"
          /\ sregs' = [x \in 0 .. NREG |-> IF x = Sink THEN 0 ELSE regs[x]]
          /\ spc' = pc /\ ssteps' = steps /\ UNCHANGED vars
          /\ \/ phase' = "done" /\ status' = "halt"
             \/ phase' = "chunk"
      BY <1>1 DEF Begin
    <2>2. regs \in [Reg -> Word] /\ \A x \in Reg : x \in 0 .. NREG /\ x # Sink
      BY Widths, SMT DEF IInv, TypeOK, Reg, Sink
    <2>3. [x \in Reg |-> sregs'[x]] = regs
      BY <2>1, <2>2
    <2>4. ~InChunk /\ InChunk'
      BY <2>1 DEF InChunk
    <2>5. ShownRegs' = ShownRegs
      BY <2>3, <2>4 DEF ShownRegs
    <2> QED
      BY <1>0, <2>1, <2>4, <2>5 DEF ShownPc, ShownSteps, ShownResult, vars
  <1>2. CASE Give_up
    <2>1. /\ phase = "between" /\ result = "running" /\ steps >= MaxSteps /\ result' = "exceeded"
          /\ phase' = phase /\ UNCHANGED <<memory, regs, pc, steps, inputs, outputs, persistent>>
      BY <1>2 DEF Give_up, nativeVars
    <2>2. ~InChunk /\ ~InChunk'
      BY <2>1 DEF InChunk
    <2>3. Reference!Exceeded
      BY <2>1, <2>2 DEF Reference!Exceeded
    <2> QED
      BY <2>3 DEF Reference!Next
  <1>3. CASE Sync
    <2>1. /\ phase = "done" /\ phase' = "between" /\ result = "running"
          /\ regs' = [x \in Reg |-> sregs[x]] /\ pc' = spc /\ steps' = ssteps
          /\ result' = CASE status \in {"halt", "stopped"} -> "stopped"
                         [] status = "error"               -> "error"
                         [] OTHER                          -> "running"
          /\ UNCHANGED <<memory, inputs, outputs, persistent>>
      BY <1>3 DEF Sync, RunSound, InChunk
    <2>2. InChunk /\ ~InChunk'
      BY <2>1 DEF InChunk
    <2>3. ShownRegs' = ShownRegs /\ ShownPc' = ShownPc /\ ShownSteps' = ShownSteps
      BY <2>1, <2>2 DEF ShownRegs, ShownPc, ShownSteps
    <2>4. CASE status # "halt"
      <3>1. ShownResult' = ShownResult
        BY <2>1, <2>4 DEF ShownResult, IInv, TypeOK
      <3> QED
        BY <1>0, <2>1, <2>3, <3>1
    <2>5. CASE status = "halt"
      <3>1. ShownResult = "running" /\ ShownResult' = "stopped" /\ ShownPc = HaltAddress
            /\ ShownSteps < MaxSteps
        BY <2>1, <2>2, <2>5 DEF ShownResult, ShownPc, ShownSteps, RunSound
      <3>2. Reference!Halt
        BY <2>1, <2>3, <3>1
           DEF Reference!Halt, ShownRegs, ShownPc, ShownSteps, ShownResult
      <3> QED
        BY <3>2 DEF Reference!Next
    <2> QED
      BY <2>4, <2>5
  <1>4. CASE L_INVALID
    <2>1. /\ phase = "chunk" /\ phase' = "done" /\ status' = "error"
          /\ D.uop.arm = "invalid" \/ (Guarded /\ PersistentSize = 0)
          /\ UNCHANGED <<memory, inputs, outputs, persistent, sregs, spc, ssteps>>
      BY <1>4 DEF L_INVALID, vars, Arm
    <2>2. InChunk /\ InChunk'
      BY <2>1 DEF InChunk
    <2>3. ShownRegs' = ShownRegs /\ ShownPc' = ShownPc /\ ShownSteps' = ShownSteps
          /\ ShownResult' = "error"
      BY <2>1, <2>2 DEF ShownRegs, ShownPc, ShownSteps, ShownResult
    <2>4. Reference!Opcode = D.uop
      BY <2>1, SameInstruction
    <2>5. ShownResult = "running" /\ ShownSteps < MaxSteps /\ ShownPc # HaltAddress
      <3>1. ssteps \in Nat /\ limit \in Nat /\ MaxSteps \in Nat /\ limit <= MaxSteps
            /\ ssteps < limit
        BY <2>1, MachineAssumption DEF IInv, TypeOK
      <3>2. ssteps < MaxSteps
        BY <3>1, SMT
      <3> QED
        BY <2>1, <2>2, <3>2 DEF RunSound, ShownResult, ShownSteps, ShownPc
    <2>6. Reference!Opcode.arm = "invalid"
          \/ (Reference!NeedsPersistent /\ Reference!PersistentSize = 0)
      BY <2>1, <2>4, SameArithmetic DEF Reference!NeedsPersistent, Guarded
    <2>7. Reference!Unsupported
      BY <2>1, <2>3, <2>5, <2>6
         DEF Reference!Unsupported, Reference!Runs, ShownRegs, ShownPc, ShownSteps, ShownResult
    <2> QED
      BY <2>7 DEF Reference!Next
  <1>5. CASE L_NOP \/ L_IN \/ L_OUT \/ L_GETPC \/ L_ALU \/ L_BRANCH \/ L_LOAD \/ L_STORE
             \/ L_PLOAD \/ L_PSTORE
    BY <1>5, InstructionShown
  <1>6. CASE UNCHANGED allVars
    BY <1>0, <1>6 DEF allVars, vars, nativeVars, ShownRegs, ShownPc, ShownSteps, ShownResult,
                      InChunk
  <1> QED
    BY <1>1, <1>2, <1>3, <1>4, <1>5, <1>6 DEF NativeNext

(* The engines part exactly at a short jump: native execution lands on the     *)
(* target of every taken branch, and so does machine.py unless that target is  *)
(* one to three bytes after the branch on the fixed-width ISA.                 *)
THEOREM EnginesPartAtShortJumps == NativeSpec => [](SamePath <=> ~ShortJump)
  BY InitIInv, StepIInv, PathsPart, PTL DEF NativeSpec

(* On Dynphony both engines always continue at the same program counter.       *)
THEOREM DynphonySamePath == ~Symphony => (NativeSpec => []SamePath)
  <1>1. ASSUME ~Symphony PROVE IInv => SamePath
    BY <1>1, PathsPart DEF ShortJump
  <1>2. ASSUME ~Symphony PROVE NativeSpec => []SamePath
    BY <1>1, <1>2, InitIInv, StepIInv, PTL DEF NativeSpec
  <1> QED
    BY <1>2

(* As long as no short jump is taken, what the native engine does, through its *)
(* decode cache and in chunks, is a run of the reference emulator.             *)
THEOREM NativeImplementsReference == NativeSpec /\ []SamePath => Reference!Spec
  <1>1. NativeInit => Reference!Init
    BY DEF NativeInit, Init, Reference!Init, InChunk, Reference!Reg, Reg
  <1>2. NativeInit => RunSound
    BY DEF NativeInit, RunSound, InChunk
  <1> QED
    BY <1>1, <1>2, InitIInv, StepIInv, RunSoundStep, StepShown, PTL
       DEF NativeSpec, Reference!Spec

(* On Dynphony it is one whatever the program: the safety half of              *)
(* MatchesReference.                                                           *)
THEOREM DynphonyImplementsReference == ~Symphony => (NativeSpec => Reference!Spec)
  <1>1. ASSUME ~Symphony PROVE NativeSpec => []SamePath
    BY <1>1, DynphonySamePath
  <1>2. ASSUME ~Symphony PROVE NativeSpec => Reference!Spec
    BY <1>1, <1>2, NativeImplementsReference, PTL
  <1> QED
    BY <1>2
=============================================================================
