--------------------------- MODULE FileSysProofs ---------------------------
(***************************************************************************)
(* Proofs about the file system for every block size, directory, number of *)
(* descriptors and read sizes.                                             *)
(***************************************************************************)
EXTENDS FileSys, SequenceTheorems, Induction

B == DATABLOCK_SIZE

-----------------------------------------------------------------------------
(* Arithmetic of blocks                                                    *)

\* What the lemmas need to know of the constants
LEMMA SizeFacts ==
    /\ B \in Nat /\ B > 0 /\ B # 0
    /\ HeaderSize \in Nat /\ HeaderSize > 0
<1>1. DATABLOCK_SIZE \in Nat \ {0} /\ HeaderSize \in Nat \ {0}
  BY FileSysAssumption, Zenon
<1> QED
  BY <1>1 DEF B

\* A position is its block's first position plus its place in the block
LEMMA DivMod ==
    ASSUME NEW x \in Nat, NEW q, q = x \div B, NEW r, r = x % B
    PROVE  q \in Nat /\ r \in 0 .. B - 1 /\ x = q * B + r
BY SizeFacts

\* Quotient and remainder are determined by that
LEMMA DivModUnique ==
    ASSUME NEW x \in Nat, NEW q \in Nat, NEW r \in 0 .. B - 1, x = q * B + r
    PROVE  x \div B = q /\ x % B = r
<1>p. PICK p : p = x \div B
  OBVIOUS
<1>s. PICK s : s = x % B
  OBVIOUS
<1>1. p \in Nat /\ s \in 0 .. B - 1 /\ x = p * B + s /\ B \in Nat /\ B > 0
  BY <1>p, <1>s, DivMod, SizeFacts
<1>2. (p - q) * B = r - s
  BY <1>1
<1>3. ~ (p > q)
  <2> SUFFICES ASSUME p > q PROVE FALSE
    OBVIOUS
  <2>1. (p - q) * B >= B
    BY <1>1
  <2> QED
    BY <1>1, <1>2, <2>1
<1>4. ~ (p < q)
  <2> SUFFICES ASSUME p < q PROVE FALSE
    OBVIOUS
  <2>1. (q - p) * B >= B
    BY <1>1
  <2>2. (q - p) * B = s - r
    BY <1>1
  <2> QED
    BY <1>1, <2>1, <2>2
<1>5. p = q
  BY <1>1, <1>3, <1>4
<1> QED
  BY <1>p, <1>s, <1>1, <1>5

\* The position after x is in the same block or the first of the next one
LEMMA NextPosition ==
    ASSUME NEW x \in Nat
    PROVE  \/ /\ (x + 1) \div B = x \div B
              /\ (x + 1) % B = (x % B) + 1
           \/ /\ (x + 1) \div B = x \div B + 1
              /\ (x + 1) % B = 0
              /\ x % B = B - 1
              /\ x + 1 = (x \div B + 1) * B
<1>p. PICK p : p = x \div B
  OBVIOUS
<1>s. PICK s : s = x % B
  OBVIOUS
<1>1. p \in Nat /\ s \in 0 .. B - 1 /\ x = p * B + s /\ B \in Nat /\ B > 0
  BY <1>p, <1>s, DivMod, SizeFacts
<1>2. CASE s + 1 < B
  <2>1. x + 1 = p * B + (s + 1) /\ s + 1 \in 0 .. B - 1
    BY <1>1, <1>2
  <2> QED
    BY <1>p, <1>s, <1>1, <2>1, DivModUnique
<1>3. CASE s + 1 = B
  <2>1. x + 1 = (p + 1) * B + 0 /\ 0 \in 0 .. B - 1 /\ p + 1 \in Nat
    BY <1>1, <1>3
  <2>2. (x + 1) \div B = p + 1 /\ (x + 1) % B = 0
    BY <2>1, DivModUnique
  <2> QED
    BY <1>p, <1>s, <1>1, <1>3, <2>1, <2>2
<1> QED
  BY <1>1, <1>2, <1>3

-----------------------------------------------------------------------------
(* The loop of read_data                                                   *)

LoopStates == [page : Nat, offset : Nat, out : Seq(Nat), ret : Int]

LoopStart(offset) ==
    [page |-> offset \div B, offset |-> offset % B, out |-> <<>>, ret |-> None]

\* What a round that copies a byte does, field by field; m is the place of the byte it copies in
\* its block, e the place after it
Copied(s, i, b, m, e, t) ==
    /\ t.out = Append(s.out, s.page * B + m)
    /\ t.page = IF e = 0 THEN s.page + 1 ELSE s.page
    /\ t.offset = IF e = 0 THEN 0 ELSE s.offset
    /\ t.ret = IF e = 0 /\ s.page + 1 = b THEN i - 1 ELSE None

\* A round does nothing after the end, and copies a byte before it
LEMMA RoundFacts ==
    ASSUME NEW s \in LoopStates, NEW i \in Nat \ {0}, NEW b \in Nat,
           NEW t, t = read_round(s, i, b),
           NEW m, m = (i - 1 + s.offset) % B,
           NEW e, e = (i + s.offset) % B
    PROVE  /\ t \in LoopStates
           /\ s.ret # None => t = s
           /\ s.ret = None => Copied(s, i, b, m, e, t)
<1>1. /\ s.page \in Nat /\ s.offset \in Nat /\ s.out \in Seq(Nat) /\ s.ret \in Int
  BY DEF LoopStates
<1>2. m \in Nat
  <2>1. PICK y \in Nat : y = i - 1 + s.offset
    BY <1>1
  <2> QED
    BY <2>1, SizeFacts
<1>3. PICK byte : byte = s.page * B + m
  OBVIOUS
<1>4. byte \in Nat
  <2>1. \A p, q, r \in Nat : p * q + r \in Nat
    OBVIOUS
  <2>2. B \in Nat
    BY SizeFacts
  <2> QED
    BY <1>1, <1>2, <1>3, <2>1, <2>2, Zenon
<1>5. Append(s.out, byte) \in Seq(Nat)
  BY <1>1, <1>4
<1>6. CASE s.ret # None
  BY <1>6 DEF read_round
<1>7. CASE s.ret = None /\ e # 0
  <2>1. t = [s EXCEPT !.out = Append(s.out, byte)]
    BY <1>3, <1>7, Zenon DEF read_round, B
  <2>2. /\ t \in LoopStates
        /\ t.out = Append(s.out, byte)
        /\ t.page = s.page
        /\ t.offset = s.offset
        /\ t.ret = s.ret
    BY <1>5, <2>1 DEF LoopStates
  <2> QED
    BY <1>3, <1>7, <2>2 DEF Copied
<1>8. CASE s.ret = None /\ e = 0
  <2>1. PICK v : v = IF s.page + 1 = b THEN i - 1 ELSE None
    OBVIOUS
  <2>2. t = [page |-> s.page + 1, offset |-> 0, out |-> Append(s.out, byte), ret |-> v]
    BY <1>3, <1>8, <2>1, Zenon DEF read_round, B
  <2>3. v \in Int
    BY <2>1 DEF None
  <2>4. t \in LoopStates
    BY <1>1, <1>5, <2>2, <2>3 DEF LoopStates
  <2>5. t.page = s.page + 1 /\ t.offset = 0 /\ t.out = Append(s.out, byte) /\ t.ret = v
    BY <2>2
  <2> QED
    BY <1>3, <1>8, <2>1, <2>4, <2>5 DEF Copied
<1> QED
  BY <1>6, <1>7, <1>8

\* A round keeps the type of the state
LEMMA RoundType ==
    ASSUME NEW s \in LoopStates, NEW i \in Nat \ {0}, NEW b \in Nat
    PROVE  read_round(s, i, b) \in LoopStates
BY RoundFacts, Zenon

\* L lists the states of the loop
IsReadLoop(L, len, offset, length) ==
    /\ L \in [0 .. length -> LoopStates]
    /\ L[0] = LoopStart(offset)
    /\ \A i \in 1 .. length : L[i] = read_round(L[i - 1], i, num_blocks(len))

\* The recursion has a solution, so the loop is defined in every round
LEMMA LoopDefined ==
    ASSUME NEW len \in Nat, NEW offset \in Nat, NEW length \in Nat,
           NEW L, L = read_loop(len, offset, length)
    PROVE  IsReadLoop(L, len, offset, length)
<1>1. PICK z : z = LoopStart(offset)
  OBVIOUS
<1>2. PICK b : b = num_blocks(len)
  OBVIOUS
<1>3. z \in LoopStates
  <2>1. PICK q \in Nat : q = offset \div B
    BY SizeFacts
  <2>2. PICK r \in Nat : r = offset % B
    BY SizeFacts
  <2>3. z = [page |-> q, offset |-> r, out |-> <<>>, ret |-> None]
    BY <1>1, <2>1, <2>2 DEF LoopStart
  <2> QED
    BY <2>3 DEF LoopStates, None
<1>4. b \in Nat
  BY <1>2, SizeFacts DEF num_blocks, B
<1> DEFINE G == [x \in (1 .. length) \X LoopStates |-> read_round(x[2], x[1], b)]
           Body(f) == [i \in 0 .. length |-> IF i = 0 THEN z ELSE read_round(f[i - 1], i, b)]
           Is(f) == f = Body(f)
<1>5. G \in [(1 .. length) \X LoopStates -> LoopStates]
  <2>1. ASSUME NEW x \in (1 .. length) \X LoopStates
        PROVE  read_round(x[2], x[1], b) \in LoopStates
    <3>1. x[1] \in Nat \ {0} /\ x[2] \in LoopStates
      OBVIOUS
    <3> QED
      BY <1>4, <3>1, RoundType
  <2> QED
    BY <2>1
<1>6. PICK f : IsLoop(f, LoopStates, z, length, G)
  <2> HIDE DEF G
  <2> QED
    BY <1>3, <1>5, Recursion
<1>7. Is(f)
  <2>1. ASSUME NEW i \in 1 .. length PROVE f[i] = read_round(f[i - 1], i, b)
    <3>1. <<i, f[i - 1]>> \in (1 .. length) \X LoopStates
      BY <1>6 DEF IsLoop
    <3>2. G[<<i, f[i - 1]>>] = read_round(f[i - 1], i, b)
      BY <3>1
    <3> QED
      BY <1>6, <3>2 DEF IsLoop
  <2>2. \A i \in 0 .. length : f[i] = IF i = 0 THEN z ELSE read_round(f[i - 1], i, b)
    BY <1>6, <2>1 DEF IsLoop
  <2> HIDE DEF G
  <2> QED
    BY <1>6, <2>2 DEF IsLoop
<1> HIDE DEF G
<1>8. L = CHOOSE g : Is(g)
  BY <1>1, <1>2, Zenon DEF read_loop, LoopStart, B
<1>9. Is(L)
  <2> HIDE DEF Is
  <2> QED
    BY <1>7, <1>8, Zenon
<1>10. /\ L[0] = z
       /\ \A i \in 1 .. length : L[i] = read_round(L[i - 1], i, b)
       /\ L = [i \in 0 .. length |-> L[i]]
  <2>1. L = Body(L)
    BY <1>9
  <2>2. \A i \in 0 .. length : L[i] = IF i = 0 THEN z ELSE read_round(L[i - 1], i, b)
    BY <2>1
  <2> QED
    BY <2>1, <2>2
<1> DEFINE T == {i \in 0 .. length : L[i] \in LoopStates}
<1>11. \A i \in 0 .. length : i \in T
  <2>1. 0 \in T
    BY <1>3, <1>10
  <2>2. ASSUME NEW i \in 0 .. length - 1, i \in T PROVE i + 1 \in T
    <3>1. i + 1 \in 1 .. length /\ (i + 1) - 1 = i /\ i + 1 \in Nat \ {0}
      OBVIOUS
    <3>2. L[i + 1] = read_round(L[i], i + 1, b)
      BY <1>10, <3>1
    <3>3. L[i] \in LoopStates
      BY <2>2
    <3>4. read_round(L[i], i + 1, b) \in LoopStates
      BY <1>4, <3>1, <3>3, RoundType, Zenon
    <3> QED
      BY <3>1, <3>2, <3>4
  <2> HIDE DEF T
  <2> QED
    BY <2>1, <2>2, SetInduction
<1> QED
  BY <1>1, <1>2, <1>10, <1>11 DEF IsReadLoop

\* A multiple of the block size does not change the place in the block
LEMMA ModShift ==
    ASSUME NEW q \in Nat, NEW y \in Nat
    PROVE  (q * B + y) % B = y % B
<1>p. PICK p : p = y \div B
  OBVIOUS
<1>s. PICK s : s = y % B
  OBVIOUS
<1>1. p \in Nat /\ s \in 0 .. B - 1 /\ y = p * B + s /\ B \in Nat
  BY <1>p, <1>s, DivMod, SizeFacts
<1>2. PICK k \in Nat : k = q + p
  BY <1>1
<1>3. PICK x \in Nat : x = q * B + y
  BY <1>1
<1>4. x = k * B + s
  BY <1>1, <1>2, <1>3
<1>5. x % B = s
  BY <1>1, <1>4, DivModUnique
<1> QED
  BY <1>s, <1>3, <1>5

\* The blocks hold the whole file and at least one byte more, and no more than
\* a block more
LEMMA BlocksHoldFile ==
    ASSUME NEW len \in Nat, NEW b, b = num_blocks(len)
    PROVE  b \in Nat /\ b * B > len /\ b * B <= len + B
<1>p. PICK p : p = len \div B
  OBVIOUS
<1>s. PICK s : s = len % B
  OBVIOUS
<1>1. p \in Nat /\ s \in 0 .. B - 1 /\ len = p * B + s /\ B \in Nat
  <2>1. p \in Nat /\ s \in 0 .. B - 1 /\ len = p * B + s
    BY <1>p, <1>s, DivMod
  <2> QED
    BY <2>1, SizeFacts
<1>2. b = p + 1
  BY <1>p DEF num_blocks, B
<1> QED
  BY <1>1, <1>2

\* The n bytes from offset on
Bytes(offset, n) == [j \in 1 .. n |-> offset + j - 1]

\* The loop after i rounds of a read that does not start inside a block and go
\* on into the next one; total is what the blocks hold from offset on
PlainState(s, offset, length, total, i) ==
    /\ i < total =>
          /\ s.ret = None
          /\ s.out = Bytes(offset, i)
          /\ s.page = (offset + i) \div B
          /\ i < length => s.offset = offset % B
    /\ i >= total =>
          /\ s.ret = total - 1
          /\ s.out = Bytes(offset, total)

\* A round of such a read
LEMMA PlainRound ==
    ASSUME NEW s \in LoopStates, NEW b \in Nat, NEW offset \in Nat, NEW length \in Nat,
           NEW i \in 0 .. length - 1, NEW total \in Nat \ {0}, b * B = offset + total,
           \/ offset % B = 0
           \/ (offset % B) + length <= B,
           PlainState(s, offset, length, total, i)
    PROVE  PlainState(read_round(s, i + 1, b), offset, length, total, i + 1)
<1>b. B \in Nat /\ B > 0
  BY SizeFacts
<1>1. PICK t : t = read_round(s, i + 1, b)
  OBVIOUS
<1>2. CASE i >= total
  <2>1. s.ret = total - 1 /\ s.out = Bytes(offset, total)
    BY <1>2 DEF PlainState
  <2>2. s.ret # None
    BY <2>1 DEF None
  <2>3. t = s
    <3>1. i + 1 \in Nat \ {0}
      OBVIOUS
    <3> QED
      BY <1>1, <2>2, <3>1, Zenon DEF read_round
  <2> QED
    BY <1>1, <1>2, <2>1, <2>3 DEF PlainState
<1>3. CASE i < total
  <2>0. s.ret = None /\ s.out = Bytes(offset, i) /\ s.page = (offset + i) \div B
        /\ s.offset = offset % B
    BY <1>3 DEF PlainState
  <2>q. PICK q : q = offset \div B
    OBVIOUS
  <2>r. PICK r : r = offset % B
    OBVIOUS
  <2>1. q \in Nat /\ r \in 0 .. B - 1 /\ offset = q * B + r
    BY <2>q, <2>r, DivMod
  <2>2. PICK x \in Nat : x = offset + i
    OBVIOUS
  <2>3. PICK y \in Nat : y = i + r
    BY <2>1
  <2>4. x = q * B + y /\ x + 1 = q * B + (y + 1) /\ y + 1 \in Nat
    BY <1>b, <2>1, <2>2, <2>3
  <2>5. x % B = y % B /\ (x + 1) % B = (y + 1) % B
    BY <2>1, <2>4, ModShift
  <2>p. PICK p : p = x \div B
    OBVIOUS
  <2>m. PICK m : m = x % B
    OBVIOUS
  <2>6. p \in Nat /\ m \in 0 .. B - 1 /\ x = p * B + m
    BY <2>p, <2>m, DivMod
  <2>7. s.page = p /\ s.offset = r
    BY <2>0, <2>2, <2>p, <2>r
  <2>8. i + 1 - 1 + s.offset = y /\ i + 1 + s.offset = y + 1 /\ i + 1 \in Nat \ {0}
    BY <2>1, <2>3, <2>7
  <2>9. s.page * B + m = x
    BY <2>6, <2>7
  <2>10. PICK last \in BOOLEAN : last <=> (x + 1) % B = 0
    OBVIOUS
  <2>11. /\ t.out = Append(s.out, x)
         /\ t.page = IF last THEN p + 1 ELSE p
         /\ t.offset = IF last THEN 0 ELSE r
         /\ t.ret = IF last /\ p + 1 = b THEN i ELSE None
    <3>1. PICK k \in Nat \ {0} : k = i + 1
      BY <2>8
    <3>2. t = read_round(s, k, b) /\ m = (k - 1 + s.offset) % B
      BY <1>1, <2>5, <2>8, <2>m, <3>1
    <3>3. PICK e : e = (k + s.offset) % B
      OBVIOUS
    <3>4. e = 0 <=> last
      BY <2>5, <2>8, <2>10, <3>1, <3>3
    <3>5. Copied(s, k, b, m, e, t)
      BY <2>0, <3>2, <3>3, RoundFacts, Zenon
    <3>6. k - 1 = i
      BY <3>1
    <3> QED
      BY <2>7, <2>9, <3>4, <3>5, <3>6 DEF Copied
  <2>12. Append(s.out, x) = Bytes(offset, i + 1)
    BY <2>0, <2>2 DEF Bytes
  <2>13. /\ last => /\ (x + 1) \div B = p + 1
                    /\ x + 1 = (p + 1) * B
         /\ ~last => (x + 1) \div B = p
    <3> USE <2>6, <2>10, <2>p, <2>m
    <3>1. CASE (x + 1) \div B = x \div B /\ (x + 1) % B = (x % B) + 1
      <4>1. (x + 1) % B = m + 1 /\ m + 1 # 0
        BY <3>1
      <4> QED
        BY <3>1, <4>1
    <3>2. CASE /\ (x + 1) \div B = x \div B + 1 /\ (x + 1) % B = 0 /\ x % B = B - 1
               /\ x + 1 = (x \div B + 1) * B
      BY <3>2
    <3> QED
      BY <3>1, <3>2, NextPosition
  <2>14. (last /\ p + 1 = b) <=> (i + 1 = total)
    <3>1. ASSUME last, p + 1 = b PROVE i + 1 = total
      BY <2>2, <2>13, <3>1
    <3>2. ASSUME i + 1 = total PROVE last /\ p + 1 = b
      <4>1. x + 1 = b * B + 0 /\ 0 \in 0 .. B - 1 /\ x + 1 \in Nat
        BY <1>b, <2>2, <3>2
      <4>2. (x + 1) \div B = b /\ (x + 1) % B = 0
        BY <4>1, DivModUnique
      <4> QED
        BY <2>10, <2>13, <4>2
    <3> QED
      BY <3>1, <3>2
  <2>15. last /\ i + 1 < length => r = 0
    <3> SUFFICES ASSUME last, i + 1 < length, r # 0 PROVE FALSE
      OBVIOUS
    <3>1. y + 1 \in 0 .. B - 1 /\ y + 1 = 0 * B + (y + 1) /\ y + 1 \in Nat /\ y + 1 # 0
      BY <1>b, <2>1, <2>3, <2>r
    <3>2. (y + 1) % B = y + 1
      BY <3>1, DivModUnique
    <3> QED
      BY <2>5, <2>10, <3>1, <3>2
  <2>16. CASE i + 1 = total
    BY <1>1, <2>11, <2>12, <2>14, <2>16 DEF PlainState
  <2>17. CASE i + 1 # total
    <3>1. i + 1 < total /\ ~(i + 1 >= total)
      BY <1>3, <2>17
    <3>2. t.ret = None
      BY <2>11, <2>14, <2>17
    <3>3. t.page = (x + 1) \div B /\ x + 1 = offset + (i + 1)
      BY <2>2, <2>11, <2>13
    <3>4. i + 1 < length => t.offset = r
      BY <2>11, <2>15
    <3> QED
      BY <1>1, <2>11, <2>12, <2>r, <3>1, <3>2, <3>3, <3>4 DEF PlainState
  <2> QED
    BY <2>16, <2>17
<1> QED
  BY <1>2, <1>3

\* read_data returns an integer and bytes
LEMMA ReadDataType ==
    ASSUME NEW len \in Nat, NEW offset \in Nat, NEW length \in Nat,
           NEW r, r = read_data(len, offset, length)
    PROVE  r.ret \in Int /\ r.out \in Seq(Nat)
<1>1. PICK L : L = read_loop(len, offset, length)
  OBVIOUS
<1>2. L[length] \in LoopStates
  <2>1. IsReadLoop(L, len, offset, length)
    BY <1>1, LoopDefined
  <2> QED
    BY <2>1 DEF IsReadLoop
<1>3. L[length].ret \in Int /\ L[length].out \in Seq(Nat)
  BY <1>2 DEF LoopStates
<1>4. PICK v : v = IF L[length].ret = None THEN length ELSE L[length].ret
  OBVIOUS
<1>5. \/ r = [ret |-> -1, out |-> <<>>]
      \/ r = [ret |-> v, out |-> L[length].out]
  BY <1>1, <1>4, Zenon DEF read_data
<1>6. v \in Int
  BY <1>3, <1>4
<1>7. CASE r = [ret |-> -1, out |-> <<>>]
  BY <1>7
<1>8. CASE r = [ret |-> v, out |-> L[length].out]
  BY <1>3, <1>6, <1>8
<1> QED
  BY <1>5, <1>7, <1>8

\* The bytes from offset on, up to the end of the blocks; when a read gets there
\* it returns one byte less than it copied
PlainResult(r, offset, length, total) ==
    /\ length < total => r.ret = length /\ r.out = Bytes(offset, length)
    /\ length >= total => r.ret = total - 1 /\ r.out = Bytes(offset, total)

\* What a read that does not start inside a block and go on into the next one
\* copies and returns
LEMMA PlainRead ==
    ASSUME NEW len \in Nat, NEW offset \in Nat, NEW length \in Nat,
           NEW total \in Nat \ {0}, num_blocks(len) * B = offset + total,
           \/ offset % B = 0
           \/ (offset % B) + length <= B,
           NEW r, r = read_data(len, offset, length)
    PROVE  PlainResult(r, offset, length, total)
<1>b. B \in Nat /\ B > 0
  BY SizeFacts
<1>1. PICK L : L = read_loop(len, offset, length)
  OBVIOUS
<1>2. PICK b : b = num_blocks(len)
  OBVIOUS
<1>3. /\ L \in [0 .. length -> LoopStates] /\ L[0] = LoopStart(offset)
      /\ \A i \in 1 .. length : L[i] = read_round(L[i - 1], i, b)
  <2>1. IsReadLoop(L, len, offset, length)
    BY <1>1, LoopDefined
  <2> QED
    BY <1>2, <2>1, Zenon DEF IsReadLoop
<1>4. b \in Nat /\ b * B = offset + total
  BY <1>2, BlocksHoldFile
<1> DEFINE T == {i \in 0 .. length : PlainState(L[i], offset, length, total, i)}
<1>5. \A i \in 0 .. length : i \in T
  <2>1. 0 \in T
    <3>1. L[0].page = offset \div B /\ L[0].offset = offset % B /\ L[0].out = <<>>
          /\ L[0].ret = None
      BY <1>3 DEF LoopStart
    <3>2. Bytes(offset, 0) = <<>>
      BY DEF Bytes
    <3>3. offset + 0 = offset /\ 0 < total
      OBVIOUS
    <3>4. PlainState(L[0], offset, length, total, 0)
      BY <3>1, <3>2, <3>3 DEF PlainState
    <3> QED
      BY <3>4
  <2>2. ASSUME NEW i \in 0 .. length - 1, i \in T PROVE i + 1 \in T
    <3>1. PICK s : s = L[i]
      OBVIOUS
    <3>2. s \in LoopStates /\ PlainState(s, offset, length, total, i)
      BY <1>3, <2>2, <3>1
    <3>3. PlainState(read_round(s, i + 1, b), offset, length, total, i + 1)
      BY <1>4, <3>2, PlainRound
    <3>4. i + 1 \in 1 .. length /\ i + 1 - 1 = i
      OBVIOUS
    <3>5. L[i + 1] = read_round(s, i + 1, b)
      BY <1>3, <3>1, <3>4
    <3> QED
      BY <3>3, <3>4, <3>5
  <2> HIDE DEF T
  <2> QED
    BY <2>1, <2>2, SetInduction
<1>6. PICK s : s = L[length]
  OBVIOUS
<1>7. PlainState(s, offset, length, total, length)
  BY <1>5, <1>6
<1>8. ~(offset \div B >= b)
  <2>q. PICK q : q = offset \div B
    OBVIOUS
  <2>r. PICK m : m = offset % B
    OBVIOUS
  <2>1. q \in Nat /\ m \in 0 .. B - 1 /\ offset = q * B + m
    BY <2>q, <2>r, DivMod
  <2>2. q * B < b * B
    BY <1>b, <1>4, <2>1
  <2> QED
    BY <1>b, <1>4, <2>q, <2>1, <2>2
<1>9. PICK v : v = IF s.ret = None THEN length ELSE s.ret
  OBVIOUS
<1>10. r = [ret |-> v, out |-> s.out]
  BY <1>1, <1>2, <1>6, <1>8, <1>9, Zenon DEF read_data, B
<1> QED
  BY <1>7, <1>9, <1>10 DEF PlainState, PlainResult, None

-----------------------------------------------------------------------------
(* The command line                                                        *)

\* Every place of the memory holds a character
LEMMA CharType ==
    ASSUME NEW memory \in Seq(Chars), NEW i \in Nat \ {0}
    PROVE  Char(memory, i) \in Chars
<1>1. NUL \in Chars
  BY Zenon DEF Chars
<1>2. PICK n : n = NUL
  OBVIOUS
<1>3. n \in Chars
  BY <1>1, <1>2, Zenon
<1>4. \A j \in 1 .. Len(memory) : memory[j] \in Chars
  BY ElementOfSeq, Zenon
<1>5. Len(memory) \in Nat
  BY LenProperties
<1>6. Char(memory, i) = IF i <= Len(memory) THEN memory[i] ELSE n
  BY <1>2, Zenon DEF Char
<1>7. CASE i <= Len(memory)
  <2>1. i \in 1 .. Len(memory)
    BY <1>5, <1>7
  <2> QED
    BY <1>4, <1>6, <1>7, <2>1, Zenon
<1>8. CASE ~(i <= Len(memory))
  BY <1>3, <1>6, <1>8, Zenon
<1> QED
  BY <1>7, <1>8

\* j is the first place from i on where found holds
IsFirst(j, found) == j \in found /\ \A k \in found : j <= k

\* The first place of a set that has one
LEMMA FirstFound ==
    ASSUME NEW found \in SUBSET Nat, found # {},
           NEW j, j = CHOOSE k \in found : \A l \in found : k <= l
    PROVE  IsFirst(j, found)
<1>1. \E k \in found : \A l \in found : k <= l
  BY LeastNumber
<1> QED
  BY <1>1, Zenon DEF IsFirst

\* Every place behind the memory holds NUL
LEMMA CharBehind ==
    ASSUME NEW S, NEW memory \in Seq(S)
    PROVE  /\ Len(memory) \in Nat
           /\ Char(memory, Len(memory) + 1) = NUL
           /\ NUL # SPACE /\ NL # SPACE /\ NUL # NL
<1>1. Len(memory) \in Nat
  BY LenProperties
<1> QED
  BY <1>1 DEF Char, NUL, SPACE, NL

\* Every run of spaces ends, at the latest where the memory does
LEMMA WordFound ==
    ASSUME NEW S, NEW memory \in Seq(S), NEW i \in 1 .. Len(memory) + 1,
           NEW j, j = Find(memory, i, NotSpace)
    PROVE  /\ j \in i .. Len(memory) + 1 /\ Char(memory, j) # SPACE
           /\ \A k \in i .. j - 1 : Char(memory, k) = SPACE
<1> DEFINE found == {k \in i .. Len(memory) + 1 : NotSpace(Char(memory, k))}
<1>1. Len(memory) \in Nat
  BY CharBehind
<1>2. Len(memory) + 1 \in found
  BY <1>1, CharBehind DEF NotSpace
<1>3. j = CHOOSE k \in found : \A l \in found : k <= l
  BY Zenon DEF Find
<1>4. found \in SUBSET Nat
  BY <1>1
<1>5. IsFirst(j, found)
  <2> HIDE DEF found
  <2> QED
    BY <1>2, <1>3, <1>4, FirstFound
<1>6. /\ j \in i .. Len(memory) + 1 /\ NotSpace(Char(memory, j))
      /\ \A k \in i .. Len(memory) + 1 : NotSpace(Char(memory, k)) => j <= k
  BY <1>5, Zenon DEF IsFirst
<1>7. \A k \in i .. j - 1 : k \in i .. Len(memory) + 1 /\ ~(j <= k)
  BY <1>1, <1>6
<1>8. \A k \in i .. j - 1 : ~NotSpace(Char(memory, k))
  BY <1>6, <1>7, Zenon
<1> QED
  BY <1>6, <1>8, Zenon DEF NotSpace

\* Every line ends, at the latest where the memory does
LEMMA EndFound ==
    ASSUME NEW S, NEW memory \in Seq(S), NEW j, j = Find(memory, 1, IsEnd)
    PROVE  /\ j \in 1 .. Len(memory) + 1 /\ Char(memory, j) \in Ends
           /\ \A k \in 1 .. j - 1 : Char(memory, k) \notin Ends
<1> DEFINE found == {k \in 1 .. Len(memory) + 1 : IsEnd(Char(memory, k))}
<1>1. Len(memory) \in Nat
  BY CharBehind
<1>2. Len(memory) + 1 \in found
  BY <1>1, CharBehind DEF IsEnd, Ends
<1>3. j = CHOOSE k \in found : \A l \in found : k <= l
  BY Zenon DEF Find
<1>4. found \in SUBSET Nat
  BY <1>1
<1>5. IsFirst(j, found)
  <2> HIDE DEF found
  <2> QED
    BY <1>2, <1>3, <1>4, FirstFound
<1>6. /\ j \in 1 .. Len(memory) + 1 /\ IsEnd(Char(memory, j))
      /\ \A k \in 1 .. Len(memory) + 1 : IsEnd(Char(memory, k)) => j <= k
  BY <1>5, Zenon DEF IsFirst
<1>7. \A k \in 1 .. j - 1 : k \in 1 .. Len(memory) + 1 /\ ~(j <= k)
  BY <1>1, <1>6
<1>8. \A k \in 1 .. j - 1 : ~IsEnd(Char(memory, k))
  BY <1>6, <1>7, Zenon
<1> QED
  BY <1>6, <1>8, Zenon DEF IsEnd

\* Every word ends, at the latest where the text does
LEMMA WordEndFound ==
    ASSUME NEW S, NEW text \in Seq(S), NEW j, j = Find(text, 1, SpaceOrEnd)
    PROVE  /\ j \in 1 .. Len(text) + 1 /\ Char(text, j) \in Ends \cup {SPACE}
           /\ \A k \in 1 .. j - 1 : Char(text, k) \notin Ends \cup {SPACE}
<1> DEFINE found == {k \in 1 .. Len(text) + 1 : SpaceOrEnd(Char(text, k))}
<1>1. Len(text) \in Nat
  BY CharBehind
<1>2. Len(text) + 1 \in found
  BY <1>1, CharBehind DEF SpaceOrEnd, Ends
<1>3. j = CHOOSE k \in found : \A l \in found : k <= l
  BY Zenon DEF Find
<1>4. found \in SUBSET Nat
  BY <1>1
<1>5. IsFirst(j, found)
  <2> HIDE DEF found
  <2> QED
    BY <1>2, <1>3, <1>4, FirstFound
<1>6. /\ j \in 1 .. Len(text) + 1 /\ SpaceOrEnd(Char(text, j))
      /\ \A k \in 1 .. Len(text) + 1 : SpaceOrEnd(Char(text, k)) => j <= k
  BY <1>5, Zenon DEF IsFirst
<1>7. \A k \in 1 .. j - 1 : k \in 1 .. Len(text) + 1 /\ ~(j <= k)
  BY <1>1, <1>6
<1>8. \A k \in 1 .. j - 1 : ~SpaceOrEnd(Char(text, k))
  BY <1>6, <1>7, Zenon
<1> QED
  BY <1>6, <1>8, Zenon DEF SpaceOrEnd

\* The first NUL
LEMMA NulFound ==
    ASSUME NEW S, NEW args \in Seq(S), NEW j, j = Find(args, 1, IsNul)
    PROVE  /\ j \in 1 .. Len(args) + 1 /\ Char(args, j) = NUL
           /\ \A k \in 1 .. j - 1 : Char(args, k) # NUL
<1> DEFINE found == {k \in 1 .. Len(args) + 1 : IsNul(Char(args, k))}
<1>1. Len(args) \in Nat
  BY CharBehind
<1>2. Len(args) + 1 \in found
  BY <1>1, CharBehind DEF IsNul
<1>3. j = CHOOSE k \in found : \A l \in found : k <= l
  BY Zenon DEF Find
<1>4. found \in SUBSET Nat
  BY <1>1
<1>5. IsFirst(j, found)
  <2> HIDE DEF found
  <2> QED
    BY <1>2, <1>3, <1>4, FirstFound
<1>6. /\ j \in 1 .. Len(args) + 1 /\ IsNul(Char(args, j))
      /\ \A k \in 1 .. Len(args) + 1 : IsNul(Char(args, k)) => j <= k
  BY <1>5, Zenon DEF IsFirst
<1>7. \A k \in 1 .. j - 1 : k \in 1 .. Len(args) + 1 /\ ~(j <= k)
  BY <1>1, <1>6
<1>8. \A k \in 1 .. j - 1 : ~IsNul(Char(args, k))
  BY <1>6, <1>7, Zenon
<1> QED
  BY <1>6, <1>8, Zenon DEF IsNul

\* The states of the loop of do_execute
ParseStates(memory) ==
    [i : 1 .. Len(memory) + 2, programName : Seq(Chars), argsBuffer : Seq(Chars),
     gotProgramName : BOOLEAN]

\* An iteration keeps the type of the state: it never looks behind the end
LEMMA ParseRoundType ==
    ASSUME NEW memory \in Seq(Chars), NEW s \in ParseStates(memory)
    PROVE  parse_round(memory, s) \in ParseStates(memory)
<1>0. Len(memory) \in Nat
  BY LenProperties
<1>1. /\ s.i \in 1 .. Len(memory) + 2 /\ s.programName \in Seq(Chars)
      /\ s.argsBuffer \in Seq(Chars) /\ s.gotProgramName \in BOOLEAN
  BY DEF ParseStates
<1>2. CASE Char(memory, s.i) \in Ends
  BY <1>2, Zenon DEF parse_round
<1>3. CASE Char(memory, s.i) \notin Ends
  <2>1. s.i \in 1 .. Len(memory) + 1
    <3>1. s.i <= Len(memory)
      BY <1>0, <1>1, <1>3 DEF Char, Ends
    <3> QED
      BY <1>0, <1>1, <3>1
  <2>2. PICK i : i = Find(memory, s.i, NotSpace)
    OBVIOUS
  <2>3. i \in s.i .. Len(memory) + 1
    BY <2>1, <2>2, WordFound, Zenon
  <2>4. i \in Nat \ {0} /\ i + 1 \in 1 .. Len(memory) + 2
    BY <1>0, <1>1, <2>3
  <2>5. PICK c : c = Char(memory, i)
    OBVIOUS
  <2>6. c \in Chars
    BY <2>4, <2>5, CharType
  <2>7. PICK g \in BOOLEAN : g = (s.gotProgramName \/ i # s.i)
    BY <1>1
  <2>8. PICK space : space = IF i # s.i /\ s.gotProgramName THEN <<SPACE>> ELSE <<>>
    OBVIOUS
  <2>9. PICK name : name = IF g THEN s.programName ELSE s.programName \o <<c>>
    OBVIOUS
  <2>10. PICK args : args = IF g THEN s.argsBuffer \o space \o <<c>> ELSE s.argsBuffer
    OBVIOUS
  <2>11. space \in Seq(Chars) /\ <<c>> \in Seq(Chars)
    <3>1. SPACE \in Chars
      BY Zenon DEF Chars
    <3>2. \A S : \A e \in S : <<e>> \in Seq(S)
      OBVIOUS
    <3>3. <<>> \in Seq(Chars)
      BY EmptySeq, Zenon
    <3> QED
      BY <2>6, <2>8, <3>1, <3>2, <3>3, Zenon
  <2>12. name \in Seq(Chars)
    <3>1. s.programName \o <<c>> \in Seq(Chars)
      BY <1>1, <2>11, ConcatProperties
    <3> QED
      BY <1>1, <2>9, <3>1
  <2>13. args \in Seq(Chars)
    <3>1. s.argsBuffer \o space \in Seq(Chars)
      BY <1>1, <2>11, ConcatProperties
    <3>2. s.argsBuffer \o space \o <<c>> \in Seq(Chars)
      BY <2>11, <3>1, ConcatProperties
    <3> QED
      BY <1>1, <2>10, <3>2
  <2>14. parse_round(memory, s)
           = [i |-> i + 1, gotProgramName |-> g, programName |-> name, argsBuffer |-> args]
    BY <1>3, <2>2, <2>5, <2>7, <2>8, <2>9, <2>10, Zenon DEF parse_round
  <2> QED
    BY <2>4, <2>12, <2>13, <2>14 DEF ParseStates
<1> QED
  BY <1>2, <1>3

ParseStart == [i |-> 1, programName |-> <<>>, argsBuffer |-> <<>>, gotProgramName |-> FALSE]

\* L lists the states of the loop
IsParseLoop(L, memory) ==
    /\ L[0] = ParseStart
    /\ \A n \in 1 .. Len(memory) + 1 : L[n] = parse_round(memory, L[n - 1])
    /\ \A n \in 0 .. Len(memory) + 1 : L[n] \in ParseStates(memory)

\* The recursion has a solution, so the loop is defined in every iteration
LEMMA ParseLoopDefined ==
    ASSUME NEW memory \in Seq(Chars), NEW L, L = parse_loop(memory)
    PROVE  IsParseLoop(L, memory)
<1>1. PICK n \in Nat : n = Len(memory) + 1
  BY LenProperties
<1>2. PICK z : z = ParseStart
  OBVIOUS
<1>3. PICK S : S = ParseStates(memory)
  OBVIOUS
<1>4. z \in S
  <2>1. 1 \in 1 .. Len(memory) + 2
    BY LenProperties
  <2> QED
    BY <1>2, <1>3, <2>1 DEF ParseStates, ParseStart
<1> DEFINE G == [x \in (1 .. n) \X S |-> parse_round(memory, x[2])]
           Body(f) == [i \in 0 .. n |-> IF i = 0 THEN z ELSE parse_round(memory, f[i - 1])]
           Is(f) == f = Body(f)
<1>5. G \in [(1 .. n) \X S -> S]
  <2>1. ASSUME NEW x \in (1 .. n) \X S PROVE parse_round(memory, x[2]) \in S
    BY <1>3, ParseRoundType
  <2> QED
    BY <2>1
<1>6. PICK f : IsLoop(f, S, z, n, G)
  <2> HIDE DEF G
  <2> QED
    BY <1>4, <1>5, Recursion
<1>7. Is(f)
  <2>1. ASSUME NEW i \in 1 .. n PROVE f[i] = parse_round(memory, f[i - 1])
    <3>1. <<i, f[i - 1]>> \in (1 .. n) \X S
      BY <1>6 DEF IsLoop
    <3>2. G[<<i, f[i - 1]>>] = parse_round(memory, f[i - 1])
      BY <3>1
    <3> QED
      BY <1>6, <3>2 DEF IsLoop
  <2>2. \A i \in 0 .. n : f[i] = IF i = 0 THEN z ELSE parse_round(memory, f[i - 1])
    BY <1>6, <2>1 DEF IsLoop
  <2> HIDE DEF G
  <2> QED
    BY <1>6, <2>2 DEF IsLoop
<1> HIDE DEF G
<1>8. L = CHOOSE g : Is(g)
  BY <1>1, <1>2, Zenon DEF parse_loop, ParseStart
<1>9. Is(L)
  <2> HIDE DEF Is
  <2> QED
    BY <1>7, <1>8, Zenon
<1>10. L[0] = z /\ \A i \in 1 .. n : L[i] = parse_round(memory, L[i - 1])
  <2>1. L = Body(L)
    BY <1>9
  <2>2. \A i \in 0 .. n : L[i] = IF i = 0 THEN z ELSE parse_round(memory, L[i - 1])
    BY <2>1
  <2> QED
    BY <2>2
<1> DEFINE T == {i \in 0 .. n : L[i] \in S}
<1>11. \A i \in 0 .. n : i \in T
  <2>1. 0 \in T
    BY <1>4, <1>10
  <2>2. ASSUME NEW i \in 0 .. n - 1, i \in T PROVE i + 1 \in T
    <3>1. i + 1 \in 1 .. n /\ (i + 1) - 1 = i
      OBVIOUS
    <3>2. L[i + 1] = parse_round(memory, L[i])
      BY <1>10, <3>1
    <3>3. L[i + 1] \in S
      BY <1>3, <2>2, <3>2, ParseRoundType
    <3> QED
      BY <3>1, <3>3
  <2> HIDE DEF T
  <2> QED
    BY <2>1, <2>2, SetInduction
<1> QED
  BY <1>1, <1>2, <1>3, <1>10, <1>11 DEF IsParseLoop

\* do_execute cuts a command into two texts
LEMMA ParseType ==
    ASSUME NEW memory \in Seq(Chars), NEW line, line = do_execute_parse(memory)
    PROVE  line.programName \in Seq(Chars) /\ line.argsBuffer \in Seq(Chars)
<1>1. PICK n \in Nat : n = Len(memory) + 1
  BY LenProperties
<1>2. PICK L : L = parse_loop(memory)
  OBVIOUS
<1>3. IsParseLoop(L, memory)
  BY <1>2, ParseLoopDefined, Zenon
<1>4. L[n].programName \in Seq(Chars) /\ L[n].argsBuffer \in Seq(Chars)
  <2>1. L[n] \in ParseStates(memory)
    BY <1>1, <1>3 DEF IsParseLoop
  <2> QED
    BY <2>1 DEF ParseStates
<1>5. line = [programName |-> L[n].programName, argsBuffer |-> Append(L[n].argsBuffer, NUL)]
  BY <1>1, <1>2, Zenon DEF do_execute_parse
<1>6. NUL \in Chars
  BY Zenon DEF Chars
<1>7. \A A : \A e \in A, q \in Seq(A) : Append(q, e) \in Seq(A)
  OBVIOUS
<1>8. Append(L[n].argsBuffer, NUL) \in Seq(Chars)
  BY <1>4, <1>6, <1>7, Zenon
<1> QED
  BY <1>4, <1>5, <1>8

-----------------------------------------------------------------------------
(***************************************************************************)
(* What a command line means.  The loop of do_execute copies a beginning   *)
(* of the name and then of the arguments (Clean), until it stops at the    *)
(* end of the line or has copied the NUL there (Passed); what it copies    *)
(* behind that NUL do_getargs never hands out.                             *)
(***************************************************************************)

\* Q lists the texts without gaps
IsSqueezed(Q, text, gap, S) ==
    /\ \A i \in 0 .. Len(text) : Q[i] \in Seq(S)
    /\ \A i \in 0 .. Len(text) : i <= gap => Q[i] = <<>>
    /\ \A i \in 1 .. Len(text) : i > gap =>
          Q[i] = IF text[i] = SPACE /\ text[i - 1] = SPACE THEN Q[i - 1]
                 ELSE Append(Q[i - 1], text[i])

\* The recursion has a solution
LEMMA SqueezedDefined ==
    ASSUME NEW S, NEW text \in Seq(S), NEW gap \in Nat \ {0}, NEW Q, Q = Squeezed(text, gap)
    PROVE  IsSqueezed(Q, text, gap, S)
<1>1. PICK n \in Nat : n = Len(text)
  BY LenProperties
<1>2. <<>> \in Seq(S)
  BY EmptySeq, Zenon
<1> DEFINE Step(i, q) == IF i <= gap THEN <<>>
                         ELSE IF text[i] = SPACE /\ text[i - 1] = SPACE THEN q
                         ELSE Append(q, text[i])
           G == [x \in (1 .. n) \X Seq(S) |-> Step(x[1], x[2])]
           Body(f) == [i \in 0 .. n |->
                         IF i <= gap THEN <<>>
                         ELSE IF text[i] = SPACE /\ text[i - 1] = SPACE THEN f[i - 1]
                         ELSE Append(f[i - 1], text[i])]
           Is(f) == f = Body(f)
<1>3. ASSUME NEW i \in 1 .. n, NEW q \in Seq(S) PROVE Step(i, q) \in Seq(S)
  <2>1. text[i] \in S
    BY <1>1, ElementOfSeq, Zenon
  <2>2. \A A : \A e \in A, w \in Seq(A) : Append(w, e) \in Seq(A)
    OBVIOUS
  <2>3. Append(q, text[i]) \in Seq(S)
    BY <2>1, <2>2, Zenon
  <2> QED
    BY <1>2, <2>3, Zenon
<1>4. G \in [(1 .. n) \X Seq(S) -> Seq(S)]
  <2> HIDE DEF Step
  <2>1. ASSUME NEW x \in (1 .. n) \X Seq(S) PROVE Step(x[1], x[2]) \in Seq(S)
    <3>1. x[1] \in 1 .. n /\ x[2] \in Seq(S)
      OBVIOUS
    <3> QED
      BY <1>3, <3>1, Zenon
  <2> QED
    BY <2>1
<1>5. PICK f : IsLoop(f, Seq(S), <<>>, n, G)
  <2> HIDE DEF G
  <2> QED
    BY <1>2, <1>4, Recursion
<1>6. Is(f)
  <2>1. ASSUME NEW i \in 1 .. n PROVE f[i] = Step(i, f[i - 1])
    <3>1. f[i] = G[<<i, f[i - 1]>>] /\ <<i, f[i - 1]>> \in (1 .. n) \X Seq(S)
      <4> HIDE DEF G
      <4> QED
        BY <1>5 DEF IsLoop
    <3>2. G[<<i, f[i - 1]>>] = Step(i, f[i - 1])
      <4> HIDE DEF Step
      <4> QED
        BY <3>1
    <3> QED
      BY <3>1, <3>2, Zenon
  <2>2. ASSUME NEW i \in 0 .. n PROVE f[i] = Body(f)[i]
    <3>1. CASE i = 0
      <4>1. i <= gap
        BY <3>1
      <4>2. f[i] = <<>>
        <5> HIDE DEF G
        <5> QED
          BY <1>5, <3>1 DEF IsLoop
      <4> QED
        BY <4>1, <4>2
    <3>2. CASE i # 0
      <4>1. i \in 1 .. n
        BY <3>2
      <4>2. f[i] = Step(i, f[i - 1])
        BY <2>1, <4>1
      <4> QED
        BY <4>2
    <3> QED
      BY <3>1, <3>2
  <2>3. f \in [0 .. n -> Seq(S)]
    <3> HIDE DEF G
    <3> QED
      BY <1>5 DEF IsLoop
  <2>4. f = [i \in 0 .. n |-> f[i]] /\ Body(f) = [i \in 0 .. n |-> Body(f)[i]]
    BY <2>3
  <2> HIDE DEF Body
  <2> QED
    BY <2>2, <2>4
<1>7. Q = CHOOSE g : Is(g)
  BY <1>1, Zenon DEF Squeezed
<1>8. Is(Q)
  <2> HIDE DEF Is
  <2> QED
    BY <1>6, <1>7, Zenon
<1>9. \A i \in 0 .. n : Q[i] = IF i <= gap THEN <<>>
                               ELSE IF text[i] = SPACE /\ text[i - 1] = SPACE THEN Q[i - 1]
                               ELSE Append(Q[i - 1], text[i])
  <2>1. Q = Body(Q)
    BY <1>8, Zenon
  <2> QED
    BY <2>1, Zenon
<1>10. \A i \in 0 .. n : i <= gap => Q[i] = <<>>
  BY <1>9, Zenon
<1>11. \A i \in 1 .. n : i > gap =>
          Q[i] = IF text[i] = SPACE /\ text[i - 1] = SPACE THEN Q[i - 1]
                 ELSE Append(Q[i - 1], text[i])
  <2>1. \A i \in 1 .. n : i \in 0 .. n /\ (i > gap => ~(i <= gap))
    OBVIOUS
  <2> QED
    BY <1>9, <2>1, Zenon
<1> DEFINE T == {i \in 0 .. n : Q[i] \in Seq(S)}
<1>12. \A i \in 0 .. n : i \in T
  <2>1. 0 \in T
    <3>1. 0 \in 0 .. n /\ 0 <= gap
      OBVIOUS
    <3> QED
      BY <1>2, <1>10, <3>1, Zenon
  <2>2. ASSUME NEW i \in 0 .. n - 1, i \in T PROVE i + 1 \in T
    <3>1. PICK j : j = i + 1
      OBVIOUS
    <3>2. j \in 1 .. n /\ j - 1 = i /\ j \in 0 .. n
      BY <3>1
    <3>3. Q[i] \in Seq(S)
      BY <2>2, Zenon
    <3>4. Q[j] = Step(j, Q[i])
      BY <1>9, <3>2, Zenon
    <3>5. Q[j] \in Seq(S)
      <4> HIDE DEF Step
      <4> QED
        BY <1>3, <3>2, <3>3, <3>4, Zenon
    <3> QED
      BY <3>1, <3>2, <3>5, Zenon
  <2> HIDE DEF T
  <2> QED
    BY <2>1, <2>2, SetInduction
<1> QED
  BY <1>1, <1>10, <1>11, <1>12, Zenon DEF IsSqueezed

\* The first n elements of s
FirstElements(t, s, n, S) == t \in Seq(S) /\ Len(t) = n /\ \A k \in 1 .. n : t[k] = s[k]

\* SubSeq gives the first n elements
LEMMA PrefixFacts ==
    ASSUME NEW S, NEW s, NEW n \in Nat, \A k \in 1 .. n : s[k] \in S
    PROVE  FirstElements(SubSeq(s, 1, n), s, n, S)
<1>1. /\ SubSeq(s, 1, n) \in Seq(S)
      /\ Len(SubSeq(s, 1, n)) = IF 1 <= n THEN n - 1 + 1 ELSE 0
      /\ \A i \in 1 .. n - 1 + 1 : SubSeq(s, 1, n)[i] = s[1 + i - 1]
  BY SubSeqProperties
<1>2. n - 1 + 1 = n /\ (IF 1 <= n THEN n - 1 + 1 ELSE 0) = n
  OBVIOUS
<1>3. \A i \in 1 .. n : 1 + i - 1 = i
  OBVIOUS
<1> QED
  BY <1>1, <1>2, <1>3, Zenon DEF FirstElements

\* The parts of a command: it ends at e, its first word at g, and Q lists the
\* arguments of its beginnings
Shape(memory, e, g, Q) ==
    /\ e \in 1 .. Len(memory) + 1 /\ Char(memory, e) \in Ends
    /\ \A k \in 1 .. e - 1 : Char(memory, k) \notin Ends
    /\ g \in 1 .. e
    /\ \A k \in 1 .. g - 1 : Char(memory, k) # SPACE
    /\ g < e => Char(memory, g) = SPACE
    /\ \A i \in 0 .. e - 1 : Q[i] \in Seq(Chars \ Ends)
    /\ \A i \in 0 .. e - 1 : i <= g => Q[i] = <<>>
    /\ \A i \in 1 .. e - 1 : i > g =>
          Q[i] = IF Char(memory, i) = SPACE /\ Char(memory, i - 1) = SPACE THEN Q[i - 1]
                 ELSE Append(Q[i - 1], Char(memory, i))

\* What the reference makes of them
Meaning(memory, e, g, Q) ==
    /\ ProgramOf(memory) = SubSeq(memory, 1, g - 1)
    /\ ArgumentsOf(memory) = Q[e - 1]
    /\ Plain(memory) /\ Char(memory, e) = NL => e = 1 \/ Char(memory, e - 1) # SPACE

\* Every command has these parts
LEMMA CommandShape ==
    ASSUME NEW memory \in Seq(Chars)
    PROVE  \E e, g, Q : Shape(memory, e, g, Q) /\ Meaning(memory, e, g, Q)
<1>n. PICK n \in Nat : n = Len(memory)
  BY LenProperties
<1>1. PICK e : e = Find(memory, 1, IsEnd)
  OBVIOUS
<1>2. /\ e \in 1 .. n + 1 /\ Char(memory, e) \in Ends
      /\ \A k \in 1 .. e - 1 : Char(memory, k) \notin Ends
  BY <1>n, <1>1, EndFound, Zenon
<1>3. PICK text : text = SubSeq(memory, 1, e - 1)
  OBVIOUS
<1>4. TextOf(memory) = text
  BY <1>1, <1>3, Zenon DEF TextOf
<1>5. \A k \in 1 .. e - 1 : memory[k] = Char(memory, k) /\ memory[k] \in Chars \ Ends
  <2> SUFFICES ASSUME NEW k \in 1 .. e - 1
               PROVE  memory[k] = Char(memory, k) /\ memory[k] \in Chars \ Ends
    OBVIOUS
  <2>1. k \in 1 .. n /\ k <= n
    BY <1>2
  <2>2. memory[k] = Char(memory, k)
    BY <1>n, <2>1, Zenon DEF Char
  <2>3. memory[k] \in Chars
    BY <1>n, <2>1, ElementOfSeq, Zenon
  <2> QED
    BY <1>2, <2>2, <2>3, Zenon
<1>6. /\ text \in Seq(Chars \ Ends) /\ Len(text) = e - 1
      /\ \A k \in 1 .. e - 1 : text[k] = Char(memory, k)
  <2>1. e - 1 \in Nat
    BY <1>2
  <2>2. FirstElements(text, memory, e - 1, Chars \ Ends)
    BY <1>3, <1>5, <2>1, PrefixFacts, Zenon
  <2> QED
    BY <1>5, <2>2, Zenon DEF FirstElements
<1>7. \A k \in 1 .. e - 1 : Char(text, k) = Char(memory, k)
  <2> SUFFICES ASSUME NEW k \in 1 .. e - 1 PROVE Char(text, k) = Char(memory, k)
    OBVIOUS
  <2>1. k <= Len(text)
    BY <1>2, <1>6
  <2> QED
    BY <1>6, <2>1, Zenon DEF Char
<1>8. PICK g : g = Find(text, 1, SpaceOrEnd)
  OBVIOUS
<1>9. /\ g \in 1 .. e /\ Char(text, g) \in Ends \cup {SPACE}
      /\ \A k \in 1 .. g - 1 : Char(text, k) \notin Ends \cup {SPACE}
  <2>1. /\ g \in 1 .. Len(text) + 1 /\ Char(text, g) \in Ends \cup {SPACE}
        /\ \A k \in 1 .. g - 1 : Char(text, k) \notin Ends \cup {SPACE}
    BY <1>6, <1>8, WordEndFound, Zenon
  <2>2. Len(text) + 1 = e
    BY <1>2, <1>6
  <2> QED
    BY <2>1, <2>2, Zenon
<1>10. \A k \in 1 .. g - 1 : Char(memory, k) # SPACE
  <2>1. \A k \in 1 .. g - 1 : k \in 1 .. e - 1
    BY <1>2, <1>9
  <2> QED
    BY <1>7, <1>9, <2>1, Zenon
<1>11. g < e => Char(memory, g) = SPACE
  <2> SUFFICES ASSUME g < e PROVE Char(memory, g) = SPACE
    OBVIOUS
  <2>1. g \in 1 .. e - 1
    BY <1>2, <1>9
  <2> QED
    BY <1>2, <1>7, <1>9, <2>1, Zenon
<1>12. ProgramOf(memory) = SubSeq(text, 1, g - 1)
  BY <1>4, <1>8, Zenon DEF ProgramOf
<1>13. \A k \in 1 .. g - 1 : k \in 1 .. e - 1
  BY <1>2, <1>9
<1>14. g - 1 \in Nat /\ \A k \in 1 .. g - 1 : text[k] \in Chars /\ memory[k] \in Chars
  <2>1. g - 1 \in Nat
    BY <1>9, <1>2
  <2> QED
    BY <1>5, <1>6, <1>13, <2>1, Zenon
<1>15. FirstElements(SubSeq(text, 1, g - 1), text, g - 1, Chars)
  BY <1>14, PrefixFacts, Zenon
<1>16. FirstElements(SubSeq(memory, 1, g - 1), memory, g - 1, Chars)
  BY <1>14, PrefixFacts, Zenon
<1>17. SubSeq(text, 1, g - 1) = SubSeq(memory, 1, g - 1)
  <2>1. \A k \in 1 .. Len(SubSeq(text, 1, g - 1)) :
           SubSeq(text, 1, g - 1)[k] = SubSeq(memory, 1, g - 1)[k]
    BY <1>5, <1>6, <1>13, <1>15, <1>16, Zenon DEF FirstElements
  <2> QED
    BY <1>15, <1>16, <2>1, SeqEqual, Zenon DEF FirstElements
<1>18. Len(ProgramOf(memory)) + 1 = g
  BY <1>2, <1>9, <1>12, <1>15 DEF FirstElements
<1>19. PICK Q : Q = Squeezed(text, g)
  OBVIOUS
<1>20. ArgumentsOf(memory) = Q[e - 1]
  BY <1>4, <1>6, <1>18, <1>19, Zenon DEF ArgumentsOf
<1>21. IsSqueezed(Q, text, g, Chars \ Ends)
  <2>1. g \in Nat \ {0}
    BY <1>2, <1>9
  <2> QED
    BY <1>6, <1>19, <2>1, SqueezedDefined, Zenon
<1>22. /\ \A i \in 0 .. e - 1 : Q[i] \in Seq(Chars \ Ends)
       /\ \A i \in 0 .. e - 1 : i <= g => Q[i] = <<>>
  BY <1>6, <1>21, Zenon DEF IsSqueezed
<1>23. \A i \in 1 .. e - 1 : i > g =>
          Q[i] = IF Char(memory, i) = SPACE /\ Char(memory, i - 1) = SPACE THEN Q[i - 1]
                 ELSE Append(Q[i - 1], Char(memory, i))
  <2>1. \A i \in 1 .. e - 1 : i > g =>
          Q[i] = IF text[i] = SPACE /\ text[i - 1] = SPACE THEN Q[i - 1]
                 ELSE Append(Q[i - 1], text[i])
    BY <1>6, <1>21, Zenon DEF IsSqueezed
  <2>2. \A i \in 1 .. e - 1 : i > g => i - 1 \in 1 .. e - 1
    BY <1>2, <1>9
  <2> QED
    BY <1>6, <2>1, <2>2, Zenon
<1>24. Plain(memory) /\ Char(memory, e) = NL => e = 1 \/ Char(memory, e - 1) # SPACE
  <2> SUFFICES ASSUME Plain(memory), Char(memory, e) = NL, e # 1
               PROVE  Char(memory, e - 1) # SPACE
    OBVIOUS
  <2>1. Len(text) + 1 = e /\ e - 1 \in 1 .. e - 1 /\ Len(text) # 0
    BY <1>2, <1>6
  <2>2. text # <<>>
    BY <2>1
  <2>3. text[Len(text)] # SPACE
    BY <1>4, <2>1, <2>2, Zenon DEF Plain
  <2> QED
    BY <1>6, <2>1, <2>3, Zenon
<1>25. Shape(memory, e, g, Q)
  BY <1>n, <1>2, <1>9, <1>10, <1>11, <1>22, <1>23, Zenon DEF Shape
<1>26. Meaning(memory, e, g, Q)
  BY <1>12, <1>17, <1>20, <1>24, Zenon DEF Meaning
<1> QED
  BY <1>25, <1>26, Zenon

\* args holds the text A and then NUL
Begins(args, A) ==
    /\ Len(args) > Len(A)
    /\ \A k \in 1 .. Len(A) : args[k] = A[k]
    /\ args[Len(A) + 1] = NUL

\* do_getargs with room to spare hands out the text before the first NUL
LEMMA GetargsFacts ==
    ASSUME NEW args \in Seq(Chars), NEW A \in Seq(Chars \ Ends), Begins(args, A),
           NEW nbytes \in Nat, nbytes > Len(A) + 1
    PROVE  do_getargs(args, nbytes) = [ret |-> 0, buf |-> Append(A, NUL)]
<1>1. PICK n \in Nat : n = Len(A)
  BY LenProperties
<1>2. PICK l \in Nat : l = Len(args)
  BY LenProperties
<1>3. l > n /\ (\A k \in 1 .. n : args[k] = A[k]) /\ args[n + 1] = NUL
  BY <1>1, <1>2, Zenon DEF Begins
<1>4. \A k \in 1 .. n : A[k] # NUL
  <2>1. \A k \in 1 .. n : A[k] \in Chars \ Ends
    BY <1>1, ElementOfSeq, Zenon
  <2> QED
    BY <2>1, Zenon DEF Ends
<1>5. \A k \in 1 .. n + 1 : Char(args, k) = args[k]
  <2>1. \A k \in 1 .. n + 1 : k <= l
    BY <1>3
  <2> QED
    BY <1>2, <2>1, Zenon DEF Char
<1>6. PICK j : j = Find(args, 1, IsNul)
  OBVIOUS
<1>7. /\ j \in 1 .. l + 1 /\ Char(args, j) = NUL
      /\ \A k \in 1 .. j - 1 : Char(args, k) # NUL
  BY <1>2, <1>6, NulFound, Zenon
<1>8. j = n + 1
  <2>1. ~(j < n + 1)
    <3> SUFFICES ASSUME j < n + 1 PROVE FALSE
      OBVIOUS
    <3>1. j \in 1 .. n /\ j \in 1 .. n + 1
      BY <1>7
    <3> QED
      BY <1>3, <1>4, <1>5, <1>7, <3>1, Zenon
  <2>2. ~(j > n + 1)
    <3> SUFFICES ASSUME j > n + 1 PROVE FALSE
      OBVIOUS
    <3>1. n + 1 \in 1 .. j - 1 /\ n + 1 \in 1 .. n + 1
      BY <1>7
    <3> QED
      BY <1>3, <1>5, <1>7, <3>1, Zenon
  <2> QED
    BY <1>7, <2>1, <2>2
<1>9. j - 1 = n /\ n < nbytes /\ n # nbytes - 1
  BY <1>1, <1>8
<1>10. do_getargs(args, nbytes) = [ret |-> 0, buf |-> [i \in 1 .. n + 1 |-> Char(args, i)]]
  BY <1>6, <1>9, Zenon DEF do_getargs
<1>11. PICK nul : nul = NUL
  OBVIOUS
<1>12. [i \in 1 .. n + 1 |-> Char(args, i)] = Append(A, nul)
  <2>1. /\ Len(Append(A, nul)) = n + 1
        /\ \A i \in 1 .. n : Append(A, nul)[i] = A[i]
        /\ Append(A, nul)[n + 1] = nul
        /\ Append(A, nul) = [i \in 1 .. n + 1 |-> Append(A, nul)[i]]
    <3>1. A \in Seq(Chars \cup {nul}) /\ nul \in Chars \cup {nul}
      <4>1. \A S, R : S \subseteq R => Seq(S) \subseteq Seq(R)
        OBVIOUS
      <4>2. Chars \ Ends \subseteq Chars \cup {nul}
        OBVIOUS
      <4> QED
        BY <4>1, <4>2, Zenon
    <3>2. /\ Append(A, nul) \in Seq(Chars \cup {nul})
          /\ Len(Append(A, nul)) = n + 1
          /\ \A i \in 1 .. n : Append(A, nul)[i] = A[i]
          /\ Append(A, nul)[n + 1] = nul
      BY <1>1, <3>1, AppendProperties
    <3>3. \A S : \A q \in Seq(S) : q = [i \in 1 .. Len(q) |-> q[i]]
      OBVIOUS
    <3> QED
      BY <3>2, <3>3, Zenon
  <2>2. ASSUME NEW i \in 1 .. n + 1 PROVE Char(args, i) = Append(A, nul)[i]
    <3>1. CASE i = n + 1
      BY <1>3, <1>5, <1>11, <2>1, <3>1, Zenon
    <3>2. CASE i # n + 1
      <4>1. i \in 1 .. n
        BY <3>2
      <4> QED
        BY <1>3, <1>5, <2>1, <4>1, Zenon
    <3> QED
      BY <3>1, <3>2
  <2>3. [i \in 1 .. n + 1 |-> Char(args, i)] = [i \in 1 .. n + 1 |-> Append(A, nul)[i]]
    BY <2>2, Zenon
  <2> QED
    BY <2>1, <2>3, Zenon
<1> QED
  BY <1>10, <1>11, <1>12, Zenon

\* A run of spaces behind the first word adds nothing after its first
LEMMA SpaceRun ==
    ASSUME NEW memory \in Seq(Chars), NEW e, NEW g, NEW Q, Shape(memory, e, g, Q),
           NEW p \in g .. e - 1, NEW j \in p + 1 .. e,
           \A k \in p .. j - 1 : Char(memory, k) = SPACE
    PROVE  Q[j - 1] = Q[p]
<1>1. e \in Nat /\ g \in 1 .. e
  <2>1. Len(memory) \in Nat /\ e \in 1 .. Len(memory) + 1 /\ g \in 1 .. e
    BY LenProperties DEF Shape
  <2> QED
    BY <2>1
<1>2. PICK n \in Nat : n = (j - 1) - p
  BY <1>1
<1> DEFINE T == {d \in 0 .. n : Q[p + d] = Q[p]}
<1>3. 0 \in T
  <2>1. p + 0 = p /\ 0 \in 0 .. n
    BY <1>1
  <2> QED
    BY <2>1, Zenon
<1>4. ASSUME NEW d \in 0 .. n - 1, d \in T PROVE d + 1 \in T
  <2>1. PICK i : i = p + (d + 1)
    OBVIOUS
  <2>2. i \in 1 .. e - 1 /\ i > g /\ i \in p .. j - 1 /\ i - 1 \in p .. j - 1 /\ i - 1 = p + d
        /\ d + 1 \in 0 .. n
    BY <1>1, <1>2, <2>1
  <2>3. Char(memory, i) = SPACE /\ Char(memory, i - 1) = SPACE
    BY <2>2, Zenon
  <2>4. Q[i] = Q[i - 1]
    BY <2>2, <2>3, Zenon DEF Shape
  <2>5. Q[p + d] = Q[p]
    BY <1>4, Zenon
  <2>6. Q[p + (d + 1)] = Q[p]
    BY <2>1, <2>2, <2>4, <2>5, Zenon
  <2> QED
    BY <2>2, <2>6, Zenon
<1>5. \A d \in 0 .. n : d \in T
  <2> HIDE DEF T
  <2> QED
    BY <1>3, <1>4, SetInduction
<1>6. Q[p + n] = Q[p]
  <2>1. n \in 0 .. n
    OBVIOUS
  <2> QED
    BY <1>5, <2>1, Zenon
<1>7. p + n = j - 1
  BY <1>1, <1>2
<1> QED
  BY <1>6, <1>7, Zenon

\* What an iteration does before the end of the line, field by field; j is the
\* place of the character it copies
Round(memory, s, j, t) ==
    /\ j \in s.i .. Len(memory) + 1 /\ Char(memory, j) # SPACE
    /\ \A k \in s.i .. j - 1 : Char(memory, k) = SPACE
    /\ t.i = j + 1
    /\ s.gotProgramName \/ j # s.i =>
          /\ t.gotProgramName
          /\ t.programName = s.programName
          /\ t.argsBuffer = s.argsBuffer
                              \o (IF j # s.i /\ s.gotProgramName THEN <<SPACE>> ELSE <<>>)
                              \o <<Char(memory, j)>>
    /\ ~s.gotProgramName /\ j = s.i =>
          /\ ~t.gotProgramName
          /\ t.programName = s.programName \o <<Char(memory, j)>>
          /\ t.argsBuffer = s.argsBuffer

\* An iteration stops at the end of the line and copies a character before it
LEMMA ParseRoundFacts ==
    ASSUME NEW memory \in Seq(Chars), NEW s \in ParseStates(memory),
           NEW t, t = parse_round(memory, s)
    PROVE  /\ Char(memory, s.i) \in Ends => t = s
           /\ Char(memory, s.i) \notin Ends => \E j : Round(memory, s, j, t)
<1>0. Len(memory) \in Nat
  BY LenProperties
<1>1. s.i \in 1 .. Len(memory) + 2 /\ s.gotProgramName \in BOOLEAN
  BY DEF ParseStates
<1>2. CASE Char(memory, s.i) \in Ends
  BY <1>2, Zenon DEF parse_round
<1>3. CASE Char(memory, s.i) \notin Ends
  <2>1. s.i \in 1 .. Len(memory) + 1
    <3>1. s.i <= Len(memory)
      BY <1>0, <1>1, <1>3 DEF Char, Ends
    <3> QED
      BY <1>0, <1>1, <3>1
  <2>2. PICK j : j = Find(memory, s.i, NotSpace)
    OBVIOUS
  <2>3. /\ j \in s.i .. Len(memory) + 1 /\ Char(memory, j) # SPACE
        /\ \A k \in s.i .. j - 1 : Char(memory, k) = SPACE
    BY <2>1, <2>2, WordFound, Zenon
  <2>4. PICK g \in BOOLEAN : g = (s.gotProgramName \/ j # s.i)
    BY <1>1
  <2>5. PICK space : space = IF j # s.i /\ s.gotProgramName THEN <<SPACE>> ELSE <<>>
    OBVIOUS
  <2>6. PICK copy : copy = <<Char(memory, j)>>
    OBVIOUS
  <2>7. PICK name : name = IF g THEN s.programName ELSE s.programName \o copy
    OBVIOUS
  <2>8. PICK args : args = IF g THEN s.argsBuffer \o space \o copy ELSE s.argsBuffer
    OBVIOUS
  <2>9. t = [i |-> j + 1, gotProgramName |-> g, programName |-> name, argsBuffer |-> args]
    BY <1>3, <2>2, <2>4, <2>5, <2>6, <2>7, <2>8, Zenon DEF parse_round
  <2>10. t.i = j + 1 /\ t.gotProgramName = g /\ t.programName = name /\ t.argsBuffer = args
    BY <2>9
  <2>11. Round(memory, s, j, t)
    BY <2>3, <2>4, <2>5, <2>6, <2>7, <2>8, <2>10, Zenon DEF Round
  <2> QED
    BY <1>3, <2>11, Zenon
<1> QED
  BY <1>2, <1>3

\* The loop after n iterations has not passed the end of the line
Clean(memory, e, g, Q, s, n) ==
    /\ s.i \in 1 .. e
    /\ s.i > n \/ s.i = e
    /\ s.i <= g =>
          /\ ~s.gotProgramName
          /\ s.programName = SubSeq(memory, 1, s.i - 1)
          /\ s.argsBuffer = <<>>
    /\ s.i > g =>
          /\ s.gotProgramName
          /\ s.programName = SubSeq(memory, 1, g - 1)
          /\ s.argsBuffer = Q[s.i - 1]
          /\ Char(memory, s.i - 1) # SPACE

\* The loop has copied the NUL that ends the line
Passed(memory, e, g, Q, s) ==
    /\ s.gotProgramName
    /\ s.programName = SubSeq(memory, 1, g - 1)
    /\ Begins(s.argsBuffer, Q[e - 1])

\* A text and its NUL
LEMMA BeginsNul ==
    ASSUME NEW S, NEW q \in Seq(S)
    PROVE  Begins(Append(q, NUL), q)
<1>1. PICK c : c = NUL
  OBVIOUS
<1>2. /\ Len(Append(q, c)) > Len(q)
      /\ \A k \in 1 .. Len(q) : Append(q, c)[k] = q[k]
      /\ Append(q, c)[Len(q) + 1] = c
  OBVIOUS
<1> QED
  BY <1>1, <1>2, Zenon DEF Begins

\* What follows the NUL leaves it in its place
LEMMA BeginsMore ==
    ASSUME NEW S, NEW a \in Seq(S), NEW b \in Seq(S), NEW R, NEW A \in Seq(R), Begins(a, A)
    PROVE  Begins(a \o b, A)
<1>1. PICK d : d = a \o b
  OBVIOUS
<1>2. /\ Len(d) >= Len(a) /\ Len(a) \in Nat /\ Len(d) \in Nat
      /\ \A k \in 1 .. Len(a) : d[k] = a[k]
  BY <1>1
<1>3. Len(A) \in Nat
  BY LenProperties
<1>4. Len(a) > Len(A) /\ (\A k \in 1 .. Len(A) : a[k] = A[k]) /\ a[Len(A) + 1] = NUL
  BY Zenon DEF Begins
<1>5. Len(d) > Len(A) /\ (\A k \in 1 .. Len(A) : k \in 1 .. Len(a)) /\ Len(A) + 1 \in 1 .. Len(a)
  BY <1>2, <1>3, <1>4
<1> QED
  BY <1>1, <1>2, <1>4, <1>5, Zenon DEF Begins

\* What is copied behind the NUL leaves it in its place
LEMMA PassedRound ==
    ASSUME NEW memory \in Seq(Chars), NEW e, NEW g, NEW Q, Q[e - 1] \in Seq(Chars \ Ends),
           NEW s \in ParseStates(memory), NEW t, t = parse_round(memory, s),
           Passed(memory, e, g, Q, s)
    PROVE  Passed(memory, e, g, Q, t)
<1>1. CASE Char(memory, s.i) \in Ends
  BY <1>1, ParseRoundFacts, Zenon
<1>2. CASE Char(memory, s.i) \notin Ends
  <2>1. PICK j : Round(memory, s, j, t)
    BY <1>2, ParseRoundFacts, Zenon
  <2>2. s.gotProgramName /\ s.programName = SubSeq(memory, 1, g - 1)
        /\ Begins(s.argsBuffer, Q[e - 1])
    BY Zenon DEF Passed
  <2>3. PICK a : a = s.argsBuffer
    OBVIOUS
  <2>4. PICK A : A = Q[e - 1]
    OBVIOUS
  <2>5. PICK c : c = Char(memory, j)
    OBVIOUS
  <2>6. PICK space : space = IF j # s.i /\ s.gotProgramName THEN <<SPACE>> ELSE <<>>
    OBVIOUS
  <2>7. t.gotProgramName /\ t.programName = s.programName /\ t.argsBuffer = a \o space \o <<c>>
    BY <2>1, <2>2, <2>3, <2>5, <2>6, Zenon DEF Round
  <2>8. a \in Seq(Chars) /\ c \in Chars
    <3>1. j \in Nat \ {0}
      <4>1. Len(memory) \in Nat /\ s.i \in 1 .. Len(memory) + 2
        BY LenProperties DEF ParseStates
      <4>2. j \in s.i .. Len(memory) + 1
        BY <2>1, Zenon DEF Round
      <4> QED
        BY <4>1, <4>2
    <3>2. s.argsBuffer \in Seq(Chars)
      BY DEF ParseStates
    <3> QED
      BY <2>3, <2>5, <3>1, <3>2, CharType, Zenon
  <2>9. space \in Seq(Chars) /\ <<c>> \in Seq(Chars)
    <3>1. SPACE \in Chars
      BY Zenon DEF Chars
    <3>2. \A S : \A x \in S : <<x>> \in Seq(S)
      OBVIOUS
    <3>3. <<>> \in Seq(Chars)
      BY EmptySeq, Zenon
    <3> QED
      BY <2>6, <2>8, <3>1, <3>2, <3>3, Zenon
  <2>10. Begins(a \o space \o <<c>>, A)
    <3>1. Begins(a \o space, A) /\ a \o space \in Seq(Chars)
      BY <2>2, <2>3, <2>4, <2>8, <2>9, BeginsMore, ConcatProperties
    <3> QED
      BY <2>4, <2>9, <3>1, BeginsMore
  <2> QED
    BY <2>2, <2>4, <2>7, <2>10, Zenon DEF Passed
<1> QED
  BY <1>1, <1>2

\* An iteration keeps what has been copied a beginning of what the command
\* means, until it passes the NUL that ends the line
LEMMA CleanRound ==
    ASSUME NEW memory \in Seq(Chars), NEW e, NEW g, NEW Q, Shape(memory, e, g, Q),
           Char(memory, e) = NL => e = 1 \/ Char(memory, e - 1) # SPACE,
           NEW s \in ParseStates(memory), NEW t, t = parse_round(memory, s),
           NEW n \in Nat, Clean(memory, e, g, Q, s, n)
    PROVE  Clean(memory, e, g, Q, t, n + 1) \/ Passed(memory, e, g, Q, t)
<1>0. PICK l \in Nat : l = Len(memory)
  BY LenProperties
<1>1. /\ e \in 1 .. l + 1 /\ g \in 1 .. e /\ Char(memory, e) \in Ends
      /\ \A k \in 1 .. e - 1 : Char(memory, k) \notin Ends
      /\ \A k \in 1 .. g - 1 : Char(memory, k) # SPACE
      /\ g < e => Char(memory, g) = SPACE
      /\ \A i \in 0 .. e - 1 : Q[i] \in Seq(Chars \ Ends)
      /\ \A i \in 0 .. e - 1 : i <= g => Q[i] = <<>>
      /\ \A i \in 1 .. e - 1 : i > g =>
            Q[i] = IF Char(memory, i) = SPACE /\ Char(memory, i - 1) = SPACE THEN Q[i - 1]
                   ELSE Append(Q[i - 1], Char(memory, i))
  BY <1>0, Zenon DEF Shape
<1>2. PICK p : p = s.i
  OBVIOUS
<1>3. /\ p \in 1 .. e /\ (p > n \/ p = e)
      /\ p <= g => /\ ~s.gotProgramName /\ s.programName = SubSeq(memory, 1, p - 1)
                   /\ s.argsBuffer = <<>>
      /\ p > g => /\ s.gotProgramName /\ s.programName = SubSeq(memory, 1, g - 1)
                  /\ s.argsBuffer = Q[p - 1] /\ Char(memory, p - 1) # SPACE
  BY <1>2, Zenon DEF Clean
<1>4. CASE p = e
  <2>1. t = s
    BY <1>1, <1>2, <1>4, ParseRoundFacts, Zenon
  <2> QED
    BY <1>2, <1>3, <1>4, <2>1, Zenon DEF Clean
<1>5. CASE p # e
  <2>1. p \in 1 .. e - 1 /\ p > n /\ e \in Nat /\ g \in Nat
    BY <1>1, <1>3, <1>5
  <2>2. PICK j : Round(memory, s, j, t)
    BY <1>1, <1>2, <2>1, ParseRoundFacts, Zenon
  <2>3. PICK c : c = Char(memory, j)
    OBVIOUS
  <2>4. /\ j \in p .. l + 1 /\ c # SPACE /\ \A k \in p .. j - 1 : Char(memory, k) = SPACE
        /\ t.i = j + 1
    BY <1>0, <1>2, <2>2, <2>3, Zenon DEF Round
  <2>5. Char(memory, e) # SPACE
    BY <1>1, CharBehind, Zenon DEF Ends
  <2>6. j \in p .. e
    <3>1. ~(e \in p .. j - 1)
      BY <2>4, <2>5, Zenon
    <3> QED
      BY <1>1, <2>1, <2>4, <3>1
  <2>7. CASE j = p /\ p <= g
    <3>1. p < g
      <4>1. p # g
        BY <1>1, <2>1, <2>3, <2>4, <2>7
      <4> QED
        BY <1>1, <2>1, <2>7, <4>1
    <3>2. ~t.gotProgramName /\ t.programName = s.programName \o <<c>> /\ t.argsBuffer = <<>>
      BY <1>2, <1>3, <2>2, <2>3, <2>7, Zenon DEF Round
    <3>3. p \in 1 .. l /\ p <= l
      BY <1>1, <2>1, <3>1
    <3>4. c = memory[p]
      BY <1>0, <2>3, <2>7, <3>3, Zenon DEF Char
    <3>5. SubSeq(memory, 1, p) = SubSeq(memory, 1, p - 1) \o <<c>>
      <4>1. 1 \in 1 .. Len(memory) /\ p \in 1 .. Len(memory)
        BY <1>0, <3>3
      <4> QED
        BY <3>4, <4>1, SubSeqRecursiveSecond, Zenon
    <3>6. t.i = p + 1 /\ t.i - 1 = p /\ t.i \in 1 .. e /\ t.i > n + 1 /\ t.i <= g /\ ~(t.i > g)
      BY <1>1, <2>1, <2>4, <2>7, <3>1
    <3>7. t.programName = SubSeq(memory, 1, t.i - 1)
      BY <1>3, <2>7, <3>2, <3>5, <3>6, Zenon
    <3> QED
      BY <3>2, <3>6, <3>7, Zenon DEF Clean
  <2>8. CASE j = p /\ p > g
    <3>1. PICK q : q = Q[p - 1]
      OBVIOUS
    <3>2. t.gotProgramName /\ t.programName = s.programName /\ t.argsBuffer = q \o <<>> \o <<c>>
      BY <1>2, <1>3, <2>2, <2>3, <2>8, <3>1, Zenon DEF Round
    <3>3. p - 1 \in 0 .. e - 1 /\ p \in 1 .. e - 1
      BY <1>1, <2>1, <2>8
    <3>4. Q[p] = Append(q, c) /\ q \in Seq(Chars \ Ends)
      BY <1>1, <2>3, <2>4, <2>8, <3>1, <3>3, Zenon
    <3>5. q \o <<>> \o <<c>> = Append(q, c)
      BY <3>4
    <3>6. t.i - 1 = p /\ t.i \in 1 .. e /\ t.i > n + 1 /\ t.i > g /\ ~(t.i <= g)
      BY <1>1, <2>1, <2>4, <2>8
    <3>7. Char(memory, t.i - 1) # SPACE /\ t.argsBuffer = Q[t.i - 1]
      BY <2>3, <2>4, <2>8, <3>2, <3>4, <3>5, <3>6, Zenon
    <3>8. t.programName = SubSeq(memory, 1, g - 1)
      BY <1>3, <2>8, <3>2, Zenon
    <3> QED
      BY <3>2, <3>6, <3>7, <3>8, Zenon DEF Clean
  <2>9. CASE j # p
    <3>1. j \in p + 1 .. e /\ p \in p .. j - 1 /\ j - 1 \in p .. j - 1
      BY <1>1, <2>1, <2>6, <2>9
    <3>2. Char(memory, p) = SPACE /\ Char(memory, j - 1) = SPACE
      BY <2>4, <3>1, Zenon
    <3>3. p >= g
      <4>1. ~(p \in 1 .. g - 1)
        BY <1>1, <3>2, Zenon
      <4> QED
        BY <1>1, <2>1, <4>1
    <3>4. Q[j - 1] = Q[p]
      <4>1. p \in g .. e - 1
        BY <1>1, <2>1, <3>3
      <4> QED
        BY <2>4, <3>1, <4>1, SpaceRun
    <3>5. t.gotProgramName /\ t.programName = SubSeq(memory, 1, g - 1)
      <4>1. t.gotProgramName /\ t.programName = s.programName
        BY <1>2, <2>2, <2>9, Zenon DEF Round
      <4>2. CASE p = g
        <5>1. p <= g
          BY <2>1, <4>2
        <5> QED
          BY <1>3, <4>1, <4>2, <5>1, Zenon
      <4>3. CASE p # g
        <5>1. p > g
          BY <2>1, <3>3, <4>3
        <5> QED
          BY <1>3, <4>1, <5>1, Zenon
      <4> QED
        BY <4>2, <4>3
    <3>6. t.argsBuffer = Append(Q[j - 1], c) /\ Q[j - 1] \in Seq(Chars \ Ends)
      <4>0. Q[p] \in Seq(Chars \ Ends)
        <5>1. p \in 0 .. e - 1
          BY <2>1
        <5> QED
          BY <1>1, <5>1, Zenon
      <4>1. CASE p = g
        <5>1. p <= g /\ p \in 0 .. e - 1
          BY <2>1, <4>1
        <5>2. Q[p] = <<>>
          BY <1>1, <5>1, Zenon
        <5>3. t.argsBuffer = <<>> \o <<>> \o <<c>>
          BY <1>2, <1>3, <2>2, <2>3, <2>9, <5>1, Zenon DEF Round
        <5>4. <<>> \o <<>> \o <<c>> = Append(<<>>, c)
          OBVIOUS
        <5> QED
          BY <3>4, <4>0, <5>2, <5>3, <5>4, Zenon
      <4>2. CASE p # g
        <5>1. p > g /\ p - 1 \in 0 .. e - 1
          BY <2>1, <3>3, <4>2
        <5>2. PICK q : q = Q[p - 1]
          OBVIOUS
        <5>3. PICK d : d = SPACE
          OBVIOUS
        <5>4. Q[p] = Append(q, d) /\ q \in Seq(Chars \ Ends)
          BY <1>1, <1>3, <2>1, <3>2, <5>1, <5>2, <5>3, Zenon
        <5>5. t.argsBuffer = q \o <<d>> \o <<c>>
          BY <1>2, <1>3, <2>2, <2>3, <2>9, <5>1, <5>2, <5>3, Zenon DEF Round
        <5>6. q \o <<d>> \o <<c>> = Append(Append(q, d), c)
          BY <5>4
        <5> QED
          BY <3>4, <4>0, <5>4, <5>5, <5>6, Zenon
      <4> QED
        BY <4>1, <4>2
    <3>7. CASE j # e
      <4>1. j \in 1 .. e - 1 /\ j > g
        BY <1>1, <2>1, <3>1, <3>3, <3>7
      <4>2. Q[j] = Append(Q[j - 1], c)
        BY <1>1, <2>3, <2>4, <4>1, Zenon
      <4>3. t.i - 1 = j /\ t.i \in 1 .. e /\ t.i > n + 1 /\ t.i > g /\ ~(t.i <= g)
        BY <1>1, <2>1, <2>4, <3>1, <4>1
      <4>4. t.argsBuffer = Q[t.i - 1] /\ Char(memory, t.i - 1) # SPACE
        BY <2>3, <2>4, <3>6, <4>2, <4>3, Zenon
      <4> QED
        BY <3>5, <4>3, <4>4, Zenon DEF Clean
    <3>8. CASE j = e
      <4>1. e # 1
        BY <1>1, <2>1, <3>1, <3>8
      <4>2. c = NUL
        BY <1>1, <2>3, <3>2, <3>8, <4>1, Zenon DEF Ends
      <4>3. Begins(Append(Q[j - 1], c), Q[j - 1])
        BY <3>6, <4>2, BeginsNul, Zenon
      <4> QED
        BY <3>5, <3>6, <3>8, <4>3, Zenon DEF Passed
    <3> QED
      BY <3>7, <3>8
  <2> QED
    BY <1>1, <2>1, <2>7, <2>8, <2>9
<1> QED
  BY <1>4, <1>5

\* name and args are what the command in memory means
Means(memory, name, args) ==
    /\ name = ProgramOf(memory)
    /\ ArgumentsOf(memory) \in Seq(Chars \ Ends)
    /\ Begins(args, ArgumentsOf(memory))

\* do_execute cuts a command as it is meant, whatever lies behind it
LEMMA ParseMeaning ==
    ASSUME NEW memory \in Seq(Chars), Plain(memory), NEW line, line = do_execute_parse(memory)
    PROVE  Means(memory, line.programName, line.argsBuffer)
<1>1. PICK n \in Nat : n = Len(memory) + 1
  BY LenProperties
<1>2. PICK L : L = parse_loop(memory)
  OBVIOUS
<1>3. IsParseLoop(L, memory)
  BY <1>2, ParseLoopDefined, Zenon
<1>4. PICK e, g, Q : Shape(memory, e, g, Q) /\ Meaning(memory, e, g, Q)
  BY CommandShape
<1>5. /\ e \in 1 .. n /\ g \in 1 .. e
      /\ \A i \in 0 .. e - 1 : Q[i] \in Seq(Chars \ Ends)
      /\ \A i \in 0 .. e - 1 : i <= g => Q[i] = <<>>
  BY <1>1, <1>4, Zenon DEF Shape
<1>6. /\ ProgramOf(memory) = SubSeq(memory, 1, g - 1)
      /\ ArgumentsOf(memory) = Q[e - 1]
      /\ Char(memory, e) = NL => e = 1 \/ Char(memory, e - 1) # SPACE
  BY <1>4, Zenon DEF Meaning
<1>7. e \in Nat /\ g \in Nat /\ e - 1 \in 0 .. e - 1 /\ Q[e - 1] \in Seq(Chars \ Ends)
  <2>1. e \in Nat /\ g \in Nat /\ e - 1 \in 0 .. e - 1
    BY <1>5
  <2> QED
    BY <1>5, <2>1, Zenon
<1> DEFINE T == {k \in 0 .. n : \/ Clean(memory, e, g, Q, L[k], k)
                                \/ Passed(memory, e, g, Q, L[k])}
<1>8. 0 \in T
  <2>1. L[0] = ParseStart
    BY <1>3, Zenon DEF IsParseLoop
  <2>2. /\ L[0].i = 1 /\ L[0].programName = <<>> /\ L[0].argsBuffer = <<>>
        /\ ~L[0].gotProgramName
    BY <2>1 DEF ParseStart
  <2>3. SubSeq(memory, 1, 1 - 1) = <<>>
    BY SubSeqEmpty
  <2>4. 1 \in 1 .. e /\ 1 > 0 /\ 1 <= g /\ ~(1 > g) /\ 0 \in 0 .. n
    BY <1>5, <1>7
  <2>5. Clean(memory, e, g, Q, L[0], 0)
    BY <2>2, <2>3, <2>4, Zenon DEF Clean
  <2> QED
    BY <2>4, <2>5, Zenon
<1>9. ASSUME NEW k \in 0 .. n - 1, k \in T PROVE k + 1 \in T
  <2>1. k + 1 \in 1 .. n /\ k + 1 \in 0 .. n /\ (k + 1) - 1 = k /\ k \in 0 .. n /\ k \in Nat
    OBVIOUS
  <2>2. L[k + 1] = parse_round(memory, L[k]) /\ L[k] \in ParseStates(memory)
    BY <1>1, <1>3, <2>1, Zenon DEF IsParseLoop
  <2>3. CASE Clean(memory, e, g, Q, L[k], k)
    <3>1. \/ Clean(memory, e, g, Q, L[k + 1], k + 1)
          \/ Passed(memory, e, g, Q, L[k + 1])
      BY <1>4, <1>6, <2>1, <2>2, <2>3, CleanRound, Zenon
    <3> QED
      BY <2>1, <3>1, Zenon
  <2>4. CASE Passed(memory, e, g, Q, L[k])
    <3>1. Passed(memory, e, g, Q, L[k + 1])
      BY <1>7, <2>2, <2>4, PassedRound, Zenon
    <3> QED
      BY <2>1, <3>1, Zenon
  <2> QED
    BY <1>9, <2>3, <2>4, Zenon
<1>10. \A k \in 0 .. n : k \in T
  <2> HIDE DEF T
  <2> QED
    BY <1>8, <1>9, SetInduction
<1>11. PICK s : s = L[n]
  OBVIOUS
<1>12. /\ Clean(memory, e, g, Q, s, n) \/ Passed(memory, e, g, Q, s)
       /\ s \in ParseStates(memory)
  <2>1. n \in 0 .. n
    OBVIOUS
  <2> QED
    BY <1>1, <1>3, <1>10, <1>11, <2>1, Zenon DEF IsParseLoop
<1>13. /\ line.programName = s.programName
       /\ line.argsBuffer = Append(s.argsBuffer, NUL)
  <2>1. line = [programName |-> s.programName, argsBuffer |-> Append(s.argsBuffer, NUL)]
    BY <1>1, <1>2, <1>11, Zenon DEF do_execute_parse
  <2> QED
    BY <2>1
<1>14. CASE Clean(memory, e, g, Q, s, n)
  <2>1. PICK p : p = s.i
    OBVIOUS
  <2>2. p \in 1 .. e /\ (p > n \/ p = e)
    BY <1>14, <2>1, Zenon DEF Clean
  <2>3. p = e
    BY <1>5, <1>7, <2>2
  <2>4. s.programName = SubSeq(memory, 1, g - 1) /\ s.argsBuffer = Q[e - 1]
    <3>1. CASE e > g
      BY <1>14, <2>1, <2>3, <3>1, Zenon DEF Clean
    <3>2. CASE ~(e > g)
      <4>1. e = g /\ e <= g /\ e - 1 <= g
        BY <1>5, <1>7, <3>2
      <4>2. s.programName = SubSeq(memory, 1, e - 1) /\ s.argsBuffer = <<>>
        BY <1>14, <2>1, <2>3, <4>1, Zenon DEF Clean
      <4> QED
        BY <1>5, <1>7, <4>1, <4>2, Zenon
    <3> QED
      BY <3>1, <3>2
  <2>5. Begins(Append(s.argsBuffer, NUL), Q[e - 1])
    BY <1>7, <2>4, BeginsNul, Zenon
  <2> QED
    BY <1>6, <1>7, <1>13, <2>4, <2>5, Zenon DEF Means
<1>15. CASE Passed(memory, e, g, Q, s)
  <2>1. s.programName = SubSeq(memory, 1, g - 1) /\ Begins(s.argsBuffer, Q[e - 1])
    BY <1>15, Zenon DEF Passed
  <2>2. PICK a, c : a = s.argsBuffer /\ c = NUL
    OBVIOUS
  <2>3. a \in Seq(Chars) /\ c \in Chars
    <3>1. s.argsBuffer \in Seq(Chars)
      BY <1>12 DEF ParseStates
    <3>2. NUL \in Chars
      BY Zenon DEF Chars
    <3> QED
      BY <2>2, <3>1, <3>2, Zenon
  <2>4. Append(a, c) = a \o <<c>> /\ <<c>> \in Seq(Chars)
    BY <2>3
  <2>5. Begins(a \o <<c>>, Q[e - 1])
    BY <1>7, <2>1, <2>2, <2>3, <2>4, BeginsMore
  <2> QED
    BY <1>6, <1>7, <1>13, <2>1, <2>2, <2>4, <2>5, Zenon DEF Means
<1> QED
  BY <1>12, <1>14, <1>15

\* RunsCommandLine of a name, arguments and the memory that held the command
Answers(name, args, memory) ==
    LET arguments == ArgumentsOf(memory) IN
    Plain(memory) =>
        /\ name = ProgramOf(memory)
        /\ \A nbytes \in ArgSizes : nbytes > Len(arguments) + 1 =>
              do_getargs(args, nbytes) = [ret |-> 0, buf |-> Append(arguments, NUL)]

\* The program and the arguments that do_execute finds are the ones it is given
LEMMA ParseAnswers ==
    ASSUME NEW memory \in Seq(Chars), NEW line, line = do_execute_parse(memory)
    PROVE  Answers(line.programName, line.argsBuffer, memory)
<1> SUFFICES ASSUME Plain(memory)
             PROVE  /\ line.programName = ProgramOf(memory)
                    /\ \A nbytes \in ArgSizes : nbytes > Len(ArgumentsOf(memory)) + 1 =>
                          do_getargs(line.argsBuffer, nbytes)
                             = [ret |-> 0, buf |-> Append(ArgumentsOf(memory), NUL)]
  BY Zenon DEF Answers
<1>1. Means(memory, line.programName, line.argsBuffer)
  BY ParseMeaning, Zenon
<1>2. line.argsBuffer \in Seq(Chars)
  BY ParseType, Zenon
<1>3. ArgSizes \subseteq Nat
  BY FileSysAssumption, Zenon
<1>4. ASSUME NEW nbytes \in ArgSizes, nbytes > Len(ArgumentsOf(memory)) + 1
      PROVE  do_getargs(line.argsBuffer, nbytes)
                = [ret |-> 0, buf |-> Append(ArgumentsOf(memory), NUL)]
  <2>1. nbytes \in Nat
    BY <1>3
  <2>2. ArgumentsOf(memory) \in Seq(Chars \ Ends) /\ Begins(line.argsBuffer, ArgumentsOf(memory))
    BY <1>1, Zenon DEF Means
  <2> QED
    BY <1>2, <1>4, <2>1, <2>2, GetargsFacts, Zenon
<1> QED
  BY <1>1, <1>4, Zenon DEF Means

\* An empty memory is an empty command
LEMMA ParseNothing ==
    ASSUME NEW line, line = do_execute_parse(<<>>)
    PROVE  line.programName = <<>> /\ line.argsBuffer = <<NUL>>
<1>1. PICK L : L = parse_loop(<<>>)
  OBVIOUS
<1>2. PICK m : m = <<>>
  OBVIOUS
<1>3. m \in Seq(Chars) /\ Len(m) = 0 /\ Len(m) + 1 = 1
  BY <1>2
<1>4. IsParseLoop(L, m)
  BY <1>1, <1>2, <1>3, ParseLoopDefined, Zenon
<1>5. 0 \in 0 .. 1 /\ 1 \in 1 .. 1 /\ 1 - 1 = 0
  OBVIOUS
<1>6. L[0] = ParseStart /\ L[1] = parse_round(m, L[0]) /\ L[0] \in ParseStates(m)
  BY <1>3, <1>4, <1>5, Zenon DEF IsParseLoop
<1>7. /\ L[0].i = 1 /\ L[0].programName = <<>> /\ L[0].argsBuffer = <<>>
  BY <1>6 DEF ParseStart
<1>8. Char(m, L[0].i) \in Ends
  BY <1>3, <1>7, CharBehind, Zenon DEF Ends
<1>9. L[1] = L[0]
  BY <1>3, <1>6, <1>8, ParseRoundFacts, Zenon
<1>10. line = [programName |-> <<>>, argsBuffer |-> Append(<<>>, NUL)]
  BY <1>1, <1>2, <1>3, <1>7, <1>9, Zenon DEF do_execute_parse
<1>11. Append(<<>>, NUL) = <<NUL>>
  OBVIOUS
<1> QED
  BY <1>10, <1>11

-----------------------------------------------------------------------------
(* The directory and the lines                                             *)

\* The memory that a command lies in holds characters
LEMMA LinesType ==
    ASSUME NEW memory \in Lines
    PROVE  memory \in Seq(Chars)
<1>1. PICK command \in Commands, old \in Leftovers : memory = command \o old
  BY DEF Lines
<1>2. command \in Seq(Chars) /\ old \in Seq(Chars)
  BY FileSysAssumption, Zenon
<1> QED
  BY <1>1, <1>2, ConcatProperties

\* What read_dentry_by_name finds is an entry of the directory
LEMMA EntryFound ==
    ASSUME NEW fname, NEW i, i = read_dentry_by_name(fname), i # 0
    PROVE  /\ i \in DOMAIN Dentries
           /\ Dentries[i].len \in Lengths /\ Dentries[i].len \in Nat
           /\ Dentries[i].file_type \in 0 .. 2
<1>1. /\ Dentries \in Seq([name : Seq(STRING), file_type : 0 .. 2, len : Nat, elf : BOOLEAN])
      /\ Len(Dentries) > 0
  BY FileSysAssumption, Zenon
<1>2. DOMAIN Dentries = 1 .. Len(Dentries) /\ Len(Dentries) \in Nat
  BY <1>1, LenProperties
<1>3. i \in DOMAIN Dentries
  <2> DEFINE found == {j \in DOMAIN Dentries : Dentries[j].name = fname}
  <2>1. found \in SUBSET Nat /\ found \subseteq DOMAIN Dentries
    BY <1>2
  <2>2. \/ i = 1
        \/ found # {} /\ i = CHOOSE k \in found : \A j \in found : k <= j
    BY Zenon DEF read_dentry_by_name
  <2> HIDE DEF found
  <2>3. CASE i = 1
    BY <1>1, <1>2, <2>3
  <2>4. CASE found # {} /\ i = CHOOSE k \in found : \A j \in found : k <= j
    <3>1. \E k \in found : \A j \in found : k <= j
      BY <2>1, <2>4, LeastNumber
    <3>2. i \in found
      BY <2>4, <3>1, Zenon
    <3> QED
      BY <2>1, <3>2
  <2> QED
    BY <2>2, <2>3, <2>4
<1>4. Dentries[i] \in [name : Seq(STRING), file_type : 0 .. 2, len : Nat, elf : BOOLEAN]
  BY <1>1, <1>2, <1>3, ElementOfSeq, Zenon
<1> QED
  BY <1>3, <1>4 DEF Lengths

-----------------------------------------------------------------------------
(* The invariant                                                           *)

FdStates == [fops : {"NULL", "rtc", "dir", "file"}, len : Lengths \cup {0}, offset : Nat]

\* TypeOK for one descriptor
FdType(f, g, r, a) ==
    /\ f \in FdStates /\ g \in Seq(Nat) /\ r \in Int /\ a \in BOOLEAN
    /\ f.fops = "NULL" => f.offset = 0

\* TypeOK for the program
ImageType ==
    /\ image.len \in Lengths \cup {0} /\ image.data \in Seq(Nat)
    /\ \A c \in {"name", "args", "memory"} : image[c] \in Seq(Chars)

\* As long as no read of a file started inside a block and went on into the
\* next one, its reads have returned a prefix of the blocks that ends at offset
\* or, once offset is beyond the end, holds the whole file
FileOK(f, g, r, a) ==
    f.fops = "file" /\ a =>
        /\ \A i \in DOMAIN g : g[i] = i - 1
        /\ f.offset < f.len => Len(g) = f.offset
        /\ f.offset >= f.len => Len(g) >= f.len
        /\ r = 0 => Len(g) >= f.len

\* Reads of the directory have returned the names up to offset, and nothing but
\* the last one made them return 0
DirectoryOK(f, g, r) ==
    f.fops = "dir" =>
        /\ g = [i \in 1 .. Clip(f.offset, NumDentries) |-> i - 1]
        /\ r = 0 => f.offset >= NumDentries

FdOK(f, g, r, a) == FileOK(f, g, r, a) /\ DirectoryOK(f, g, r)

FdInv == \A fd \in Fds : FdOK(files[fd], got[fd], ret[fd], aligned[fd])

IInv == TypeOK /\ FdInv /\ LoadsWholeProgram

\* The types of one descriptor
LEMMA FdTypes ==
    ASSUME TypeOK, NEW fd \in Fds
    PROVE  FdType(files[fd], got[fd], ret[fd], aligned[fd])
BY DEF TypeOK, FdType, FdStates

\* The fields of a descriptor
LEMMA FdFields ==
    ASSUME NEW f \in FdStates
    PROVE  f.len \in Nat /\ f.offset \in Nat /\ f.fops \in {"NULL", "rtc", "dir", "file"}
<1>1. /\ Dentries \in Seq([name : Seq(STRING), file_type : 0 .. 2, len : Nat, elf : BOOLEAN])
  BY FileSysAssumption, Zenon
<1>2. \A i \in DOMAIN Dentries : Dentries[i].len \in Nat
  <2>1. DOMAIN Dentries = 1 .. Len(Dentries)
    BY <1>1, LenProperties
  <2>2. \A i \in DOMAIN Dentries :
           Dentries[i] \in [name : Seq(STRING), file_type : 0 .. 2, len : Nat, elf : BOOLEAN]
    BY <1>1, <2>1, ElementOfSeq, Zenon
  <2> QED
    BY <2>2
<1> QED
  BY <1>2 DEF FdStates, Lengths

\* A step that changes one descriptor
LEMMA FdStep ==
    ASSUME IInv, NEW fd \in Fds, NEW f, NEW g, NEW r, NEW a,
           files' = [files EXCEPT ![fd] = f], got' = [got EXCEPT ![fd] = g],
           ret' = [ret EXCEPT ![fd] = r], aligned' = [aligned EXCEPT ![fd] = a],
           image' = image, FdType(f, g, r, a), FdOK(f, g, r, a)
    PROVE  IInv'
<1>1. TypeOK /\ FdInv /\ LoadsWholeProgram
  BY DEF IInv
<1>2. /\ files \in [Fds -> FdStates] /\ got \in [Fds -> Seq(Nat)] /\ ret \in [Fds -> Int]
      /\ aligned \in [Fds -> BOOLEAN] /\ ImageType
      /\ \A e \in Fds : files[e].fops = "NULL" => files[e].offset = 0
  BY <1>1, Zenon DEF TypeOK, FdStates, ImageType
<1>3. /\ f \in FdStates /\ g \in Seq(Nat) /\ r \in Int /\ a \in BOOLEAN
      /\ f.fops = "NULL" => f.offset = 0
  BY Zenon DEF FdType
<1>4. /\ files' \in [Fds -> FdStates] /\ got' \in [Fds -> Seq(Nat)] /\ ret' \in [Fds -> Int]
  BY <1>2, <1>3
<1>5. aligned' \in [Fds -> BOOLEAN]
  BY <1>2, <1>3, Zenon
<1>6. /\ files'[fd] = f /\ got'[fd] = g /\ ret'[fd] = r /\ aligned'[fd] = a
      /\ \A e \in Fds : e # fd => /\ files'[e] = files[e] /\ got'[e] = got[e]
                                 /\ ret'[e] = ret[e] /\ aligned'[e] = aligned[e]
  BY <1>2, Zenon
<1>7. ImageType' /\ LoadsWholeProgram'
  BY <1>1, <1>2, Zenon DEF ImageType, LoadsWholeProgram
<1>8. \A e \in Fds : files'[e].fops = "NULL" => files'[e].offset = 0
  BY <1>2, <1>3, <1>6, Zenon
<1>9. TypeOK'
  BY <1>4, <1>5, <1>7, <1>8, Zenon DEF TypeOK, FdStates, ImageType
<1>10. FdInv'
  <2> SUFFICES ASSUME NEW e \in Fds
               PROVE  FdOK(files'[e], got'[e], ret'[e], aligned'[e])
    BY DEF FdInv
  <2>1. CASE e = fd
    BY <1>6, <2>1, Zenon
  <2>2. CASE e # fd
    BY <1>1, <1>6, <2>2, Zenon DEF FdInv
  <2> QED
    BY <2>1, <2>2
<1> QED
  BY <1>7, <1>9, <1>10 DEF IInv

\* The directory has a number of entries, no more than there are inodes
LEMMA DirectorySize == NumDentries \in Nat /\ NumInodes \in Nat /\ NumInodes >= NumDentries
<1>1. /\ Dentries \in Seq([name : Seq(STRING), file_type : 0 .. 2, len : Nat, elf : BOOLEAN])
      /\ NumInodes \in Nat /\ NumInodes >= Len(Dentries)
  BY FileSysAssumption, Zenon
<1> QED
  BY <1>1, LenProperties DEF NumDentries

\* Writing what a function already holds changes nothing
LEMMA SameFunctions ==
    ASSUME IInv, NEW fd \in Fds
    PROVE  /\ files = [files EXCEPT ![fd] = files[fd]]
           /\ got = [got EXCEPT ![fd] = got[fd]]
           /\ aligned = [aligned EXCEPT ![fd] = aligned[fd]]
<1>1. /\ files = [e \in Fds |-> files[e]] /\ got = [e \in Fds |-> got[e]]
      /\ aligned = [e \in Fds |-> aligned[e]]
  BY DEF IInv, TypeOK
<1> QED
  BY <1>1, Zenon

\* Nothing is open and nothing is loaded at the start
LEMMA InitInv == Init => IInv
<1> SUFFICES ASSUME Init PROVE IInv
  OBVIOUS
<1>1. /\ files = [fd \in Fds |-> Closed] /\ got = [fd \in Fds |-> <<>>]
      /\ ret = [fd \in Fds |-> None] /\ aligned = [fd \in Fds |-> TRUE]
  BY DEF Init
<1>2. /\ image.len = 0 /\ image.data = <<>> /\ image.name = <<>> /\ image.args = <<NUL>>
      /\ image.memory = <<>>
  BY DEF Init
<1>3. /\ files \in [Fds -> FdStates] /\ got \in [Fds -> Seq(Nat)] /\ ret \in [Fds -> Int]
  BY <1>1 DEF FdStates, Closed, None
<1>4. aligned \in [Fds -> BOOLEAN]
  BY <1>1, Zenon
<1>5. NUL \in Chars
  BY Zenon DEF Chars
<1>6. ImageType
  <2>1. <<NUL>> \in Seq(Chars) /\ <<>> \in Seq(Chars) /\ <<>> \in Seq(Nat)
    BY <1>5
  <2>2. image["name"] = <<>> /\ image["args"] = <<NUL>> /\ image["memory"] = <<>>
    BY <1>2, Zenon
  <2>3. image.len \in Lengths \cup {0}
    BY <1>2, Zenon
  <2> QED
    BY <1>2, <2>1, <2>2, <2>3, Zenon DEF ImageType
<1>7. \A fd \in Fds : files[fd].fops = "NULL" /\ files[fd].offset = 0
  BY <1>1 DEF Closed
<1>8. TypeOK
  BY <1>3, <1>4, <1>6, <1>7, Zenon DEF TypeOK, FdStates, ImageType
<1>9. FdInv
  BY <1>7 DEF FdInv, FdOK, FileOK, DirectoryOK
<1>10. LoadsWholeProgram
  BY <1>2 DEF LoadsWholeProgram
<1> QED
  BY <1>8, <1>9, <1>10 DEF IInv

\* do_open starts a descriptor from the beginning of its file
LEMMA OpenInv ==
    ASSUME IInv, NEW fd \in Fds, NEW fname, do_open(fd, fname)
    PROVE  IInv'
<1>1. PICK i : i = read_dentry_by_name(fname)
  OBVIOUS
<1>2. i # 0
  BY <1>1, Zenon DEF do_open
<1>3. PICK type : type = Dentries[i].file_type
  OBVIOUS
<1>4. PICK f : f = [fops |-> fops_of[type], len |-> Dentries[i].len, offset |-> 0]
  OBVIOUS
<1>5. /\ files' = [files EXCEPT ![fd] = f] /\ got' = [got EXCEPT ![fd] = <<>>]
      /\ ret' = [ret EXCEPT ![fd] = None] /\ aligned' = [aligned EXCEPT ![fd] = TRUE]
      /\ image' = image
  BY <1>1, <1>3, <1>4, Zenon DEF do_open
<1>6. Dentries[i].len \in Lengths /\ Dentries[i].len \in Nat /\ type \in 0 .. 2
  BY <1>1, <1>2, <1>3, EntryFound, Zenon
<1>7. fops_of[type] \in {"rtc", "dir", "file"}
  <2>1. fops_of[0] = "rtc" /\ fops_of[1] = "dir" /\ fops_of[2] = "file"
    BY DEF fops_of
  <2> QED
    BY <1>6, <2>1
<1>8. FdType(f, <<>>, None, TRUE)
  <2>1. f \in FdStates
    BY <1>4, <1>6, <1>7 DEF FdStates
  <2>2. f.offset = 0
    BY <1>4
  <2>3. <<>> \in Seq(Nat) /\ None \in Int
    BY DEF None
  <2> QED
    BY <2>1, <2>2, <2>3, Zenon DEF FdType
<1>9. FdOK(f, <<>>, None, TRUE)
  <2>1. f.offset = 0 /\ f.len \in Nat
    BY <1>4, <1>6
  <2>2. FileOK(f, <<>>, None, TRUE)
    BY <2>1 DEF FileOK, None
  <2>3. DirectoryOK(f, <<>>, None)
    <3>1. Clip(0, NumDentries) = 0
      <4>1. NumDentries \in Nat
        BY DirectorySize
      <4> QED
        BY <4>1 DEF Clip
    <3>2. [j \in 1 .. 0 |-> j - 1] = <<>>
      OBVIOUS
    <3> QED
      BY <2>1, <3>1, <3>2 DEF DirectoryOK, None
  <2> QED
    BY <2>2, <2>3, Zenon DEF FdOK
<1> QED
  BY <1>5, <1>8, <1>9, FdStep, Zenon

\* do_close leaves a descriptor as init_task made it
LEMMA CloseInv ==
    ASSUME IInv, NEW fd \in Fds, do_close(fd)
    PROVE  IInv'
<1>1. /\ files' = [files EXCEPT ![fd] = Closed] /\ got' = [got EXCEPT ![fd] = <<>>]
      /\ ret' = [ret EXCEPT ![fd] = None] /\ aligned' = [aligned EXCEPT ![fd] = TRUE]
      /\ image' = image
  BY Zenon DEF do_close
<1>2. Closed.fops = "NULL" /\ Closed.offset = 0 /\ Closed \in FdStates
  BY DEF Closed, FdStates
<1>3. <<>> \in Seq(Nat) /\ None \in Int
  BY DEF None
<1>4. FdType(Closed, <<>>, None, TRUE)
  BY <1>2, <1>3, Zenon DEF FdType
<1>5. FdOK(Closed, <<>>, None, TRUE)
  BY <1>2 DEF FdOK, FileOK, DirectoryOK
<1> QED
  BY <1>1, <1>4, <1>5, FdStep, Zenon

\* A read beyond the end changes only what the last read returned
LEMMA EofInv ==
    ASSUME IInv, NEW fd \in Fds, file_read_eof(fd)
    PROVE  IInv'
<1>1. PICK f, g, a : f = files[fd] /\ g = got[fd] /\ a = aligned[fd]
  OBVIOUS
<1>2. FdType(f, g, ret[fd], a) /\ FdOK(f, g, ret[fd], a)
  BY <1>1, FdTypes, Zenon DEF IInv, FdInv
<1>3. /\ f.fops = "file" /\ f.offset >= f.len /\ ret' = [ret EXCEPT ![fd] = 0]
      /\ files' = files /\ got' = got /\ aligned' = aligned /\ image' = image
  BY <1>1, Zenon DEF file_read_eof
<1>4. /\ files' = [files EXCEPT ![fd] = f] /\ got' = [got EXCEPT ![fd] = g]
      /\ aligned' = [aligned EXCEPT ![fd] = a]
  BY <1>1, <1>3, SameFunctions, Zenon
<1>5. FdType(f, g, 0, a)
  <2>1. 0 \in Int
    OBVIOUS
  <2> QED
    BY <1>2, <2>1, Zenon DEF FdType
<1>6. FdOK(f, g, 0, a)
  <2>1. FileOK(f, g, 0, a)
    BY <1>2, <1>3, Zenon DEF FdOK, FileOK
  <2>2. f.fops # "dir"
    BY <1>3
  <2> QED
    BY <1>2, <2>1, <2>2, Zenon DEF FdOK, DirectoryOK
<1> QED
  BY <1>3, <1>4, <1>5, <1>6, FdStep, Zenon

\* directory_read returns the name at offset and moves to the next one
LEMMA DirectoryInv ==
    ASSUME IInv, NEW fd \in Fds, directory_read(fd)
    PROVE  IInv'
<1>1. PICK f, g, a : f = files[fd] /\ g = got[fd] /\ a = aligned[fd]
  OBVIOUS
<1>2. FdType(f, g, ret[fd], a) /\ FdOK(f, g, ret[fd], a)
  BY <1>1, FdTypes, Zenon DEF IInv, FdInv
<1>3. PICK i : i = f.offset
  OBVIOUS
<1>4. PICK h : h = [f EXCEPT !.offset = i + 1]
  OBVIOUS
<1>5. PICK r : r = IF i < NumDentries THEN 1 ELSE 0
  OBVIOUS
<1>6. PICK k : k = IF i < NumDentries THEN Append(g, i) ELSE g
  OBVIOUS
<1>7. f.fops = "dir" /\ i <= NumInodes /\ image' = image /\ aligned' = aligned
      /\ files' = [files EXCEPT ![fd].offset = i + 1]
      /\ ret' = [ret EXCEPT ![fd] = r] /\ got' = [got EXCEPT ![fd] = k]
  BY <1>1, <1>3, <1>5, <1>6, Zenon DEF directory_read
<1>8. files' = [files EXCEPT ![fd] = h] /\ aligned' = [aligned EXCEPT ![fd] = a]
  BY <1>1, <1>4, <1>7, SameFunctions, Zenon
<1>9. f \in FdStates /\ g \in Seq(Nat) /\ a \in BOOLEAN
  BY <1>2, Zenon DEF FdType
<1>10. f.offset \in Nat /\ f.len \in Nat
  BY <1>9, FdFields, Zenon
<1>11. h \in FdStates /\ h.fops = "dir" /\ h.offset = i + 1
  BY <1>3, <1>4, <1>7, <1>9, <1>10 DEF FdStates
<1>12. g = [j \in 1 .. Clip(i, NumDentries) |-> j - 1]
  BY <1>2, <1>3, <1>7, Zenon DEF FdOK, DirectoryOK
<1>13. NumDentries \in Nat
  BY DirectorySize
<1>14. r \in Int /\ k \in Seq(Nat) /\ h.fops # "NULL"
  <2>1. Append(g, i) \in Seq(Nat)
    BY <1>3, <1>9, <1>10
  <2> QED
    BY <1>5, <1>6, <1>9, <1>11, <2>1
<1>15. FdType(h, k, r, a)
  BY <1>9, <1>11, <1>14, Zenon DEF FdType
<1>16. k = [j \in 1 .. Clip(i + 1, NumDentries) |-> j - 1]
  <2>1. CASE i < NumDentries
    <3>1. Clip(i, NumDentries) = i /\ Clip(i + 1, NumDentries) = i + 1
      BY <1>3, <1>10, <1>13, <2>1 DEF Clip
    <3>2. g = [j \in 1 .. i |-> j - 1]
      BY <1>12, <3>1
    <3>3. Append(g, i) = [j \in 1 .. i + 1 |-> j - 1]
      BY <1>3, <1>10, <3>2
    <3> QED
      BY <1>6, <2>1, <3>1, <3>3
  <2>2. CASE ~(i < NumDentries)
    <3>1. Clip(i, NumDentries) = NumDentries /\ Clip(i + 1, NumDentries) = NumDentries
      BY <1>3, <1>10, <1>13, <2>2 DEF Clip
    <3> QED
      BY <1>6, <1>12, <2>2, <3>1
  <2> QED
    BY <2>1, <2>2
<1>17. r = 0 => i + 1 >= NumDentries
  BY <1>3, <1>5, <1>10, <1>13
<1>18. FdOK(h, k, r, a)
  <2>1. h.fops # "file"
    BY <1>11
  <2>2. DirectoryOK(h, k, r)
    BY <1>11, <1>16, <1>17, Zenon DEF DirectoryOK
  <2> QED
    BY <2>1, <2>2, Zenon DEF FdOK, FileOK
<1> QED
  BY <1>7, <1>8, <1>15, <1>18, FdStep, Zenon

\* directory_read past the last inode returns 0, when all names are returned
LEMMA DirectoryEndInv ==
    ASSUME IInv, NEW fd \in Fds, directory_read_end(fd)
    PROVE  IInv'
<1>1. PICK f, g, a : f = files[fd] /\ g = got[fd] /\ a = aligned[fd]
  OBVIOUS
<1>2. FdType(f, g, ret[fd], a) /\ FdOK(f, g, ret[fd], a)
  BY <1>1, FdTypes, Zenon DEF IInv, FdInv
<1>3. /\ f.fops = "dir" /\ f.offset > NumInodes /\ ret' = [ret EXCEPT ![fd] = 0]
      /\ files' = files /\ got' = got /\ aligned' = aligned /\ image' = image
  BY <1>1, Zenon DEF directory_read_end
<1>4. /\ files' = [files EXCEPT ![fd] = f] /\ got' = [got EXCEPT ![fd] = g]
      /\ aligned' = [aligned EXCEPT ![fd] = a]
  BY <1>1, <1>3, SameFunctions, Zenon
<1>5. FdType(f, g, 0, a)
  <2>1. 0 \in Int
    OBVIOUS
  <2> QED
    BY <1>2, <2>1, Zenon DEF FdType
<1>6. FdOK(f, g, 0, a)
  <2>1. f.offset \in Nat
    <3>1. f \in FdStates
      BY <1>2, Zenon DEF FdType
    <3> QED
      BY <3>1, FdFields, Zenon
  <2>2. f.offset >= NumDentries
    BY <1>3, <2>1, DirectorySize
  <2>3. f.fops # "file"
    BY <1>3
  <2> QED
    BY <1>2, <2>2, <2>3, Zenon DEF FdOK, FileOK, DirectoryOK
<1> QED
  BY <1>3, <1>4, <1>5, <1>6, FdStep, Zenon

\* An int32_t and the offset after a read, as uint32_t: nbytes > 0 stays what it
\* is, and the offset of a file that is not at its end cannot overflow
LEMMA UnsignedFacts ==
    ASSUME NEW nbytes \in ReadSizes, NEW len \in Nat, len \in Lengths \cup {0},
           NEW offset \in Nat, offset < len
    PROVE  /\ nbytes \in Int /\ Unsigned(nbytes) \in Nat /\ Unsigned(offset + nbytes) \in Nat
           /\ nbytes > 0 => Unsigned(nbytes) = nbytes
           /\ nbytes > 0 => Unsigned(offset + nbytes) = offset + nbytes
<1>1. SIGN_BIT \in Nat /\ nbytes \in -SIGN_BIT .. SIGN_BIT - 1
  BY FileSysAssumption, Zenon
<1>2. len \in Nat /\ len < SIGN_BIT
  <2>1. len \in Lengths \/ len = 0
    BY Zenon
  <2>2. len # 0
    <3>1. ~(offset < 0)
      OBVIOUS
    <3> QED
      BY <3>1, Zenon
  <2>3. PICK i \in DOMAIN Dentries : len = Dentries[i].len
    BY <2>1, <2>2, Zenon DEF Lengths
  <2>4. Dentries[i].len < SIGN_BIT
    BY FileSysAssumption, Zenon
  <2> QED
    BY <2>3, <2>4, Zenon
<1>3. PICK w : w = 2 * SIGN_BIT
  OBVIOUS
<1>4. w \in Nat \ {0} /\ nbytes \in Int /\ nbytes < w /\ offset + nbytes < w
  BY <1>1, <1>2, <1>3
<1>5. \A x \in Int : x % w \in Nat /\ (x >= 0 /\ x < w => x % w = x)
  BY <1>4
<1>6. nbytes > 0 => nbytes >= 0 /\ offset + nbytes >= 0
  BY <1>4
<1> QED
  BY <1>3, <1>4, <1>5, <1>6 DEF Unsigned

\* file_read: a read that is not plain gives up what was known of the file; a
\* plain one returns the bytes from offset on, at least one, and moves offset
\* as far or beyond the end
LEMMA FileReadInv ==
    ASSUME IInv, NEW fd \in Fds, NEW nbytes \in ReadSizes, file_read(fd, nbytes)
    PROVE  IInv'
<1>1. PICK f, g, a : f = files[fd] /\ g = got[fd] /\ a = aligned[fd]
  OBVIOUS
<1>2. FdType(f, g, ret[fd], a) /\ FdOK(f, g, ret[fd], a)
  BY <1>1, FdTypes, Zenon DEF IInv, FdInv
<1>3. f \in FdStates /\ g \in Seq(Nat) /\ a \in BOOLEAN
  BY <1>2, Zenon DEF FdType
<1>4. PICK len, offset : len = f.len /\ offset = f.offset
  OBVIOUS
<1>5. len \in Nat /\ offset \in Nat
  BY <1>3, <1>4, FdFields, Zenon
<1>6. PICK u, w : u = Unsigned(nbytes) /\ w = Unsigned(offset + nbytes)
  OBVIOUS
<1>7. len \in Lengths \cup {0} /\ offset < len
  <2>1. f.fops = "file" /\ offset < len
    BY <1>1, <1>4, Zenon DEF file_read
  <2> QED
    BY <1>3, <1>4, <2>1 DEF FdStates
<1>8. /\ nbytes \in Int /\ u \in Nat /\ w \in Nat
      /\ nbytes > 0 => u = nbytes /\ w = offset + nbytes
  BY <1>6, <1>5, <1>7, UnsignedFacts, Zenon
<1>9. PICK length : length = Clip(u, len)
  OBVIOUS
<1>10. length \in Nat /\ length <= u /\ length <= len /\ (u <= len => length = u)
      /\ (u > len => length = len)
  BY <1>5, <1>9, <1>8 DEF Clip
<1>11. PICK r : r = read_data(len, offset, length)
  OBVIOUS
<1>12. r.ret \in Int /\ r.out \in Seq(Nat)
  BY <1>5, <1>10, <1>11, ReadDataType, Zenon
<1>13. PICK inside : inside = offset % B
  OBVIOUS
<1>14. PICK plain \in BOOLEAN :
         plain = (a /\ nbytes > 0 /\ (inside = 0 \/ inside + length <= B))
  OBVIOUS
<1>15. PICK h : h = IF r.ret = -1 THEN f ELSE [f EXCEPT !.offset = w]
  OBVIOUS
<1>16. PICK k : k = IF plain THEN g \o SubSeq(r.out, 1, r.ret) ELSE <<>>
  OBVIOUS
<1>17. /\ f.fops = "file" /\ offset < len /\ image' = image
       /\ ret' = [ret EXCEPT ![fd] = r.ret] /\ aligned' = [aligned EXCEPT ![fd] = plain]
       /\ got' = [got EXCEPT ![fd] = k]
       /\ files' = IF r.ret = -1 THEN files
                   ELSE [files EXCEPT ![fd].offset = w]
  BY <1>6, <1>1, <1>4, <1>9, <1>11, <1>13, <1>14, <1>16, Zenon DEF file_read, ReadLength, B
<1>18. files' = [files EXCEPT ![fd] = h]
  <2>1. CASE r.ret = -1
    BY <1>1, <1>15, <1>17, <2>1, SameFunctions, Zenon
  <2>2. CASE r.ret # -1
    <3>1. files' = [files EXCEPT ![fd].offset = w]
          /\ h = [f EXCEPT !.offset = w]
      BY <1>15, <1>17, <2>2, Zenon
    <3> QED
      BY <1>1, <3>1, Zenon
  <2> QED
    BY <2>1, <2>2
<1>19. h \in FdStates /\ h.fops = "file" /\ h.len = len
       /\ (r.ret # -1 => h.offset = w)
  <2>1. PICK j : j = [f EXCEPT !.offset = w]
    OBVIOUS
  <2>2. j \in FdStates /\ j.fops = "file" /\ j.len = len /\ j.offset = w
    BY <1>3, <1>4, <1>8, <1>17, <2>1 DEF FdStates
  <2>3. h = IF r.ret = -1 THEN f ELSE j
    BY <1>15, <2>1, Zenon
  <2> QED
    BY <1>3, <1>4, <1>17, <2>2, <2>3, Zenon
<1>20. h.fops # "NULL" /\ h.fops # "dir"
  BY <1>19
<1>21. CASE ~plain
  <2>1. k = <<>>
    BY <1>16, <1>21
  <2>2. <<>> \in Seq(Nat)
    OBVIOUS
  <2>3. FdType(h, k, r.ret, plain)
    BY <1>12, <1>19, <1>20, <2>1, <2>2, Zenon DEF FdType
  <2>4. FdOK(h, k, r.ret, plain)
    BY <1>20, <1>21, Zenon DEF FdOK, FileOK, DirectoryOK
  <2> QED
    BY <1>17, <1>18, <2>3, <2>4, FdStep, Zenon
<1>22. CASE plain
  <2>1. a /\ (inside = 0 \/ inside + length <= B)
    BY <1>14, <1>22, Zenon
  <2>2. nbytes \in Nat \ {0} /\ u = nbytes /\ w = offset + nbytes
    <3>1. nbytes > 0
      BY <1>14, <1>22, Zenon
    <3> QED
      BY <1>8, <3>1
  <2>3. PICK b : b = num_blocks(len)
    OBVIOUS
  <2>4. b \in Nat /\ b * B > len /\ B \in Nat
    BY <1>5, <2>3, BlocksHoldFile, SizeFacts
  <2>5. PICK total : total = b * B - offset
    OBVIOUS
  <2>6. total \in Nat \ {0} /\ b * B = offset + total /\ total > 1 /\ offset + total > len
    BY <1>5, <1>17, <2>4, <2>5
  <2>7. /\ length < total => r.ret = length /\ r.out = Bytes(offset, length)
        /\ length >= total => r.ret = total - 1 /\ r.out = Bytes(offset, total)
    <3>1. num_blocks(len) * B = offset + total
      BY <2>3, <2>6
    <3>2. offset % B = 0 \/ (offset % B) + length <= B
      BY <1>13, <2>1
    <3>3. PlainResult(r, offset, length, total)
      BY <1>5, <1>10, <1>11, <2>6, <3>1, <3>2, PlainRead
    <3> QED
      BY <3>3 DEF PlainResult
  <2>8. PICK n : n = r.ret
    OBVIOUS
  <2>9. n \in Nat /\ n > 0 /\ \E m \in Nat : m >= n /\ r.out = Bytes(offset, m)
    BY <1>5, <1>10, <1>17, <2>2, <2>6, <2>7, <2>8
  <2>10. SubSeq(r.out, 1, n) = Bytes(offset, n)
    <3>1. PICK m \in Nat : m >= n /\ r.out = Bytes(offset, m)
      BY <2>9
    <3> QED
      BY <1>5, <2>9, <3>1 DEF Bytes
  <2>11. (\A j \in DOMAIN g : g[j] = j - 1) /\ Len(g) = offset
    BY <1>2, <1>4, <1>17, <2>1, Zenon DEF FdOK, FileOK
  <2>12. k = g \o Bytes(offset, n)
    BY <1>16, <1>22, <2>8, <2>10, Zenon
  <2>13. k \in Seq(Nat) /\ Len(k) = offset + n /\ \A j \in DOMAIN k : k[j] = j - 1
    <3>0. PICK q : q = Bytes(offset, n)
      OBVIOUS
    <3>1. q \in Seq(Nat) /\ Len(q) = n
      BY <1>5, <2>9, <3>0 DEF Bytes
    <3>2. \A j \in 1 .. n : q[j] = offset + j - 1
      BY <1>5, <2>9, <3>0 DEF Bytes
    <3>3. k = g \o q
      BY <2>12, <3>0
    <3>4. k \in Seq(Nat) /\ Len(k) = offset + n
      BY <1>3, <2>11, <3>1, <3>3, ConcatProperties
    <3>5. DOMAIN g = 1 .. offset /\ DOMAIN k = 1 .. offset + n
      BY <1>3, <2>11, <3>4, LenProperties
    <3>6. ASSUME NEW j \in 1 .. offset + n PROVE k[j] = j - 1
      <4>1. j \in 1 .. Len(g) + Len(q)
        BY <2>11, <3>1
      <4>2. k[j] = IF j <= Len(g) THEN g[j] ELSE q[j - Len(g)]
        BY <1>3, <3>1, <3>3, <4>1, ConcatProperties
      <4>3. k[j] = IF j <= offset THEN g[j] ELSE q[j - offset]
        BY <2>11, <4>2, Zenon
      <4>4. CASE j <= offset
        <5>1. j \in DOMAIN g
          BY <1>5, <3>5, <4>4
        <5> QED
          BY <2>11, <4>3, <4>4, <5>1, Zenon
      <4>5. CASE ~(j <= offset)
        <5>1. j - offset \in 1 .. n /\ offset + (j - offset) - 1 = j - 1
          BY <1>5, <2>9, <4>5
        <5> QED
          BY <3>2, <4>3, <4>5, <5>1
      <4> QED
        BY <4>4, <4>5
    <3> QED
      BY <3>4, <3>5, <3>6
  <2>14. h.offset = offset + nbytes
    BY <1>19, <2>2, <2>8, <2>9
  <2>15. /\ offset + nbytes < len => offset + n = offset + nbytes
         /\ offset + nbytes >= len => offset + n >= len
    BY <1>5, <1>10, <1>17, <2>2, <2>6, <2>7, <2>8
  <2>16. FdType(h, k, r.ret, plain)
    BY <1>12, <1>19, <1>20, <2>13, Zenon DEF FdType
  <2>17. r.ret # 0
    BY <2>8, <2>9
  <2>18. FileOK(h, k, r.ret, plain)
    BY <1>19, <2>13, <2>14, <2>15, <2>17, Zenon DEF FileOK
  <2>19. FdOK(h, k, r.ret, plain)
    BY <1>20, <1>22, <2>18, Zenon DEF FdOK, DirectoryOK
  <2> QED
    BY <1>17, <1>18, <2>16, <2>19, FdStep, Zenon
<1> QED
  BY <1>21, <1>22

\* load_program puts the bytes of the file's blocks in their places
LEMMA LoadsBlocks ==
    ASSUME NEW fname, read_dentry_by_name(fname) # 0, NEW len,
           len = Dentries[read_dentry_by_name(fname)].len
    PROVE  \E n \in Nat : n > len /\ load_program(fname) = Bytes(0, n)
<1>1. len \in Nat
  BY EntryFound, Zenon
<1>2. PICK b : b = num_blocks(len)
  OBVIOUS
<1>3. b \in Nat /\ b * B > len /\ b * B <= len + B /\ B \in Nat /\ B > 0
  BY <1>1, <1>2, BlocksHoldFile, SizeFacts
<1>4. PICK total : total = b * B
  OBVIOUS
<1>5. PICK length : length = len + 2 * B
  OBVIOUS
<1>6. total \in Nat \ {0} /\ total > len /\ length \in Nat /\ length >= total
      /\ num_blocks(len) * B = 0 + total
  BY <1>1, <1>2, <1>3, <1>4, <1>5
<1>7. 0 % B = 0
  <2>1. 0 = 0 * B + 0 /\ 0 \in 0 .. B - 1
    BY <1>3
  <2> QED
    BY <2>1, DivModUnique
<1>8. PICK r : r = read_data(len, 0, length)
  OBVIOUS
<1>9. PlainResult(r, 0, length, total)
  BY <1>1, <1>6, <1>7, <1>8, PlainRead
<1>10. r.out = Bytes(0, total)
  BY <1>6, <1>9 DEF PlainResult
<1>11. load_program(fname) = r.out
  BY <1>5, <1>8, Zenon DEF load_program, B
<1> QED
  BY <1>6, <1>10, <1>11

\* do_execute starts a program with its whole file and two texts
LEMMA ExecuteInv ==
    ASSUME IInv, NEW task \in Tasks, do_execute(task)
    PROVE  IInv'
<1>1. PICK memory \in Lines : /\ ~CannotLoad(do_execute_parse(memory).programName)
                              /\ task = Task(memory)
  BY Zenon DEF Tasks
<1>2. memory \in Seq(Chars)
  BY LinesType
<1>3. PICK line : line = do_execute_parse(memory)
  OBVIOUS
<1>4. line.programName \in Seq(Chars) /\ line.argsBuffer \in Seq(Chars)
  BY <1>2, <1>3, ParseType, Zenon
<1>5. PICK name : name = line.programName
  OBVIOUS
<1>6. PICK i : i = read_dentry_by_name(name)
  OBVIOUS
<1>7. i # 0
  BY <1>1, <1>3, <1>5, <1>6, Zenon DEF CannotLoad
<1>8. PICK len : len = Dentries[i].len
  OBVIOUS
<1>9. len \in Lengths /\ len \in Nat
  BY <1>6, <1>7, <1>8, EntryFound, Zenon
<1>10. PICK data : data = load_program(name)
  OBVIOUS
<1>11. PICK n \in Nat : n > len /\ data = Bytes(0, n)
  BY <1>6, <1>7, <1>8, <1>10, LoadsBlocks, Zenon
<1>12. image' = [len |-> len, data |-> data, name |-> name, args |-> line.argsBuffer,
                 memory |-> memory]
  BY <1>1, <1>3, <1>5, <1>6, <1>8, <1>10, Zenon DEF do_execute, Task
<1>13. /\ image'.len = len /\ image'.data = data /\ image'["name"] = name
       /\ image'["args"] = line.argsBuffer /\ image'["memory"] = memory
  BY <1>12
<1>14. data \in Seq(Nat) /\ \A j \in 1 .. len : j \in DOMAIN data /\ data[j] = j - 1
  BY <1>9, <1>11 DEF Bytes
<1>15. ImageType'
  BY <1>2, <1>4, <1>5, <1>9, <1>13, <1>14, Zenon DEF ImageType
<1>16. LoadsWholeProgram'
  BY <1>13, <1>14, Zenon DEF LoadsWholeProgram
<1>17. files' = files /\ got' = got /\ ret' = ret /\ aligned' = aligned
  BY Zenon DEF do_execute
<1>18. TypeOK'
  BY <1>15, <1>17, Zenon DEF IInv, TypeOK, ImageType
<1>19. FdInv'
  BY <1>17, Zenon DEF IInv, FdInv
<1> QED
  BY <1>16, <1>18, <1>19 DEF IInv

\* Every step keeps the invariant
LEMMA StepInv == IInv /\ [Next]_vars => IInv'
<1> SUFFICES ASSUME IInv, [Next]_vars PROVE IInv'
  OBVIOUS
<1>1. CASE UNCHANGED vars
  BY <1>1, Zenon DEF vars, IInv, TypeOK, FdInv, LoadsWholeProgram
<1>2. ASSUME NEW fd \in Fds, NEW fname \in Names, do_open(fd, fname) PROVE IInv'
  BY <1>2, OpenInv
<1>3. ASSUME NEW fd \in Fds, do_close(fd) PROVE IInv'
  BY <1>3, CloseInv
<1>4. ASSUME NEW fd \in Fds, file_read_eof(fd) PROVE IInv'
  BY <1>4, EofInv
<1>5. ASSUME NEW fd \in Fds, directory_read(fd) PROVE IInv'
  BY <1>5, DirectoryInv
<1>6. ASSUME NEW fd \in Fds, directory_read_end(fd) PROVE IInv'
  BY <1>6, DirectoryEndInv
<1>7. ASSUME NEW fd \in Fds, NEW nbytes \in ReadSizes, file_read(fd, nbytes) PROVE IInv'
  BY <1>7, FileReadInv
<1>8. ASSUME NEW task \in Tasks, do_execute(task) PROVE IInv'
  BY <1>8, ExecuteInv
<1> QED
  BY <1>1, <1>2, <1>3, <1>4, <1>5, <1>6, <1>7, <1>8, Zenon DEF Next

\* The invariant holds of every behaviour of the file system
THEOREM Invariance == Spec => []IInv
<1>1. Init => IInv
  BY InitInv
<1>2. IInv /\ [Next]_vars => IInv'
  BY StepInv
<1> QED
  BY <1>1, <1>2, PTL DEF Spec

\* Descriptors, the loaded program and its arguments keep their types, and a
\* closed descriptor (do_close) keeps no offset
THEOREM TypeCorrect == Spec => []TypeOK
<1>1. IInv => TypeOK
  BY DEF IInv
<1> QED
  BY <1>1, Invariance, PTL

\* Successive reads (file_read, read_data) return the bytes of the file in
\* order, for every length, block size and sequence of positive read sizes in
\* which no read starts inside a block and goes on into the next
THEOREM FileInOrder == Spec => []ReadsInOrder
<1>1. IInv => ReadsInOrder
  BY Zenon DEF IInv, FdInv, FdOK, FileOK, ReadsInOrder
<1> QED
  BY <1>1, Invariance, PTL

\* Such reads (file_read) return 0 only when the whole file has been returned
THEOREM EofCorrect == Spec => []WholeFileAtEof
<1>1. IInv => WholeFileAtEof
  BY Zenon DEF IInv, FdInv, FdOK, FileOK, WholeFileAtEof
<1> QED
  BY <1>1, Invariance, PTL

\* directory_read returns 0 only when every name has been returned, in order
THEOREM DirectoryCorrect == Spec => []DirectoryListed
<1>1. IInv => DirectoryListed
  <2> SUFFICES ASSUME IInv, NEW fd \in Fds, files[fd].fops = "dir", ret[fd] = 0
               PROVE  got[fd] = [i \in 1 .. NumDentries |-> i - 1]
    BY Zenon DEF DirectoryListed
  <2>1. DirectoryOK(files[fd], got[fd], ret[fd])
        /\ FdType(files[fd], got[fd], ret[fd], aligned[fd])
    BY FdTypes, Zenon DEF IInv, FdInv, FdOK
  <2>2. PICK n : n = files[fd].offset
    OBVIOUS
  <2>3. n \in Nat
    BY <2>1, <2>2, FdFields, Zenon DEF FdType
  <2>4. got[fd] = [i \in 1 .. Clip(n, NumDentries) |-> i - 1] /\ n >= NumDentries
    BY <2>1, <2>2, Zenon DEF DirectoryOK
  <2>5. Clip(n, NumDentries) = NumDentries
    BY <2>3, <2>4, DirectorySize DEF Clip
  <2> QED
    BY <2>4, <2>5
<1> QED
  BY <1>1, Invariance, PTL

\* load_program copies the whole file, whatever its length
THEOREM LoadCorrect == Spec => []LoadsWholeProgram
<1>1. IInv => LoadsWholeProgram
  BY DEF IInv
<1> QED
  BY <1>1, Invariance, PTL

\* RunsCommandLine says it of the program that do_execute started
LEMMA RunsAnswers ==
    /\ RunsCommandLine <=> Answers(image.name, image.args, image.memory)
    /\ RunsCommandLine' <=> Answers(image'.name, image'.args, image'.memory)
BY Zenon DEF RunsCommandLine, Answers

\* The program that do_execute starts and the arguments that do_getargs hands
\* out are the ones its command means, for every command that does not end with
\* a space before a newline, and whatever earlier lines have left behind it
THEOREM CommandCorrect == Spec => []RunsCommandLine
<1>1. Init => RunsCommandLine
  <2> SUFFICES ASSUME Init PROVE RunsCommandLine
    OBVIOUS
  <2>1. image.name = <<>> /\ image.args = <<NUL>> /\ image.memory = <<>>
    BY DEF Init
  <2>2. PICK line : line = do_execute_parse(<<>>)
    OBVIOUS
  <2>3. line.programName = <<>> /\ line.argsBuffer = <<NUL>>
    BY <2>2, ParseNothing, Zenon
  <2>4. <<>> \in Seq(Chars)
    BY EmptySeq, Zenon
  <2>5. Answers(line.programName, line.argsBuffer, <<>>)
    BY <2>2, <2>4, ParseAnswers, Zenon
  <2> QED
    BY <2>1, <2>3, <2>5, RunsAnswers, Zenon
<1>2. RunsCommandLine /\ [Next]_vars => RunsCommandLine'
  <2> SUFFICES ASSUME RunsCommandLine, [Next]_vars PROVE RunsCommandLine'
    OBVIOUS
  <2>1. CASE image' = image
    BY <2>1, RunsAnswers, Zenon
  <2>2. ASSUME NEW task \in Tasks, do_execute(task) PROVE RunsCommandLine'
    <3>1. PICK memory \in Lines : task = Task(memory)
      BY Zenon DEF Tasks
    <3>2. memory \in Seq(Chars)
      BY LinesType
    <3>3. PICK line : line = do_execute_parse(memory)
      OBVIOUS
    <3>4. PICK len, data : image' = [len |-> len, data |-> data, name |-> line.programName,
                                     args |-> line.argsBuffer, memory |-> memory]
      BY <2>2, <3>1, <3>3, Zenon DEF do_execute, Task
    <3>5. /\ image'.name = line.programName /\ image'.args = line.argsBuffer
          /\ image'.memory = memory
      BY <3>4
    <3>6. Answers(line.programName, line.argsBuffer, memory)
      BY <3>2, <3>3, ParseAnswers, Zenon
    <3> QED
      BY <3>5, <3>6, RunsAnswers, Zenon
  <2>3. image' = image \/ \E task \in Tasks : do_execute(task)
    BY Zenon DEF Next, vars, do_open, do_close, file_read_eof, directory_read,
                 directory_read_end, file_read
  <2> QED
    BY <2>1, <2>2, <2>3, Zenon
<1> QED
  BY <1>1, <1>2, PTL DEF Spec
=============================================================================
