------------------------ MODULE LineTransportProofs ------------------------
(***************************************************************************)
(* The line stream, the assembler and the codec keep the promise of         *)
(* FrameChannel, for every traffic, every set of commands, every limit the  *)
(* assembler may have and any number of connections.                        *)
(*                                                                          *)
(* The argument: what the assembler holds and what is on the wire behind it *)
(* is one sequence of tokens, buffer \o wire, and this sequence is sound:   *)
(* every stretch of it that the assembler will hold when an LF comes is     *)
(* taken for what that LF means.  The server and the device append whole    *)
(* lines to it (SoundConcat), a connection that breaks leaves a first part  *)
(* of it (SoundPrefix) and perhaps half a byte (SoundHalf), reading moves   *)
(* the boundary between the two or, at the limit, drops a token             *)
(* (SoundDrop), and an LF takes the line in front of it away (SoundRest).   *)
(* The hard part is the greeting, which stands behind what an earlier       *)
(* connection left of a line (SoundWord), and messages that are longer than *)
(* the limit (SoundReceive).                                                *)
(*                                                                          *)
(* What is needed of Without, which is recursive, is proved by induction,   *)
(* from the least element of a set of naturals (LeastNatural).              *)
(***************************************************************************)
EXTENDS LineTransport, SequenceTheorems, WellFoundedInduction, TLAPS
-----------------------------------------------------------------------------
(* The encoders and the decoder agree on every turnout. *)

\* Seven bits and the bits above them make up a number.
LEMMA SevenBits ==
  ASSUME NEW n \in Int
  PROVE  n = 128 * (n \div 128) + (n % 128)
  OBVIOUS

\* The two address bytes of an address are 7 and 4 bits wide and hold all of it.
LEMMA AddressBytes ==
  ASSUME NEW address \in Addresses
  PROVE  /\ AddressLow(address) \in 0..127
         /\ AddressHigh(address) \in 0..15
         /\ AddressHigh(address) * 128 + AddressLow(address) + 1 = address
  <1>1. PICK n \in 0..2047 : n = address - 1
    BY DEF Addresses, HighestAddress
  <1>2. n \div 128 \in 0..15 /\ (n \div 128) % 16 = n \div 128
    OBVIOUS
  <1>3. n % 128 \in 0..127
    OBVIOUS
  <1>4. n = 128 * (n \div 128) + (n % 128)
    <2>1. n \in Int
      OBVIOUS
    <2> QED
      BY <2>1, SevenBits
  <1> QED
    BY <1>1, <1>2, <1>3, <1>4 DEF AddressLow, AddressHigh, Addresses, HighestAddress

\* Adding the direction and the output bit leaves the address bits alone, and
\* the direction bit can be read back.
LEMMA FlagBits ==
  ASSUME NEW high \in 0..15, NEW closed \in BOOLEAN, NEW on \in BOOLEAN,
         NEW byte,
         byte = high + (IF closed THEN kClosedBit ELSE 0)
                     + (IF on THEN kOutputOnBit ELSE 0)
  PROVE  /\ byte \in 0..63
         /\ byte % 16 = high
         /\ HasBit(byte, kClosedBit) <=> closed
         /\ ~HasBit(byte, kSwRepInputs)
  <1> USE DEF kClosedBit, kOutputOnBit, kSwRepInputs, HasBit
  <1>1. CASE closed /\ on
    BY <1>1
  <1>2. CASE closed /\ ~on
    BY <1>2
  <1>3. CASE ~closed /\ on
    BY <1>3
  <1>4. CASE ~closed /\ ~on
    BY <1>4
  <1> QED
    BY <1>1, <1>2, <1>3, <1>4

\* Appending keeps what was there.
LEMMA AppendKeeps ==
  ASSUME NEW S, NEW seq \in Seq(S), NEW elt \in S, NEW i \in 1..Len(seq)
  PROVE  Append(seq, elt)[i] = seq[i]
  BY AppendProperties

\* A checksum behind three bytes leaves them where they are.
LEMMA ChecksumIsLast ==
  ASSUME NEW x \in Nat, NEW y \in Nat, NEW z \in Nat
  PROVE  /\ Len(WithChecksum(<<x, y, z>>)) = 4
         /\ WithChecksum(<<x, y, z>>)[1] = x
         /\ WithChecksum(<<x, y, z>>)[2] = y
         /\ WithChecksum(<<x, y, z>>)[3] = z
  <1>1. PICK bytes, sum, S : /\ bytes = <<x, y, z>>
                             /\ sum = Checksum(bytes)
                             /\ S = Nat \cup {sum}
    OBVIOUS
  <1>2. bytes \in Seq(S) /\ Len(bytes) = 3 /\ sum \in S
    BY <1>1
  <1>3. WithChecksum(<<x, y, z>>) = Append(bytes, sum)
    BY <1>1 DEF WithChecksum
  <1>4. Len(Append(bytes, sum)) = 4
    <2>1. Len(Append(bytes, sum)) = Len(bytes) + 1
      BY <1>2, AppendProperties
    <2> QED
      BY <1>2, <2>1
  <1>5. \A i \in 1..3 : Append(bytes, sum)[i] = bytes[i]
    <2> TAKE i \in 1..3
    <2>1. i \in 1..Len(bytes)
      BY <1>2
    <2> QED
      BY <1>2, <2>1, AppendKeeps
  <1> QED
    BY <1>1, <1>3, <1>4, <1>5

\* What buildSwReq() puts into a frame is what the decoder takes out of it, for
\* each of the 2048 turnouts, both positions, and the on and the off message:
\* an echoed command is published as the command it was.
THEOREM CommandsReadBack ==
  ASSUME NEW address \in Addresses, NEW position \in Positions, NEW on \in BOOLEAN
  PROVE  EventFrom(SwReqFrame(address, position, on)) = SwitchEvent(address, position)
  <1> DEFINE third == AddressHigh(address)
                        + (IF position = Closed THEN kClosedBit ELSE 0)
                        + (IF on THEN kOutputOnBit ELSE 0)
             frame == SwReqFrame(address, position, on)
  <1>1. third \in Nat /\ AddressLow(address) \in Nat
    BY AddressBytes DEF kClosedBit, kOutputOnBit
  <1>2. /\ Len(frame) = 4
        /\ frame[1] = kOpcSwReq
        /\ frame[2] = AddressLow(address)
        /\ frame[3] = third
    BY <1>1, ChecksumIsLast DEF SwReqFrame, kOpcSwReq
  <1>3. AddressLow(address) \in 0..127 /\ AddressHigh(address) \in 0..15
    BY AddressBytes
  <1>4. third % 16 = AddressHigh(address) /\ (HasBit(third, kClosedBit) <=> position = Closed)
    <2>1. PICK closed \in BOOLEAN : closed <=> position = Closed
      OBVIOUS
    <2>2. third = AddressHigh(address) + (IF closed THEN kClosedBit ELSE 0)
                                       + (IF on THEN kOutputOnBit ELSE 0)
      BY <2>1
    <2> QED
      BY <2>1, <2>2, <1>3, FlagBits
  <1>5. AddressFrom(frame) = address
    <2>1. AddressFrom(frame) = AddressHigh(address) * 128 + AddressLow(address) + 1
      BY <1>2, <1>3, <1>4 DEF AddressFrom
    <2> QED
      BY <2>1, AddressBytes
  <1>6. PositionFrom(frame) = position
    BY <1>2, <1>4 DEF PositionFrom, Positions, Closed, Thrown
  <1>7. ~IsSensorReport(frame) /\ CanDecode(frame) /\ frame[1] # kOpcLongAck
    BY <1>2 DEF IsSensorReport, CanDecode, kOpcSwReq, kOpcSwRep, kOpcLongAck
  <1> QED
    BY <1>2, <1>5, <1>6, <1>7 DEF EventFrom

\* The request for a turnout's state names that turnout by the same two bytes as
\* a command to it, and no two turnouts share them.
THEOREM RequestsNameOneTurnout ==
  ASSUME NEW a \in Addresses, NEW b \in Addresses,
         SwStateFrame(a) = SwStateFrame(b)
  PROVE  a = b
  <1>1. AddressLow(a) = AddressLow(b) /\ AddressHigh(a) = AddressHigh(b)
    <2>1. \A address \in Addresses :
            SwStateFrame(address)[2] = AddressLow(address)
            /\ SwStateFrame(address)[3] = AddressHigh(address)
      <3> TAKE address \in Addresses
      <3>1. AddressLow(address) \in Nat /\ AddressHigh(address) \in Nat
        BY AddressBytes
      <3> QED
        BY <3>1, ChecksumIsLast DEF SwStateFrame, kOpcSwState
    <2> QED
      BY <2>1
  <1> QED
    BY <1>1, AddressBytes

-----------------------------------------------------------------------------
(* Induction, and what Without does. *)

\* A set of natural numbers has a least element.
LEMMA LeastNatural ==
  ASSUME NEW T \in SUBSET Nat, T # {}
  PROVE  \E n \in T : \A m \in T : n <= m
  <1> DEFINE R == OpToRel(<, Nat)
  <1>1. IsWellFoundedOn(R, Nat)
    BY NatLessThanWellFounded
  <1>2. \A m, n \in Nat : m < n => <<m, n>> \in R
    BY DEF OpToRel
  <1> HIDE DEF R
  <1>3. PICK n \in T : \A m \in T : ~(<<m, n>> \in R)
    BY <1>1, WFMin
  <1> SUFFICES ASSUME NEW m \in T PROVE n <= m
    OBVIOUS
  <1>4. m \in Nat /\ n \in Nat /\ ~(m < n)
    BY <1>2, <1>3
  <1> QED
    BY <1>4

\* f is the recursive function inside Without, up to N elements.
IsKept(f, s, x, N) ==
  f = [n \in 0..N |-> IF n = 0 THEN <<>>
                      ELSE IF s[n] = x THEN f[n - 1] ELSE Append(f[n - 1], s[n])]

\* Such a function exists for every length.
LEMMA KeptExists ==
  ASSUME NEW s, NEW x, NEW N \in Nat
  PROVE  \E f : IsKept(f, s, x, N)
  <1> DEFINE Bad == {n \in Nat : ~\E f : IsKept(f, s, x, n)}
  <1> SUFFICES ASSUME Bad # {} PROVE FALSE
    OBVIOUS
  <1>1. PICK n \in Bad : \A m \in Bad : n <= m
    <2>1. Bad \in SUBSET Nat /\ Bad # {}
      OBVIOUS
    <2> HIDE DEF Bad
    <2> QED
      BY <2>1, LeastNatural
  <1>2. n # 0
    <2>1. IsKept([k \in 0..0 |-> <<>>], s, x, 0)
      BY DEF IsKept
    <2> QED
      BY <2>1
  <1>3. n - 1 \in Nat /\ n \in Nat
    BY <1>2
  <1>4. n - 1 \notin Bad
    BY <1>1, <1>3
  <1>5. PICK f : IsKept(f, s, x, n - 1)
    BY <1>3, <1>4
  <1> DEFINE last == IF s[n] = x THEN f[n - 1] ELSE Append(f[n - 1], s[n])
             g == [k \in 0..n |-> IF k = n THEN last ELSE f[k]]
  <1>6. IsKept(g, s, x, n)
    <2>1. \A k \in 0..n : g[k] = IF k = 0 THEN <<>>
                                 ELSE IF s[k] = x THEN g[k - 1] ELSE Append(g[k - 1], s[k])
      <3> TAKE k \in 0..n
      <3>1. CASE k = n
        <4>1. g[k] = last /\ g[k - 1] = f[n - 1]
          BY <3>1, <1>3
        <4> QED
          BY <3>1, <4>1, <1>2
      <3>2. CASE k # n
        <4>1. k \in 0..(n - 1)
          BY <3>2, <1>3
        <4>2. f[k] = IF k = 0 THEN <<>>
                     ELSE IF s[k] = x THEN f[k - 1] ELSE Append(f[k - 1], s[k])
          BY <1>5, <4>1 DEF IsKept
        <4>3. g[k] = f[k] /\ (k # 0 => g[k - 1] = f[k - 1])
          BY <4>1, <3>2, <1>3
        <4> QED
          BY <4>2, <4>3
      <3> QED
        BY <3>1, <3>2
    <2> QED
      BY <2>1, Zenon DEF IsKept
  <1> QED
    BY <1>6

\* Without is its last value.
LEMMA WithoutIsKept ==
  ASSUME NEW s, NEW x, Len(s) \in Nat
  PROVE  \E f : IsKept(f, s, x, Len(s)) /\ Without(s, x) = f[Len(s)]
  <1>1. PICK g : IsKept(g, s, x, Len(s))
    BY KeptExists
  <1>2. IsKept(CHOOSE f : IsKept(f, s, x, Len(s)), s, x, Len(s))
    BY <1>1
  <1>3. Without(s, x) = (CHOOSE f : IsKept(f, s, x, Len(s)))[Len(s)]
    BY DEF Without, IsKept
  <1> QED
    BY <1>2, <1>3

\* Two of these functions agree as long as their sequences do.
LEMMA KeptAgree ==
  ASSUME NEW f, NEW g, NEW s, NEW r, NEW x, NEW N \in Nat, NEW M \in Nat, N <= M,
         IsKept(f, s, x, N), IsKept(g, r, x, M), \A n \in 1..N : s[n] = r[n]
  PROVE  \A n \in 0..N : f[n] = g[n]
  <1> DEFINE Bad == {n \in 0..N : f[n] # g[n]}
  <1> SUFFICES ASSUME Bad # {} PROVE FALSE
    OBVIOUS
  <1>1. PICK n \in Bad : \A m \in Bad : n <= m
    <2>1. Bad \in SUBSET Nat /\ Bad # {}
      OBVIOUS
    <2> HIDE DEF Bad
    <2> QED
      BY <2>1, LeastNatural
  <1>2. n \in 0..N /\ n \in 0..M
    OBVIOUS
  <1>3. f[n] = IF n = 0 THEN <<>>
               ELSE IF s[n] = x THEN f[n - 1] ELSE Append(f[n - 1], s[n])
    BY <1>2 DEF IsKept
  <1>4. g[n] = IF n = 0 THEN <<>>
               ELSE IF r[n] = x THEN g[n - 1] ELSE Append(g[n - 1], r[n])
    BY <1>2 DEF IsKept
  <1>5. n # 0
    BY <1>3, <1>4
  <1>6. n - 1 \in 0..N /\ n \in 1..N
    BY <1>2, <1>5
  <1>7. f[n - 1] = g[n - 1]
    BY <1>1, <1>6
  <1> QED
    BY <1>3, <1>4, <1>6, <1>7

\* Of nothing, nothing is left.
LEMMA WithoutEmpty ==
  ASSUME NEW x
  PROVE  Without(<<>>, x) = <<>>
  <1>1. Len(<<>>) = 0
    OBVIOUS
  <1>2. PICK f : IsKept(f, <<>>, x, 0) /\ Without(<<>>, x) = f[0]
    BY <1>1, WithoutIsKept
  <1> QED
    BY <1>2 DEF IsKept

\* One more element is kept or left out.
LEMMA WithoutAppend ==
  ASSUME NEW S, NEW s \in Seq(S), NEW e \in S, NEW x
  PROVE  Without(Append(s, e), x) = IF e = x THEN Without(s, x)
                                    ELSE Append(Without(s, x), e)
  <1> DEFINE r == Append(s, e)
             N == Len(s)
  <1>1. N \in Nat /\ r \in Seq(S) /\ Len(r) = N + 1 /\ r[N + 1] = e
        /\ \A n \in 1..N : s[n] = r[n]
    BY AppendProperties
  <1>2. PICK f : IsKept(f, s, x, N) /\ Without(s, x) = f[N]
    BY <1>1, WithoutIsKept
  <1>3. PICK g : IsKept(g, r, x, N + 1) /\ Without(r, x) = g[N + 1]
    <2>1. Len(r) \in Nat
      BY <1>1
    <2> HIDE DEF r
    <2> QED
      BY <2>1, <1>1, WithoutIsKept
  <1> HIDE DEF r, N
  <1>4. f[N] = g[N]
    <2>1. \A n \in 0..N : f[n] = g[n]
      <3>1. N + 1 \in Nat /\ N <= N + 1
        BY <1>1
      <3> QED
        BY <1>1, <1>2, <1>3, <3>1, KeptAgree
    <2> QED
      BY <2>1, <1>1
  <1>5. g[N + 1] = IF r[N + 1] = x THEN g[N] ELSE Append(g[N], r[N + 1])
    <2>1. N + 1 \in 0..(N + 1) /\ N + 1 # 0 /\ (N + 1) - 1 = N
      BY <1>1
    <2>2. g[N + 1] = IF N + 1 = 0 THEN <<>>
                     ELSE IF r[N + 1] = x THEN g[(N + 1) - 1]
                          ELSE Append(g[(N + 1) - 1], r[N + 1])
      BY <1>3, <2>1 DEF IsKept
    <2> QED
      BY <2>1, <2>2
  <1> QED
    BY <1>1, <1>2, <1>3, <1>4, <1>5 DEF r

\* Induction over a sequence that grows at its end.
LEMMA GrowingSequences ==
  ASSUME NEW S, NEW G \in SUBSET Seq(S), <<>> \in G,
         \A s \in G : \A e \in S : Append(s, e) \in G
  PROVE  \A s \in Seq(S) : s \in G
  <1> DEFINE Bad == {n \in Nat : \E s \in Seq(S) : Len(s) = n /\ s \notin G}
  <1> SUFFICES ASSUME Bad # {} PROVE FALSE
    <2> SUFFICES ASSUME NEW s \in Seq(S), s \notin G PROVE Bad # {}
      OBVIOUS
    <2>1. Len(s) \in Nat
      OBVIOUS
    <2> QED
      BY <2>1
  <1>1. PICK n \in Bad : \A m \in Bad : n <= m
    <2>1. Bad \in SUBSET Nat /\ Bad # {}
      OBVIOUS
    <2> HIDE DEF Bad
    <2> QED
      BY <2>1, LeastNatural
  <1>2. PICK s \in Seq(S) : Len(s) = n /\ s \notin G
    OBVIOUS
  <1>3. s # <<>>
    BY <1>2
  <1>4. PICK u \in Seq(S), e \in S : s = Append(u, e)
    BY <1>3, SequenceEmptyOrAppend
  <1>5. Len(u) \in Nat /\ Len(s) = Len(u) + 1
    BY <1>4, AppendProperties
  <1>6. u \notin G
    BY <1>2, <1>4
  <1>7. Len(u) \in Bad
    BY <1>5, <1>6
  <1> HIDE DEF Bad
  <1> QED
    BY <1>1, <1>2, <1>5, <1>7

\* Appending to the second of two sequences appends to both.
LEMMA AppendToConcat ==
  ASSUME NEW S, NEW s \in Seq(S), NEW u \in Seq(S), NEW e \in S
  PROVE  s \o Append(u, e) = Append(s \o u, e)
  <1>1. <<e>> \in Seq(S) /\ s \o u \in Seq(S)
    OBVIOUS
  <1>2. Append(u, e) = u \o <<e>> /\ Append(s \o u, e) = (s \o u) \o <<e>>
    BY <1>1, AppendIsConcat
  <1>3. (s \o u) \o <<e>> = s \o (u \o <<e>>)
    BY <1>1, ConcatAssociative
  <1> QED
    BY <1>2, <1>3

\* What is left is of the elements other than x.
LEMMA WithoutType ==
  ASSUME NEW S, NEW s \in Seq(S), NEW x
  PROVE  Without(s, x) \in Seq(S \ {x})
  <1> DEFINE G == {u \in Seq(S) : Without(u, x) \in Seq(S \ {x})}
  <1>1. <<>> \in G
    <2>1. <<>> \in Seq(S) /\ <<>> \in Seq(S \ {x})
      OBVIOUS
    <2>2. Without(<<>>, x) = <<>>
      BY WithoutEmpty
    <2> QED
      BY <2>1, <2>2
  <1>2. \A u \in G : \A e \in S : Append(u, e) \in G
    <2> SUFFICES ASSUME NEW u \in G, NEW e \in S PROVE Append(u, e) \in G
      OBVIOUS
    <2>1. Without(Append(u, e), x) = IF e = x THEN Without(u, x)
                                     ELSE Append(Without(u, x), e)
      BY WithoutAppend
    <2>2. Append(u, e) \in Seq(S)
      OBVIOUS
    <2>3. e # x => Append(Without(u, x), e) \in Seq(S \ {x})
      <3>1. Without(u, x) \in Seq(S \ {x})
        OBVIOUS
      <3> QED
        BY <3>1, AppendProperties
    <2> QED
      BY <2>1, <2>2, <2>3
  <1> HIDE DEF G
  <1>3. G \in SUBSET Seq(S)
    BY DEF G
  <1>4. s \in G
    BY <1>1, <1>2, <1>3, GrowingSequences
  <1> QED
    BY <1>4 DEF G

\* Leaving x out of two sequences one after the other.
LEMMA WithoutConcat ==
  ASSUME NEW S, NEW s \in Seq(S), NEW t \in Seq(S), NEW x
  PROVE  Without(s \o t, x) = Without(s, x) \o Without(t, x)
  <1> DEFINE T == S \ {x}
             G == {u \in Seq(S) : Without(s \o u, x) = Without(s, x) \o Without(u, x)}
  <1>0. Without(s, x) \in Seq(T)
    BY WithoutType
  <1>1. <<>> \in G
    <2>1. s \o <<>> = s /\ Without(s, x) \o <<>> = Without(s, x)
      BY <1>0, ConcatEmptySeq
    <2>2. Without(<<>>, x) = <<>>
      BY WithoutEmpty
    <2>3. <<>> \in Seq(S)
      OBVIOUS
    <2>4. Without(s \o <<>>, x) = Without(s, x) \o Without(<<>>, x)
      BY <2>1, <2>2
    <2> QED
      BY <2>3, <2>4
  <1>2. \A u \in G : \A e \in S : Append(u, e) \in G
    <2> SUFFICES ASSUME NEW u \in G, NEW e \in S PROVE Append(u, e) \in G
      OBVIOUS
    <2>1. Without(Append(u, e), x) = IF e = x THEN Without(u, x)
                                     ELSE Append(Without(u, x), e)
      BY WithoutAppend
    <2>2. Append(u, e) \in Seq(S) /\ s \o u \in Seq(S)
      OBVIOUS
    <2>3. s \o Append(u, e) = Append(s \o u, e)
      BY AppendToConcat
    <2>4. Without(Append(s \o u, e), x) = IF e = x THEN Without(s \o u, x)
                                          ELSE Append(Without(s \o u, x), e)
      BY <2>2, WithoutAppend
    <2>5. Without(s \o u, x) = Without(s, x) \o Without(u, x)
      OBVIOUS
    <2>6. e # x => Without(s, x) \o Append(Without(u, x), e)
                     = Append(Without(s, x) \o Without(u, x), e)
      <3>1. Without(u, x) \in Seq(T)
        BY WithoutType
      <3> QED
        BY <1>0, <3>1, AppendToConcat
    <2> QED
      BY <2>1, <2>2, <2>3, <2>4, <2>5, <2>6
  <1> HIDE DEF G
  <1>3. G \in SUBSET Seq(S)
    BY DEF G
  <1>4. t \in G
    BY <1>1, <1>2, <1>3, GrowingSequences
  <1> QED
    BY <1>4 DEF G

\* Where x does not occur, nothing is left out.
LEMMA WithoutNothing ==
  ASSUME NEW S, NEW s \in Seq(S), NEW x, x \notin S
  PROVE  Without(s, x) = s
  <1> DEFINE G == {u \in Seq(S) : Without(u, x) = u}
  <1>1. <<>> \in G
    BY WithoutEmpty
  <1>2. \A u \in G : \A e \in S : Append(u, e) \in G
    <2> SUFFICES ASSUME NEW u \in G, NEW e \in S PROVE Append(u, e) \in G
      OBVIOUS
    <2>1. Without(Append(u, e), x) = IF e = x THEN Without(u, x)
                                     ELSE Append(Without(u, x), e)
      BY WithoutAppend
    <2> QED
      BY <2>1
  <1> HIDE DEF G
  <1>3. G \in SUBSET Seq(S)
    BY DEF G
  <1>4. s \in G
    BY <1>1, <1>2, <1>3, GrowingSequences
  <1> QED
    BY <1>4 DEF G

\* An element that is not x is kept.
LEMMA WithoutKeeps ==
  ASSUME NEW S, NEW s \in Seq(S), NEW x, NEW k \in 1..Len(s), s[k] # x
  PROVE  \E m \in 1..Len(Without(s, x)) : Without(s, x)[m] = s[k]
  <1> DEFINE G == {u \in Seq(S) : \A i \in 1..Len(u) : u[i] # x =>
                     \E m \in 1..Len(Without(u, x)) : Without(u, x)[m] = u[i]}
  <1>1. <<>> \in G
    OBVIOUS
  <1>2. \A u \in G : \A e \in S : Append(u, e) \in G
    <2> SUFFICES ASSUME NEW u \in G, NEW e \in S PROVE Append(u, e) \in G
      OBVIOUS
    <2> DEFINE v == Append(u, e)
               w == Without(u, x)
    <2>1. Without(v, x) = IF e = x THEN w ELSE Append(w, e)
      BY WithoutAppend
    <2>2. /\ v \in Seq(S)
          /\ Len(v) = Len(u) + 1 /\ Len(u) \in Nat
          /\ v[Len(u) + 1] = e
          /\ \A i \in 1..Len(u) : v[i] = u[i]
      BY AppendProperties
    <2>3. w \in Seq(S \ {x})
      BY WithoutType
    <2> SUFFICES ASSUME NEW i \in 1..Len(v), v[i] # x
                 PROVE  \E m \in 1..Len(Without(v, x)) : Without(v, x)[m] = v[i]
      BY <2>2
    <2>4. Len(w) \in Nat
          /\ (e # x => /\ Len(Append(w, e)) = Len(w) + 1
                       /\ Append(w, e)[Len(w) + 1] = e
                       /\ \A m \in 1..Len(w) : Append(w, e)[m] = w[m])
      BY <2>3, AppendProperties
    <2>5. CASE i = Len(u) + 1
      BY <2>1, <2>2, <2>4, <2>5
    <2>6. CASE i # Len(u) + 1
      <3>1. i \in 1..Len(u) /\ v[i] = u[i]
        BY <2>2, <2>6
      <3>2. PICK m \in 1..Len(w) : w[m] = u[i]
        BY <3>1
      <3>3. m \in 1..Len(Without(v, x)) /\ Without(v, x)[m] = w[m]
        BY <2>1, <2>4
      <3> QED
        BY <3>1, <3>2, <3>3
    <2> QED
      BY <2>5, <2>6
  <1> HIDE DEF G
  <1>3. G \in SUBSET Seq(S)
    BY DEF G
  <1>4. s \in G
    BY <1>1, <1>2, <1>3, GrowingSequences
  <1> QED
    BY <1>4 DEF G

-----------------------------------------------------------------------------
(* Tokens and what a row of them means. *)

Meaning == Events \cup {NoEvent}

\* A line end means an event or nothing, every other token nothing.
LEMMA TokenMeans ==
  ASSUME NEW t \in Tokens
  PROVE  /\ t.means \in Meaning
         /\ t.kind # "LF" => t.means = NoEvent
         /\ t.kind = "byte" => t.value \in Nat
  <1>1. CASE t \in [kind : {"VERSION", "SENT", "RECEIVE", "byte", "half", "CR"},
                    value : Nat, means : {NoEvent}]
    BY <1>1 DEF Meaning
  <1>2. CASE t \in [kind : {"LF"}, value : {0}, means : Events \cup {NoEvent}]
    BY <1>2 DEF Meaning
  <1> QED
    BY <1>1, <1>2 DEF Tokens

\* What the server writes is made of tokens.
LEMMA WrittenTokens ==
  /\ \A text \in {"VERSION", "SENT", "RECEIVE"} :
       Word(text) \in Tokens /\ Word(text).kind = text /\ Word(text).means = NoEvent
  /\ \A value \in Nat :
       /\ Byte(value) \in Tokens
       /\ Byte(value).kind = "byte" /\ Byte(value).value = value
       /\ Byte(value).means = NoEvent
  /\ HalfByte \in Tokens /\ HalfByte.kind = "half" /\ HalfByte.means = NoEvent
  /\ CR \in Tokens /\ CR.kind = "CR" /\ CR.means = NoEvent
  /\ \A event \in Meaning :
       LF(event) \in Tokens /\ LF(event).kind = "LF" /\ LF(event).means = event
  BY DEF Tokens, Word, Byte, HalfByte, CR, LF, Meaning

\* What the tokens of s mean one by one.
MeansOf(s) == [k \in 1..Len(s) |-> s[k].means]

\* It is as long as s, and of events or of nothing.
LEMMA MeansOfType ==
  ASSUME NEW s \in Seq(Tokens)
  PROVE  MeansOf(s) \in Seq(Meaning) /\ Len(MeansOf(s)) = Len(s)
  <1>1. \A k \in 1..Len(s) : s[k].means \in Meaning
    <2> TAKE k \in 1..Len(s)
    <2>1. s[k] \in Tokens
      OBVIOUS
    <2> QED
      BY <2>1, TokenMeans
  <1> QED
    BY <1>1 DEF MeansOf

\* The switch messages on the wire are a sequence of events.
LEMMA MeaningsType ==
  ASSUME NEW s \in Seq(Tokens)
  PROVE  Meanings(s) \in Seq(Events)
  <1>1. Without(MeansOf(s), NoEvent) \in Seq(Meaning \ {NoEvent})
    BY MeansOfType, WithoutType
  <1>2. Meaning \ {NoEvent} \subseteq Events
    BY DEF Meaning
  <1>3. Seq(Meaning \ {NoEvent}) \subseteq Seq(Events)
    BY <1>2
  <1> QED
    BY <1>1, <1>3 DEF Meanings, MeansOf

\* Rows of tokens one after the other mean what they mean one after the other.
LEMMA MeaningsConcat ==
  ASSUME NEW s \in Seq(Tokens), NEW t \in Seq(Tokens)
  PROVE  Meanings(s \o t) = Meanings(s) \o Meanings(t)
  <1>1. /\ s \o t \in Seq(Tokens)
        /\ Len(s \o t) = Len(s) + Len(t)
        /\ \A k \in 1..Len(s) : (s \o t)[k] = s[k]
        /\ \A k \in 1..Len(t) : (s \o t)[Len(s) + k] = t[k]
    BY ConcatProperties
  <1>2. /\ MeansOf(s) \in Seq(Meaning) /\ Len(MeansOf(s)) = Len(s)
        /\ MeansOf(t) \in Seq(Meaning) /\ Len(MeansOf(t)) = Len(t)
        /\ MeansOf(s \o t) \in Seq(Meaning) /\ Len(MeansOf(s \o t)) = Len(s \o t)
    BY <1>1, MeansOfType
  <1>3. MeansOf(s \o t) = MeansOf(s) \o MeansOf(t)
    <2>1. /\ MeansOf(s) \o MeansOf(t) \in Seq(Meaning)
          /\ Len(MeansOf(s) \o MeansOf(t)) = Len(MeansOf(s)) + Len(MeansOf(t))
          /\ \A k \in 1..Len(MeansOf(s)) :
               (MeansOf(s) \o MeansOf(t))[k] = MeansOf(s)[k]
          /\ \A k \in 1..Len(MeansOf(t)) :
               (MeansOf(s) \o MeansOf(t))[Len(MeansOf(s)) + k] = MeansOf(t)[k]
      <3>1. \A a, b \in Seq(Meaning) :
              /\ a \o b \in Seq(Meaning)
              /\ Len(a \o b) = Len(a) + Len(b)
              /\ \A k \in 1..Len(a) : (a \o b)[k] = a[k]
              /\ \A k \in 1..Len(b) : (a \o b)[Len(a) + k] = b[k]
        BY ConcatProperties
      <3> QED
        BY <1>2, <3>1
    <2>2. \A k \in 1..Len(s \o t) :
            MeansOf(s \o t)[k] = (MeansOf(s) \o MeansOf(t))[k]
      <3> TAKE k \in 1..Len(s \o t)
      <3>0. Len(s) \in Nat /\ Len(t) \in Nat
        OBVIOUS
      <3>1. CASE k \in 1..Len(s)
        <4>1. MeansOf(s \o t)[k] = s[k].means /\ MeansOf(s)[k] = s[k].means
          BY <1>1, <3>1 DEF MeansOf
        <4> QED
          BY <4>1, <2>1, <1>2, <3>1
      <3>2. CASE k \notin 1..Len(s)
        <4>1. PICK m \in 1..Len(t) : k = Len(s) + m
          <5>1. k - Len(s) \in 1..Len(t) /\ k = Len(s) + (k - Len(s))
            BY <1>1, <3>0, <3>2
          <5> QED
            BY <5>1
        <4>2. MeansOf(s \o t)[k] = t[m].means /\ MeansOf(t)[m] = t[m].means
          BY <1>1, <4>1 DEF MeansOf
        <4> QED
          BY <4>1, <4>2, <2>1, <1>2
      <3> QED
        BY <3>1, <3>2
    <2> QED
      BY <1>1, <1>2, <2>1, <2>2, SeqEqual
  <1>4. Without(MeansOf(s) \o MeansOf(t), NoEvent)
          = Without(MeansOf(s), NoEvent) \o Without(MeansOf(t), NoEvent)
    BY <1>2, WithoutConcat
  <1> QED
    BY <1>3, <1>4 DEF Meanings, MeansOf

\* What has no line end means nothing.
LEMMA MeaningsOfNoEnd ==
  ASSUME NEW s \in Seq(Tokens), HasNoEnd(s)
  PROVE  Meanings(s) = <<>>
  <1>1. MeansOf(s) \in Seq({NoEvent})
    <2>1. \A k \in 1..Len(s) : s[k].means = NoEvent
      <3> TAKE k \in 1..Len(s)
      <3>1. s[k] \in Tokens /\ s[k].kind # "LF"
        BY DEF HasNoEnd
      <3> QED
        BY <3>1, TokenMeans
    <2> QED
      BY <2>1 DEF MeansOf
  <1>2. Without(MeansOf(s), NoEvent) \in Seq({NoEvent} \ {NoEvent})
    BY <1>1, WithoutType
  <1>3. Without(MeansOf(s), NoEvent) = <<>>
    <2>1. \A r \in Seq({}) : r = <<>>
      <3> TAKE r \in Seq({})
      <3>1. r # <<>> => r[1] \in {}
        OBVIOUS
      <3> QED
        BY <3>1
    <2>2. {NoEvent} \ {NoEvent} = {}
      OBVIOUS
    <2> QED
      BY <1>2, <2>1, <2>2
  <1> QED
    BY <1>3 DEF Meanings, MeansOf

\* A line end means its event and nothing else.
LEMMA MeaningsOfEnd ==
  ASSUME NEW t \in Tokens
  PROVE  Meanings(<<t>>) = IF t.means = NoEvent THEN <<>> ELSE <<t.means>>
  <1>1. <<t>> \in Seq(Tokens) /\ Len(<<t>>) = 1 /\ <<t>>[1] = t
    OBVIOUS
  <1>2. t.means \in Meaning
    BY TokenMeans
  <1>3. MeansOf(<<t>>) = Append(<<>>, t.means)
    <2>1. Append(<<>>, t.means) = <<t.means>>
      OBVIOUS
    <2>2. MeansOf(<<t>>) \in Seq(Meaning) /\ Len(MeansOf(<<t>>)) = 1
          /\ MeansOf(<<t>>)[1] = t.means
      <3>1. PICK s \in Seq(Tokens) : s = <<t>>
        BY <1>1
      <3>2. MeansOf(s) \in Seq(Meaning) /\ Len(MeansOf(s)) = Len(s)
        BY MeansOfType
      <3>3. MeansOf(s)[1] = s[1].means
        BY <1>1, <3>1 DEF MeansOf
      <3> QED
        BY <1>1, <3>1, <3>2, <3>3
    <2>3. <<t.means>> \in Seq(Meaning) /\ Len(<<t.means>>) = 1 /\ <<t.means>>[1] = t.means
      BY <1>2
    <2> QED
      BY <2>1, <2>2, <2>3, SeqEqual
  <1>4. <<>> \in Seq(Meaning) /\ Append(<<>>, t.means) = <<t.means>>
    OBVIOUS
  <1>5. Without(Append(<<>>, t.means), NoEvent)
          = IF t.means = NoEvent THEN Without(<<>>, NoEvent)
            ELSE Append(Without(<<>>, NoEvent), t.means)
    BY <1>2, <1>4, WithoutAppend
  <1>6. Without(<<>>, NoEvent) = <<>>
    BY WithoutEmpty
  <1> QED
    BY <1>3, <1>4, <1>5, <1>6 DEF Meanings, MeansOf

-----------------------------------------------------------------------------
(* What a line stands for. *)

\* Head and tail of a sequence that starts with x.
LEMMA BehindTheFirst ==
  ASSUME NEW S, NEW x \in S, NEW s \in Seq(S)
  PROVE  /\ <<x>> \o s \in Seq(S) /\ <<x>> \o s # <<>>
         /\ Len(<<x>> \o s) = Len(s) + 1
         /\ Head(<<x>> \o s) = x
         /\ Tail(<<x>> \o s) = s
  <1> DEFINE r == <<x>> \o s
  <1>1. /\ r \in Seq(S) /\ Len(r) = Len(s) + 1 /\ Len(s) \in Nat
        /\ r[1] = x
        /\ \A k \in 1..Len(s) : r[k + 1] = s[k]
    <2>1. <<x>> \in Seq(S) /\ Len(<<x>>) = 1 /\ <<x>>[1] = x
      OBVIOUS
    <2>2. /\ r \in Seq(S) /\ Len(r) = Len(<<x>>) + Len(s)
          /\ \A k \in 1..Len(<<x>>) : r[k] = <<x>>[k]
          /\ \A k \in 1..Len(s) : r[Len(<<x>>) + k] = s[k]
      BY <2>1, ConcatProperties
    <2> QED
      BY <2>1, <2>2
  <1>2. r # <<>>
    BY <1>1
  <1> HIDE DEF r
  <1>3. Tail(r) \in Seq(S) /\ Len(Tail(r)) = Len(s)
        /\ \A k \in 1..Len(s) : Tail(r)[k] = r[k + 1]
    BY <1>1, <1>2, HeadTailProperties
  <1>4. Tail(r) = s
    BY <1>1, <1>3, SeqEqual
  <1>5. Head(r) = x
    BY <1>1, <1>2
  <1> QED
    BY <1>1, <1>2, <1>4, <1>5 DEF r

\* Nothing is no message.
LEMMA NothingIsNoMessage == HasValidChecksum(<<>>) = FALSE /\ EventOf(<<>>) = NoEvent
  <1>1. Len(<<>>) = 0
    BY EmptySeq
  <1> QED
    BY <1>1 DEF HasValidChecksum, EventOf

\* A line with another word in it, or half a byte, is no data line.
LEMMA Spoiled ==
  ASSUME NEW line \in Seq(Tokens), NEW k \in 1..Len(line),
         line[k].kind \notin {"RECEIVE", "byte", "CR"}
  PROVE  EventOf(line) = NoEvent
  <1>1. line # <<>> /\ Len(line) \in Nat
    BY EmptySeq
  <1>2. CASE k = 1
    <2>1. Head(line) = line[k]
      BY <1>1, <1>2
    <2>2. Head(line) # Word("RECEIVE")
      BY <2>1 DEF Word
    <2> QED
      BY <2>2 DEF EventOf
  <1>3. CASE k # 1
    <2>1. /\ Tail(line) \in Seq(Tokens) /\ Len(Tail(line)) = Len(line) - 1
          /\ \A i \in 1..Len(Tail(line)) : Tail(line)[i] = line[i + 1]
      BY <1>1, HeadTailProperties
    <2>2. k - 1 \in 1..Len(Tail(line)) /\ Tail(line)[k - 1] = line[k]
      BY <1>1, <1>3, <2>1
    <2>3. line[k] # CR
      BY DEF CR
    <2> DEFINE rest == Tail(line)
               body == Without(rest, CR)
    <2>4. PICK m \in 1..Len(body) : body[m] = line[k]
      <3> HIDE DEF rest
      <3>1. k - 1 \in 1..Len(rest) /\ rest[k - 1] = line[k] /\ rest \in Seq(Tokens)
        BY <2>1, <2>2 DEF rest
      <3>2. rest[k - 1] # CR
        BY <3>1, <2>3
      <3>3. \E m \in 1..Len(Without(rest, CR)) : Without(rest, CR)[m] = rest[k - 1]
        BY <3>1, <3>2, WithoutKeeps
      <3> QED
        BY <3>1, <3>3
    <2>5. body[m].kind # "byte"
      BY <2>4
    <2>6. BytesOf(line) = <<>>
      BY <2>4, <2>5 DEF BytesOf
    <2> QED
      BY <2>6, NothingIsNoMessage DEF EventOf
  <1> QED
    BY <1>2, <1>3

\* A row of bytes as tokens.
Row(bytes) == [k \in 1..Len(bytes) |-> Byte(bytes[k])]

\* It is a sequence of tokens, each with its byte.
LEMMA RowType ==
  ASSUME NEW bytes \in Seq(Nat)
  PROVE  /\ Row(bytes) \in Seq({Byte(value) : value \in Nat})
         /\ Row(bytes) \in Seq(Tokens)
         /\ Len(Row(bytes)) = Len(bytes)
         /\ \A k \in 1..Len(bytes) : Row(bytes)[k] = Byte(bytes[k])
  <1>1. \A k \in 1..Len(bytes) : bytes[k] \in Nat
    OBVIOUS
  <1>2. \A k \in 1..Len(bytes) : Byte(bytes[k]) \in Tokens
    BY <1>1, WrittenTokens
  <1> QED
    BY <1>1, <1>2 DEF Row

\* The tokens of a message.
LEMMA ReceivedType ==
  ASSUME NEW bytes \in Seq(Nat)
  PROVE  /\ Received(bytes) \in Seq(Tokens) /\ Received(bytes) # <<>>
         /\ Len(Received(bytes)) = Len(bytes) + 1
         /\ Head(Received(bytes)) = Word("RECEIVE")
         /\ Tail(Received(bytes)) = Row(bytes)
         /\ HasNoEnd(Received(bytes))
  <1>1. Word("RECEIVE") \in Tokens /\ Word("RECEIVE").kind = "RECEIVE"
    BY WrittenTokens
  <1>2. Row(bytes) \in Seq(Tokens) /\ Len(Row(bytes)) = Len(bytes)
        /\ \A k \in 1..Len(bytes) : Row(bytes)[k] = Byte(bytes[k])
    BY RowType
  <1>3. Received(bytes) = <<Word("RECEIVE")>> \o Row(bytes)
    BY DEF Received, Row
  <1>4. /\ Received(bytes) \in Seq(Tokens) /\ Received(bytes) # <<>>
        /\ Len(Received(bytes)) = Len(bytes) + 1
        /\ Head(Received(bytes)) = Word("RECEIVE")
        /\ Tail(Received(bytes)) = Row(bytes)
    BY <1>1, <1>2, <1>3, BehindTheFirst
  <1>5. HasNoEnd(Received(bytes))
    <2> DEFINE s == Received(bytes)
    <2> HIDE DEF s
    <2>1. s \in Seq(Tokens) /\ s # <<>> /\ Len(s) = Len(bytes) + 1 /\ Len(bytes) \in Nat
          /\ Head(s) = Word("RECEIVE") /\ Tail(s) = Row(bytes)
      BY <1>4 DEF s
    <2>2. s[1] = Head(s) /\ \A k \in 1..Len(bytes) : Tail(s)[k] = s[k + 1]
      BY <2>1, HeadTailProperties
    <2>3. \A k \in 1..Len(s) : s[k].kind # "LF"
      <3> TAKE k \in 1..Len(s)
      <3>1. CASE k = 1
        BY <3>1, <2>1, <2>2, <1>1
      <3>2. CASE k # 1
        <4>1. k - 1 \in 1..Len(bytes) /\ s[k] = Tail(s)[k - 1]
          BY <3>2, <2>1, <2>2
        <4>2. s[k] = Byte(bytes[k - 1])
          BY <4>1, <2>1, <1>2
        <4> QED
          BY <4>2 DEF Byte
      <3> QED
        BY <3>1, <3>2
    <2> QED
      BY <2>3 DEF s, HasNoEnd
  <1> QED
    BY <1>4, <1>5

\* What the decoder makes of the bytes of a message.
Decoded(bytes) == IF HasValidChecksum(bytes) THEN EventFrom(bytes) ELSE NoEvent

\* EventOf() makes this of the message in words, with the CR behind it or without.
LEMMA ReadBack ==
  ASSUME NEW bytes \in Seq(Nat)
  PROVE  /\ EventOf(Received(bytes)) = Decoded(bytes)
         /\ EventOf(Append(Received(bytes), CR)) = Decoded(bytes)
  <1> DEFINE line == Received(bytes)
             row == Row(bytes)
             Bytes == {Byte(value) : value \in Nat}
  <1>1. /\ line \in Seq(Tokens) /\ line # <<>>
        /\ Len(line) = Len(bytes) + 1
        /\ Head(line) = Word("RECEIVE")
        /\ Tail(line) = row
    BY ReceivedType
  <1>2. /\ row \in Seq(Bytes) /\ row \in Seq(Tokens) /\ Len(row) = Len(bytes)
        /\ \A k \in 1..Len(bytes) : row[k] = Byte(bytes[k])
    BY RowType
  <1> HIDE DEF line, row, Bytes
  <1>3. Without(row, CR) = row
    <2>1. CR \notin Bytes
      BY DEF Bytes, CR, Byte
    <2> QED
      BY <1>2, <2>1, WithoutNothing
  <1>4. [k \in 1..Len(row) |-> row[k].value] = bytes
    <2>1. \A k \in 1..Len(row) : row[k].value = bytes[k]
      <3> TAKE k \in 1..Len(row)
      <3>1. row[k] = Byte(bytes[k])
        BY <1>2
      <3> QED
        BY <3>1 DEF Byte
    <2>2. bytes = [k \in 1..Len(bytes) |-> bytes[k]]
      OBVIOUS
    <2> QED
      BY <1>2, <2>1, <2>2
  <1>5. \A k \in 1..Len(row) : row[k].kind = "byte"
    <2> TAKE k \in 1..Len(row)
    <2>1. row[k] = Byte(bytes[k])
      BY <1>2
    <2> QED
      BY <2>1 DEF Byte
  <1>6. EventOf(line) = Decoded(bytes)
    <2>1. BytesOf(line) = bytes
      BY <1>1, <1>3, <1>4, <1>5 DEF BytesOf
    <2> QED
      BY <1>1, <2>1 DEF EventOf, Decoded
  <1>7. EventOf(Append(line, CR)) = Decoded(bytes)
    <2>0. CR \in Tokens
      BY WrittenTokens
    <2>8. Word("RECEIVE") \in Tokens
      BY WrittenTokens
    <2> DEFINE long == Append(line, CR)
    <2>1. long = <<Word("RECEIVE")>> \o Append(row, CR)
      <3>1. line = <<Word("RECEIVE")>> \o row
        BY DEF line, row, Received, Row
      <3>2. <<Word("RECEIVE")>> \in Seq(Tokens)
        BY <2>8
      <3> QED
        BY <3>1, <3>2, <2>0, <1>2, AppendToConcat
    <2>2. Append(row, CR) \in Seq(Tokens)
      BY <2>0, <1>2
    <2>3. long # <<>> /\ Head(long) = Word("RECEIVE") /\ Tail(long) = Append(row, CR)
      BY <2>1, <2>8, <2>2, BehindTheFirst
    <2>4. Without(Append(row, CR), CR) = row
      BY <2>0, <1>2, <1>3, WithoutAppend
    <2> HIDE DEF long
    <2>5. BytesOf(long) = bytes
      BY <2>3, <2>4, <1>4, <1>5 DEF BytesOf
    <2>6. EventOf(long) = Decoded(bytes)
      BY <2>3, <2>5 DEF EventOf, Decoded
    <2> QED
      BY <2>6 DEF long
  <1> QED
    BY <1>6, <1>7 DEF line

-----------------------------------------------------------------------------
(* Sound sequences of tokens. *)

\* The elements of s behind position i up to position j.
LEMMA Stretch ==
  ASSUME NEW S, NEW s \in Seq(S), NEW i \in 0..Len(s), NEW j \in i..Len(s)
  PROVE  /\ SubSeq(s, i + 1, j) \in Seq(S)
         /\ Len(SubSeq(s, i + 1, j)) = j - i
         /\ \A k \in 1..(j - i) : SubSeq(s, i + 1, j)[k] = s[i + k]
  <1>1. i \in Nat /\ j \in Nat /\ i <= j /\ j <= Len(s) /\ Len(s) \in Nat
    OBVIOUS
  <1>2. \A k \in (i + 1)..j : s[k] \in S
    BY <1>1
  <1>3. /\ SubSeq(s, i + 1, j) \in Seq(S)
        /\ Len(SubSeq(s, i + 1, j)) = IF i + 1 <= j THEN j - (i + 1) + 1 ELSE 0
        /\ \A k \in 1..(j - (i + 1) + 1) : SubSeq(s, i + 1, j)[k] = s[i + 1 + k - 1]
    BY <1>1, <1>2, SubSeqProperties
  <1>4. j - (i + 1) + 1 = j - i /\ (~(i + 1 <= j) => j - i = 0)
    BY <1>1
  <1>5. \A k \in 1..(j - i) : i + 1 + k - 1 = i + k
    BY <1>1
  <1> QED
    BY <1>3, <1>4, <1>5

\* The n elements of r behind position i are those of s behind position m.
Copies(r, i, s, m, n) == \A k \in 1..n : r[i + k] = s[m + k]

\* Two stretches of the same elements are equal.
LEMMA SameStretch ==
  ASSUME NEW S, NEW s \in Seq(S), NEW r \in Seq(S),
         NEW i \in Int, NEW j \in Int, NEW m \in Int, NEW n \in Int,
         NEW p \in Int, NEW q \in Int, NEW l \in Int,
         i \in Nat, p = i + 1, j <= Len(s), m \in Nat, q = m + 1, n <= Len(r),
         l \in Nat, l = j - i, l = n - m,
         Copies(s, i, r, m, l)
  PROVE  SubSeq(s, p, j) = SubSeq(r, q, n)
  <1>0. Len(s) \in Nat /\ Len(r) \in Nat
    OBVIOUS
  <1>1. PICK a : a = SubSeq(s, p, j)
    OBVIOUS
  <1>2. PICK b : b = SubSeq(r, q, n)
    OBVIOUS
  <1>3. /\ a \in Seq(S)
        /\ Len(a) = j - i
        /\ \A k \in 1..(j - i) : a[k] = s[i + k]
    <2>1. i \in 0..Len(s) /\ j \in i..Len(s)
      BY <1>0
    <2> QED
      BY <1>1, <2>1, Stretch
  <1>4. /\ b \in Seq(S)
        /\ Len(b) = n - m
        /\ \A k \in 1..(n - m) : b[k] = r[m + k]
    <2>1. m \in 0..Len(r) /\ n \in m..Len(r)
      BY <1>0
    <2> QED
      BY <1>2, <2>1, Stretch
  <1>5. \A k \in 1..(j - i) : a[k] = b[k]
    BY <1>3, <1>4 DEF Copies
  <1>6. a = b
    BY <1>3, <1>4, <1>5, SeqEqual
  <1> QED
    BY <1>1, <1>2, <1>6

\* IsSound in terms of positions: of the line that starts behind position i, the
\* tokens up to position j have been fed, and those up to Upto(i, j) are held.
Upto(i, j) == IF j - i <= kMaxBufferedBytes THEN j ELSE i + kMaxBufferedBytes

IsPart(s, i, j) ==
  /\ i = 0 \/ s[i].kind = "LF"
  /\ \A k \in (i + 1)..j : s[k].kind # "LF"

MeansWell(s, i, j) ==
  /\ j - i >= kMaxBufferedBytes => EventOf(SubSeq(s, i + 1, Upto(i, j))) = NoEvent
  /\ j < Len(s) /\ s[j + 1].kind = "LF"
       => EventOf(SubSeq(s, i + 1, Upto(i, j))) = s[j + 1].means

PartsMeanWell(s) ==
  \A i \in 0..Len(s) : \A j \in i..Len(s) : IsPart(s, i, j) => MeansWell(s, i, j)

\* Where the held tokens of a part end.
LEMMA HeldPart ==
  ASSUME NEW s \in Seq(Tokens), NEW i \in 0..Len(s), NEW j \in i..Len(s)
  PROVE  /\ Upto(i, j) \in i..j
         /\ Held(SubSeq(s, i + 1, j)) = SubSeq(s, i + 1, Upto(i, j))
         /\ Len(Held(SubSeq(s, i + 1, j))) = kMaxBufferedBytes
              <=> j - i >= kMaxBufferedBytes
  <1>0. kMaxBufferedBytes \in Nat /\ i \in Nat /\ j \in Nat /\ i <= j /\ Len(s) \in Nat
        /\ j <= Len(s)
    BY LimitAssumption
  <1>1. /\ SubSeq(s, i + 1, j) \in Seq(Tokens)
        /\ Len(SubSeq(s, i + 1, j)) = j - i
        /\ \A k \in 1..(j - i) : SubSeq(s, i + 1, j)[k] = s[i + k]
    BY Stretch
  <1>2. CASE j - i <= kMaxBufferedBytes
    BY <1>0, <1>1, <1>2 DEF Held, Upto
  <1>3. CASE ~(j - i <= kMaxBufferedBytes)
    <2> DEFINE n == kMaxBufferedBytes
               line == SubSeq(s, i + 1, j)
    <2>1. Upto(i, j) = i + n /\ i + n \in i..j
      BY <1>0, <1>3 DEF Upto
    <2>2. Held(line) = SubSeq(line, 1, n)
      BY <1>1, <1>3 DEF Held
    <2>3. SubSeq(line, 1, n) = SubSeq(s, i + 1, i + n)
      <3>1. /\ 0 \in Nat /\ 1 = 0 + 1 /\ n \in Int /\ 0 <= n /\ n <= Len(line)
            /\ i + n \in Int /\ i <= i + n /\ i + n <= Len(s)
            /\ n \in Nat /\ n = n - 0 /\ n = (i + n) - i
        BY <1>0, <1>1, <1>3
      <3>2. Copies(line, 0, s, i, n)
        BY <1>0, <1>1, <1>3 DEF Copies
      <3>3. line \in Seq(Tokens)
        BY <1>1
      <3> HIDE DEF line, n
      <3>4. PICK q \in Int : q = i + 1
        BY <1>0
      <3>5. PICK z \in Int : z = i + n
        BY <1>0, <3>1
      <3>6. SubSeq(line, 1, n) = SubSeq(s, q, z)
        BY <1>0, <3>1, <3>2, <3>3, <3>4, <3>5, SameStretch
      <3> QED
        BY <3>4, <3>5, <3>6
    <2>4. Len(SubSeq(s, i + 1, i + n)) = (i + n) - i
      <3>1. i + n \in i..Len(s)
        BY <1>0, <2>1
      <3> QED
        BY <3>1, Stretch
    <2> QED
      BY <1>0, <1>3, <2>1, <2>2, <2>3, <2>4
  <1> QED
    BY <1>2, <1>3

\* A sequence is sound when all its parts mean what they should.
LEMMA SoundParts ==
  ASSUME NEW s \in Seq(Tokens)
  PROVE  IsSound(s) <=> PartsMeanWell(s)
  <1>1. ASSUME NEW i \in 0..Len(s), NEW j \in i..Len(s)
        PROVE  HasNoEnd(SubSeq(s, i + 1, j))
                 <=> \A k \in (i + 1)..j : s[k].kind # "LF"
    <2>0. i \in Nat /\ j \in Nat /\ i <= j
      OBVIOUS
    <2>1. /\ Len(SubSeq(s, i + 1, j)) = j - i
          /\ \A k \in 1..(j - i) : SubSeq(s, i + 1, j)[k] = s[i + k]
      BY Stretch
    <2>2. HasNoEnd(SubSeq(s, i + 1, j)) <=> \A k \in 1..(j - i) : s[i + k].kind # "LF"
      BY <2>1 DEF HasNoEnd
    <2>3. ASSUME \A k \in 1..(j - i) : s[i + k].kind # "LF", NEW k \in (i + 1)..j
          PROVE  s[k].kind # "LF"
      <3>1. k - i \in 1..(j - i) /\ i + (k - i) = k
        BY <2>0
      <3> QED
        BY <2>3, <3>1
    <2>4. ASSUME \A k \in (i + 1)..j : s[k].kind # "LF", NEW k \in 1..(j - i)
          PROVE  s[i + k].kind # "LF"
      <3>1. i + k \in (i + 1)..j
        BY <2>0
      <3> QED
        BY <2>4, <3>1
    <2> QED
      BY <2>2, <2>3, <2>4
  <1>2. ASSUME NEW i \in 0..Len(s), NEW j \in i..Len(s)
        PROVE  LET held == Held(SubSeq(s, i + 1, j)) IN
               (/\ Len(held) = kMaxBufferedBytes => EventOf(held) = NoEvent
                /\ j < Len(s) /\ s[j + 1].kind = "LF" => EventOf(held) = s[j + 1].means)
               <=> MeansWell(s, i, j)
    BY HeldPart DEF MeansWell
  <1> QED
    BY <1>1, <1>2 DEF IsSound, PartsMeanWell, IsPart

\* A part of r means well when a sound s has one that is held alike and ends alike.
LEMMA Transfer ==
  ASSUME NEW s \in Seq(Tokens), PartsMeanWell(s),
         NEW m \in 0..Len(s), NEW n \in m..Len(s), IsPart(s, m, n),
         NEW r \in Seq(Tokens), NEW i \in 0..Len(r), NEW j \in i..Len(r),
         SubSeq(r, i + 1, Upto(i, j)) = SubSeq(s, m + 1, Upto(m, n)),
         j - i >= kMaxBufferedBytes => n - m >= kMaxBufferedBytes,
         j < Len(r) /\ r[j + 1].kind = "LF" => n < Len(s) /\ s[n + 1] = r[j + 1]
  PROVE  MeansWell(r, i, j)
  <1>1. MeansWell(s, m, n)
    BY DEF PartsMeanWell
  <1> QED
    BY <1>1 DEF MeansWell

\* The part of r behind i is the part of s behind m, one by one.
LEMMA Shifted ==
  ASSUME NEW s \in Seq(Tokens), PartsMeanWell(s),
         NEW m \in 0..Len(s), NEW n \in m..Len(s),
         NEW r \in Seq(Tokens), NEW i \in 0..Len(r), NEW j \in i..Len(r),
         j - i = n - m,
         IsPart(r, i, j),
         m = 0 \/ s[m].kind = "LF",
         Copies(r, i, s, m, j - i),
         j < Len(r) /\ r[j + 1].kind = "LF" => n < Len(s) /\ s[n + 1] = r[j + 1]
  PROVE  MeansWell(r, i, j)
  <1>0. kMaxBufferedBytes \in Nat /\ i \in Nat /\ j \in Nat /\ m \in Nat /\ n \in Nat
        /\ Len(r) \in Nat /\ Len(s) \in Nat
        /\ i <= j /\ j <= Len(r) /\ m <= n /\ n <= Len(s)
    BY LimitAssumption
  <1>1. IsPart(s, m, n)
    <2> SUFFICES ASSUME NEW k \in (m + 1)..n PROVE s[k].kind # "LF"
      BY DEF IsPart
    <2>1. k - m \in 1..(j - i) /\ m + (k - m) = k /\ i + (k - m) \in (i + 1)..j
      BY <1>0
    <2>2. r[i + (k - m)] = s[k]
      BY <2>1 DEF Copies
    <2>3. r[i + (k - m)].kind # "LF"
      BY <2>1 DEF IsPart
    <2> QED
      BY <2>2, <2>3
  <1>2. PICK x \in Int : x = Upto(i, j)
    BY <1>0 DEF Upto
  <1>3. PICK y \in Int : y = Upto(m, n)
    BY <1>0 DEF Upto
  <1>4. /\ i <= x /\ x <= j /\ m <= y /\ y <= n /\ x - i = y - m
    BY <1>0, <1>2, <1>3 DEF Upto
  <1>5. SubSeq(r, i + 1, x) = SubSeq(s, m + 1, y)
    <2>6. PICK l \in Int : l = x - i
      OBVIOUS
    <2>1. Copies(r, i, s, m, l)
      BY <1>0, <1>4, <2>6 DEF Copies
    <2>2. x <= Len(r) /\ y <= Len(s)
      BY <1>0, <1>4
    <2>3. PICK p \in Int : p = i + 1
      BY <1>0
    <2>4. PICK q \in Int : q = m + 1
      BY <1>0
    <2>7. l \in Nat /\ l = y - m /\ i \in Int /\ m \in Int
      BY <1>0, <1>4, <2>6
    <2>5. SubSeq(r, p, x) = SubSeq(s, q, y)
      BY <1>0, <2>1, <2>2, <2>3, <2>4, <2>6, <2>7, SameStretch
    <2> QED
      BY <2>3, <2>4, <2>5
  <1> QED
    BY <1>0, <1>1, <1>2, <1>3, <1>5, Transfer

\* A first part of a sound sequence is sound: a connection may break anywhere.
LEMMA SoundPrefix ==
  ASSUME NEW s \in Seq(Tokens), IsSound(s), NEW n \in 0..Len(s)
  PROVE  IsSound(SubSeq(s, 1, n)) /\ SubSeq(s, 1, n) \in Seq(Tokens)
  <1>0. n \in Nat /\ Len(s) \in Nat /\ n <= Len(s)
    OBVIOUS
  <1>1. PICK r : r = SubSeq(s, 1, n)
    OBVIOUS
  <1>2. r \in Seq(Tokens) /\ Len(r) = n /\ \A k \in 1..n : r[k] = s[k]
    <2>1. 0 \in 0..Len(s) /\ n \in 0..Len(s) /\ 0 + 1 = 1 /\ n - 0 = n
      BY <1>0
    <2>2. /\ SubSeq(s, 0 + 1, n) \in Seq(Tokens)
          /\ Len(SubSeq(s, 0 + 1, n)) = n - 0
          /\ \A k \in 1..(n - 0) : SubSeq(s, 0 + 1, n)[k] = s[0 + k]
      BY <2>1, Stretch
    <2>3. \A k \in 1..n : 0 + k = k
      BY <1>0
    <2> QED
      BY <1>1, <2>1, <2>2, <2>3
  <1>3. PartsMeanWell(s)
    BY SoundParts
  <1>4. ASSUME NEW i \in 0..Len(r), NEW j \in i..Len(r), IsPart(r, i, j)
        PROVE  MeansWell(r, i, j)
    <2>1. i \in 0..Len(s) /\ j \in i..Len(s) /\ i \in Nat /\ j \in Nat /\ i <= j /\ j <= n
      BY <1>0, <1>2
    <2>2. i = 0 \/ s[i].kind = "LF"
      BY <1>2, <1>4, <2>1 DEF IsPart
    <2>3. Copies(r, i, s, i, j - i)
      BY <1>2, <2>1 DEF Copies
    <2>4. j < Len(r) => j < Len(s) /\ s[j + 1] = r[j + 1]
      BY <1>0, <1>2, <2>1
    <2> QED
      BY <1>2, <1>3, <1>4, <2>1, <2>2, <2>3, <2>4, Shifted
  <1>5. PartsMeanWell(r)
    BY <1>4 DEF PartsMeanWell
  <1> QED
    BY <1>1, <1>2, <1>5, SoundParts

\* Sound lines behind complete sound lines are sound.
LEMMA SoundConcat ==
  ASSUME NEW s \in Seq(Tokens), IsSound(s), s = <<>> \/ s[Len(s)].kind = "LF",
         NEW v \in Seq(Tokens), IsSound(v)
  PROVE  IsSound(s \o v)
  <1>1. PICK r : r = s \o v
    OBVIOUS
  <1>2. /\ r \in Seq(Tokens)
        /\ Len(r) = Len(s) + Len(v)
        /\ \A k \in 1..Len(s) : r[k] = s[k]
        /\ \A k \in 1..Len(v) : r[Len(s) + k] = v[k]
    BY <1>1, ConcatProperties
  <1>0. Len(s) \in Nat /\ Len(v) \in Nat /\ (s = <<>> => Len(s) = 0)
    BY EmptySeq
  <1>3. PartsMeanWell(s) /\ PartsMeanWell(v)
    BY SoundParts
  <1>4. ASSUME NEW i \in 0..Len(r), NEW j \in i..Len(r), IsPart(r, i, j)
        PROVE  MeansWell(r, i, j)
    <2>0. i \in Nat /\ j \in Nat /\ i <= j /\ j <= Len(r)
      BY <1>0, <1>2
    <2>1. CASE i < Len(s)
      <3>1. j < Len(s)
        <4> SUFFICES ASSUME Len(s) <= j PROVE FALSE
          BY <1>0, <2>0
        <4>1. Len(s) \in (i + 1)..j /\ Len(s) \in 1..Len(s) /\ s # <<>>
          BY <1>0, <2>0, <2>1
        <4>2. r[Len(s)].kind = "LF"
          BY <1>2, <4>1
        <4> QED
          BY <1>4, <4>1, <4>2 DEF IsPart
      <3>2. i \in 0..Len(s) /\ j \in i..Len(s)
        BY <1>0, <2>0, <2>1, <3>1
      <3>3. i = 0 \/ s[i].kind = "LF"
        BY <1>2, <1>4, <2>0, <3>2 DEF IsPart
      <3>4. Copies(r, i, s, i, j - i)
        BY <1>0, <1>2, <2>0, <3>1 DEF Copies
      <3>5. s[j + 1] = r[j + 1]
        BY <1>0, <1>2, <2>0, <3>1
      <3> QED
        BY <1>2, <1>3, <1>4, <3>1, <3>2, <3>3, <3>4, <3>5, Shifted
    <2>2. CASE ~(i < Len(s))
      <3>7. i - Len(s) \in 0..Len(v) /\ j - Len(s) \in (i - Len(s))..Len(v)
        BY <1>0, <1>2, <2>0, <2>2
      <3>1. PICK m \in 0..Len(v) : m = i - Len(s)
        BY <3>7
      <3>2. PICK n \in m..Len(v) : n = j - Len(s)
        BY <3>7, <3>1
      <3>3. m \in Nat /\ n \in Nat /\ i = Len(s) + m /\ j = Len(s) + n /\ j - i = n - m
        BY <1>0, <2>0, <3>1, <3>2
      <3>4. m = 0 \/ v[m].kind = "LF"
        <4> SUFFICES ASSUME m # 0 PROVE v[m].kind = "LF"
          OBVIOUS
        <4>1. m \in 1..Len(v) /\ i # 0
          BY <1>0, <3>3
        <4>2. r[i] = v[m]
          BY <1>2, <3>3, <4>1
        <4> QED
          BY <1>4, <4>1, <4>2 DEF IsPart
      <3>5. Copies(r, i, v, m, j - i)
        <4> SUFFICES ASSUME NEW k \in 1..(j - i) PROVE r[i + k] = v[m + k]
          BY DEF Copies
        <4>1. m + k \in 1..Len(v) /\ i + k = Len(s) + (m + k)
          BY <1>0, <3>3
        <4> QED
          BY <1>2, <4>1
      <3>6. j < Len(r) => n < Len(v) /\ v[n + 1] = r[j + 1]
        <4> SUFFICES ASSUME j < Len(r) PROVE n < Len(v) /\ v[n + 1] = r[j + 1]
          OBVIOUS
        <4>1. n + 1 \in 1..Len(v) /\ j + 1 = Len(s) + (n + 1)
          BY <1>0, <1>2, <3>3
        <4> QED
          BY <1>2, <4>1
      <3> QED
        BY <1>2, <1>3, <1>4, <3>3, <3>4, <3>5, <3>6, Shifted
    <2> QED
      BY <2>1, <2>2
  <1>5. PartsMeanWell(r)
    BY <1>4 DEF PartsMeanWell
  <1> QED
    BY <1>1, <1>2, <1>5, SoundParts

\* The elements of a sequence with one more at its end.
LEMMA OneMore ==
  ASSUME NEW s \in Seq(Tokens), NEW t \in Tokens
  PROVE  /\ Append(s, t) \in Seq(Tokens)
         /\ Len(Append(s, t)) = Len(s) + 1
         /\ Append(s, t)[Len(s) + 1] = t
         /\ \A k \in 1..Len(s) : Append(s, t)[k] = s[k]
  BY AppendProperties

\* Half a byte at the end spoils its line, if anything of it is left to hold.
LEMMA SoundHalf ==
  ASSUME NEW s \in Seq(Tokens), IsSound(s)
  PROVE  IsSound(Append(s, HalfByte))
  <1>1. PICK r : r = Append(s, HalfByte)
    OBVIOUS
  <1>2. /\ r \in Seq(Tokens) /\ Len(r) = Len(s) + 1 /\ r[Len(s) + 1] = HalfByte
        /\ \A k \in 1..Len(s) : r[k] = s[k]
    BY <1>1, WrittenTokens, OneMore
  <1>0. Len(s) \in Nat /\ kMaxBufferedBytes \in Nat
    BY LimitAssumption
  <1>3. PartsMeanWell(s) /\ HalfByte.kind = "half"
    BY SoundParts, WrittenTokens
  <1>4. ASSUME NEW i \in 0..Len(r), NEW j \in i..Len(r), IsPart(r, i, j)
        PROVE  MeansWell(r, i, j)
    <2>0. i \in Nat /\ j \in Nat /\ i <= j /\ j <= Len(s) + 1
      BY <1>0, <1>2
    <2>1. i <= Len(s) => (i = 0 \/ s[i].kind = "LF")
      BY <1>2, <1>4, <2>0 DEF IsPart
    <2>2. CASE j <= Len(s)
      <3>1. i \in 0..Len(s) /\ j \in i..Len(s)
        BY <2>0, <2>2
      <3>2. Copies(r, i, s, i, j - i)
        BY <1>2, <2>0, <2>2 DEF Copies
      <3>3. r[j + 1].kind = "LF" => j < Len(s) /\ s[j + 1] = r[j + 1]
        <4>1. j = Len(s) => r[j + 1].kind # "LF"
          BY <1>2, <1>3
        <4>2. j < Len(s) => s[j + 1] = r[j + 1]
          BY <1>2, <2>0
        <4> QED
          BY <1>0, <2>0, <2>2, <4>1, <4>2
      <3> QED
        BY <1>2, <1>3, <1>4, <2>1, <3>1, <3>2, <3>3, Shifted
    <2>3. CASE j = Len(s) + 1
      <3>0. ~(j < Len(r))
        BY <1>0, <1>2, <2>3
      <3>1. i <= Len(s)
        <4> SUFFICES ASSUME i = Len(s) + 1 PROVE FALSE
          BY <1>0, <2>0, <2>3
        <4> QED
          BY <1>0, <1>2, <1>3, <1>4 DEF IsPart
      <3>2. CASE j - i > kMaxBufferedBytes
        <4>1. /\ Len(s) \in i..Len(s) /\ Len(s) - i >= kMaxBufferedBytes
              /\ Upto(i, j) = i + kMaxBufferedBytes
              /\ Upto(i, Len(s)) = i + kMaxBufferedBytes
          BY <1>0, <2>0, <2>3, <3>2 DEF Upto
        <4>2. IsPart(s, i, Len(s))
          <5> SUFFICES ASSUME NEW k \in (i + 1)..Len(s) PROVE s[k].kind # "LF"
            BY <2>1, <3>1 DEF IsPart
          <5>1. k \in (i + 1)..j /\ k \in 1..Len(s)
            BY <1>0, <2>0, <2>3
          <5> QED
            BY <1>2, <1>4, <5>1 DEF IsPart
        <4>3. MeansWell(s, i, Len(s))
          <5>1. i \in 0..Len(s)
            BY <2>0, <3>1
          <5> QED
            BY <1>3, <4>1, <4>2, <5>1 DEF PartsMeanWell
        <4>4. EventOf(SubSeq(s, i + 1, i + kMaxBufferedBytes)) = NoEvent
          BY <4>1, <4>3 DEF MeansWell
        <4>5. SubSeq(r, i + 1, i + kMaxBufferedBytes)
                = SubSeq(s, i + 1, i + kMaxBufferedBytes)
          <5>1. PICK p \in Int : p = i + 1
            BY <2>0
          <5>2. PICK z \in Int : z = i + kMaxBufferedBytes
            BY <1>0, <2>0
          <5>3. z <= Len(s) /\ z <= Len(r)
            BY <1>0, <1>2, <2>0, <2>3, <3>2, <5>2
          <5>4. PICK l \in Int : l = kMaxBufferedBytes
            BY <1>0
          <5>5. l \in Nat /\ l = z - i
            BY <1>0, <2>0, <5>2, <5>4
          <5>6. Copies(r, i, s, i, l)
            BY <1>0, <1>2, <2>0, <5>2, <5>3, <5>5 DEF Copies
          <5>7. i \in Int
            BY <2>0
          <5>8. /\ p = i + 1 /\ i \in Nat /\ z <= Len(r) /\ z <= Len(s)
                /\ l \in Nat /\ l = z - i /\ r \in Seq(Tokens)
            BY <1>2, <2>0, <5>1, <5>3, <5>5
          <5>9. SubSeq(r, p, z) = SubSeq(s, p, z)
            BY <5>6, <5>7, <5>8, SameStretch
          <5> QED
            BY <5>1, <5>2, <5>9
        <4> QED
          BY <3>0, <4>1, <4>4, <4>5 DEF MeansWell
      <3>3. CASE ~(j - i > kMaxBufferedBytes)
        <4>1. Upto(i, j) = j
          BY <1>0, <2>0, <3>3 DEF Upto
        <4>2. PICK line : line = SubSeq(r, i + 1, j)
          OBVIOUS
        <4>3. line \in Seq(Tokens) /\ Len(line) = j - i
              /\ \A k \in 1..(j - i) : line[k] = r[i + k]
          BY <1>2, <4>2, Stretch
        <4>4. j - i \in 1..Len(line) /\ line[j - i] = HalfByte
          <5>1. j - i \in 1..(j - i) /\ i + (j - i) = Len(s) + 1
            BY <1>0, <2>0, <2>3, <3>1
          <5> QED
            BY <1>2, <4>3, <5>1
        <4>5. EventOf(line) = NoEvent
          BY <1>3, <4>3, <4>4, Spoiled
        <4> QED
          BY <3>0, <4>1, <4>2, <4>5 DEF MeansWell
      <3> QED
        BY <3>2, <3>3
    <2> QED
      BY <1>0, <2>0, <2>2, <2>3
  <1>5. PartsMeanWell(r)
    BY <1>4 DEF PartsMeanWell
  <1> QED
    BY <1>1, <1>2, <1>5, SoundParts

\* The elements of two rows of tokens one after the other.
LEMMA RowsConcat ==
  \A s, t \in Seq(Tokens) :
    /\ s \o t \in Seq(Tokens) /\ Len(s \o t) = Len(s) + Len(t)
    /\ \A k \in 1..Len(s) : (s \o t)[k] = s[k]
    /\ \A k \in 1..Len(t) : (s \o t)[Len(s) + k] = t[k]
  BY ConcatProperties

\* What a full assembler drops of a line leaves the lines behind it alone.
LEMMA SoundDrop ==
  ASSUME NEW b \in Seq(Tokens), Len(b) = kMaxBufferedBytes, HasNoEnd(b),
         NEW w \in Seq(Tokens), w # <<>>, Head(w).kind # "LF",
         IsSound(b \o w)
  PROVE  IsSound(b \o Tail(w))
  <1>1. PICK s : s = b \o w
    OBVIOUS
  <1>2. PICK r : r = b \o Tail(w)
    OBVIOUS
  <1>0. PICK L \in Nat : L = Len(b) /\ L = kMaxBufferedBytes
    BY LimitAssumption
  <1>12. /\ Tail(w) \in Seq(Tokens) /\ Len(Tail(w)) = Len(w) - 1
        /\ Len(w) \in Nat /\ Len(w) >= 1
        /\ \A k \in 1..Len(Tail(w)) : Tail(w)[k] = w[k + 1]
        /\ w[1].kind # "LF"
    <2>1. Len(w) \in Nat /\ Len(w) # 0
      BY EmptySeq
    <2> QED
      BY <2>1, HeadTailProperties
  <1>3. /\ s \in Seq(Tokens) /\ Len(s) = L + Len(w)
        /\ \A k \in 1..L : s[k] = b[k]
        /\ \A k \in 1..Len(w) : s[L + k] = w[k]
    <2>1. /\ s \in Seq(Tokens) /\ Len(s) = Len(b) + Len(w)
          /\ \A k \in 1..Len(b) : s[k] = b[k]
          /\ \A k \in 1..Len(w) : s[Len(b) + k] = w[k]
      BY <1>1, RowsConcat, Zenon
    <2> QED
      BY <1>0, <2>1
  <1>4. /\ r \in Seq(Tokens) /\ Len(r) = L + (Len(w) - 1)
        /\ \A k \in 1..L : r[k] = b[k]
        /\ \A k \in 1..(Len(w) - 1) : r[L + k] = w[k + 1]
    <2>1. PICK v : v = Tail(w)
      OBVIOUS
    <2>2. /\ v \in Seq(Tokens) /\ Len(v) = Len(w) - 1
          /\ \A k \in 1..(Len(w) - 1) : v[k] = w[k + 1]
      BY <1>12, <2>1
    <2>3. r = b \o v
      BY <1>2, <2>1
    <2>4. /\ r \in Seq(Tokens) /\ Len(r) = Len(b) + Len(v)
          /\ \A k \in 1..Len(b) : r[k] = b[k]
          /\ \A k \in 1..Len(v) : r[Len(b) + k] = v[k]
      BY <2>2, <2>3, ConcatProperties
    <2> QED
      BY <1>0, <2>2, <2>4
  <1>5. Len(s) = Len(r) + 1 /\ Len(r) \in Nat /\ Len(r) >= L
    BY <1>12, <1>3, <1>4
  <1>6. \A k \in (L + 1)..Len(r) : r[k] = s[k + 1]
    <2> SUFFICES ASSUME NEW k \in (L + 1)..Len(r) PROVE r[k] = s[k + 1]
      OBVIOUS
    <2>1. PICK m \in 1..(Len(w) - 1) : k = L + m
      <3>1. k - L \in 1..(Len(w) - 1) /\ k = L + (k - L)
        BY <1>12, <1>4, <1>5
      <3> QED
        BY <3>1
    <2>2. r[k] = w[m + 1]
      BY <1>4, <2>1
    <2>3. m + 1 \in 1..Len(w) /\ k + 1 = L + (m + 1)
      BY <1>12, <2>1
    <2> QED
      BY <1>3, <2>2, <2>3
  <1>7. \A k \in 1..L : s[k] = r[k] /\ s[k].kind # "LF"
    BY <1>0, <1>3, <1>4 DEF HasNoEnd
  <1>8. s[L + 1].kind # "LF"
    <2>1. s[L + 1] = w[1]
      BY <1>3, <1>12
    <2> QED
      BY <2>1, <1>12
  <1>9. PartsMeanWell(s)
    BY <1>1, <1>3, SoundParts
  <1>10. ASSUME NEW i \in 0..Len(r), NEW j \in i..Len(r), IsPart(r, i, j)
         PROVE  MeansWell(r, i, j)
    <2>0. i \in Nat /\ j \in Nat /\ i <= j /\ j <= Len(r)
      BY <1>5
    <2>1. CASE i = 0 /\ j < L
      <3>1. i \in 0..Len(s) /\ j \in i..Len(s)
        BY <1>5, <2>0
      <3>2. Copies(r, i, s, i, j - i)
        BY <1>5, <1>7, <2>0, <2>1 DEF Copies
      <3>3. j < Len(s) /\ s[j + 1] = r[j + 1]
        BY <1>5, <1>7, <2>0, <2>1
      <3> QED
        BY <1>3, <1>4, <1>9, <1>10, <2>1, <3>1, <3>2, <3>3, Shifted
    <2>2. CASE i = 0 /\ ~(j < L)
      <3>1. PICK n \in Int : n = j + 1
        BY <2>0
      <3>2. i \in 0..Len(s) /\ n \in i..Len(s)
        BY <1>5, <2>0, <3>1
      <3>3. IsPart(s, i, n)
        <4> SUFFICES ASSUME NEW k \in (i + 1)..n PROVE s[k].kind # "LF"
          BY <2>2 DEF IsPart
        <4>1. CASE k <= L
          BY <1>7, <2>0, <4>1
        <4>2. CASE k = L + 1
          BY <1>8, <4>2
        <4>3. CASE k > L + 1
          <5>1. k - 1 \in (L + 1)..Len(r) /\ (k - 1) + 1 = k /\ k - 1 \in (i + 1)..j
            BY <1>5, <2>0, <2>2, <3>1, <4>3
          <5>2. r[k - 1] = s[k]
            BY <1>6, <5>1
          <5>3. r[k - 1].kind # "LF"
            BY <1>10, <5>1 DEF IsPart
          <5> QED
            BY <5>2, <5>3
        <4> QED
          BY <2>0, <4>1, <4>2, <4>3
      <3>4. Upto(i, j) = L /\ Upto(i, n) = L
        BY <1>0, <2>0, <2>2, <3>1 DEF Upto
      <3>5. SubSeq(r, i + 1, L) = SubSeq(s, i + 1, L)
        <4>1. PICK p \in Int : p = i + 1
          BY <2>0
        <4>2. PICK z \in Int : z = L
          BY <1>0
        <4>6. PICK l \in Int : l = L
          BY <1>0
        <4>3. l \in Nat /\ l = z - i /\ z <= Len(s) /\ z <= Len(r) /\ i \in Int
          BY <1>0, <1>5, <2>2, <4>2, <4>6
        <4>4. Copies(r, i, s, i, l)
          BY <1>7, <2>2, <4>6 DEF Copies
        <4>5. /\ p = i + 1 /\ i \in Nat /\ z <= Len(r) /\ z <= Len(s)
              /\ l \in Nat /\ l = z - i /\ i \in Int
              /\ r \in Seq(Tokens) /\ s \in Seq(Tokens)
          BY <1>3, <1>4, <2>0, <4>1, <4>3
        <4>7. SubSeq(r, p, z) = SubSeq(s, p, z)
          BY <4>4, <4>5, SameStretch
        <4> QED
          BY <4>1, <4>2, <4>7
      <3>6. j < Len(r) => n < Len(s) /\ s[n + 1] = r[j + 1]
        <4> SUFFICES ASSUME j < Len(r) PROVE n < Len(s) /\ s[n + 1] = r[j + 1]
          OBVIOUS
        <4>1. j + 1 \in (L + 1)..Len(r) /\ n + 1 = (j + 1) + 1
          BY <1>0, <1>5, <2>0, <2>2, <3>1
        <4> QED
          BY <1>5, <1>6, <2>0, <3>1, <4>1
      <3>7. n - i >= kMaxBufferedBytes
        BY <1>0, <2>0, <2>2, <3>1
      <3> QED
        BY <1>3, <1>4, <1>9, <3>2, <3>3, <3>4, <3>5, <3>6, <3>7, Transfer
    <2>3. CASE i # 0
      <3>1. i > L
        <4>1. r[i].kind = "LF"
          BY <1>10, <2>3 DEF IsPart
        <4>2. i <= L => i \in 1..L
          BY <2>0, <2>3
        <4> QED
          BY <1>0, <1>7, <2>0, <4>1, <4>2
      <3>2. PICK m \in 0..Len(s) : m = i + 1
        BY <1>5, <2>0
      <3>3. PICK n \in m..Len(s) : n = j + 1
        BY <1>5, <2>0, <3>2
      <3>4. j - i = n - m
        BY <2>0, <3>2, <3>3
      <3>5. s[m].kind = "LF"
        <4>1. i \in (L + 1)..Len(r)
          BY <1>0, <2>0, <3>1
        <4> QED
          BY <1>6, <1>10, <2>3, <3>2, <4>1 DEF IsPart
      <3>6. Copies(r, i, s, m, j - i)
        <4> SUFFICES ASSUME NEW k \in 1..(j - i) PROVE r[i + k] = s[m + k]
          BY DEF Copies
        <4>1. i + k \in (L + 1)..Len(r) /\ (i + k) + 1 = m + k
          BY <1>0, <2>0, <3>1, <3>2
        <4> QED
          BY <1>6, <4>1
      <3>7. j < Len(r) => n < Len(s) /\ s[n + 1] = r[j + 1]
        <4> SUFFICES ASSUME j < Len(r) PROVE n < Len(s) /\ s[n + 1] = r[j + 1]
          OBVIOUS
        <4>1. j + 1 \in (L + 1)..Len(r) /\ n + 1 = (j + 1) + 1
          BY <1>0, <1>5, <2>0, <3>1, <3>3
        <4> QED
          BY <1>5, <1>6, <2>0, <3>3, <4>1
      <3> QED
        BY <1>3, <1>4, <1>9, <1>10, <3>4, <3>5, <3>6, <3>7, Shifted
    <2> QED
      BY <2>1, <2>2, <2>3
  <1>11. PartsMeanWell(r)
    BY <1>10 DEF PartsMeanWell
  <1> QED
    BY <1>2, <1>4, <1>11, SoundParts

\* Behind the last line end nothing has been fed.
LEMMA NothingFed ==
  ASSUME NEW s \in Seq(Tokens)
  PROVE  MeansWell(s, Len(s), Len(s))
  <1>0. Len(s) \in Nat /\ kMaxBufferedBytes \in Nat /\ kMaxBufferedBytes >= 7
    BY LimitAssumption
  <1>1. Len(s) - Len(s) = 0
    BY <1>0
  <1> QED
    BY <1>0, <1>1 DEF MeansWell

\* The elements of a line.
LEMMA LineElements ==
  ASSUME NEW body \in Seq(Tokens), NEW event \in Meaning
  PROVE  /\ Append(body, LF(event)) \in Seq(Tokens)
         /\ Len(Append(body, LF(event))) = Len(body) + 1
         /\ Append(body, LF(event))[Len(body) + 1] = LF(event)
         /\ \A k \in 1..Len(body) : Append(body, LF(event))[k] = body[k]
  <1>1. LF(event) \in Tokens
    BY WrittenTokens
  <1> QED
    BY <1>1, OneMore

\* A single line is sound when it is taken for what its end says, and for nothing
\* when the assembler is full.
LEMMA OneLine ==
  ASSUME NEW body \in Seq(Tokens), HasNoEnd(body), NEW event \in Meaning,
         EventOf(SubSeq(body, 1, Upto(0, Len(body)))) = event,
         Len(body) >= kMaxBufferedBytes
           => EventOf(SubSeq(body, 1, kMaxBufferedBytes)) = NoEvent
  PROVE  IsSound(Append(body, LF(event)))
  <1>0. PICK L \in Nat : L = Len(body)
    OBVIOUS
  <1>1. PICK r : r = Append(body, LF(event))
    OBVIOUS
  <1>2. /\ r \in Seq(Tokens) /\ Len(r) = L + 1 /\ r[L + 1] = LF(event)
        /\ \A k \in 1..L : r[k] = body[k]
    BY <1>0, <1>1, LineElements
  <1>3. /\ LF(event).kind = "LF" /\ LF(event).means = event
        /\ kMaxBufferedBytes \in Nat /\ kMaxBufferedBytes >= 7
    BY WrittenTokens, LimitAssumption
  <1>4. \A k \in 1..L : r[k].kind # "LF"
    BY <1>0, <1>2 DEF HasNoEnd
  <1>5. ASSUME NEW i \in 0..Len(r), NEW j \in i..Len(r), IsPart(r, i, j)
        PROVE  MeansWell(r, i, j)
    <2>0. i \in Nat /\ j \in Nat /\ i <= j /\ j <= L + 1
      BY <1>2
    <2>1. CASE i = 0
      <3>1. j <= L
        <4> SUFFICES ASSUME j = L + 1 PROVE FALSE
          BY <1>0, <2>0
        <4>1. L + 1 \in (i + 1)..j
          BY <2>1
        <4> QED
          BY <1>2, <1>3, <1>5, <4>1 DEF IsPart
      <3>2. PICK x \in Int : x = Upto(0, j)
        BY <1>3, <2>0 DEF Upto
      <3>3. x \in Nat /\ x <= j
        BY <1>3, <2>0, <3>2 DEF Upto
      <3>4. SubSeq(r, 1, x) = SubSeq(body, 1, x)
        <4>1. PICK p \in Int : p = 1
          OBVIOUS
        <4>2. PICK z \in Int : z = 0
          OBVIOUS
        <4>3. p = z + 1 /\ z \in Nat /\ x = x - z /\ x <= Len(r) /\ x <= Len(body)
          BY <1>0, <1>2, <3>1, <3>3, <4>1, <4>2
        <4>4. Copies(r, z, body, z, x)
          BY <1>0, <1>2, <3>1, <3>3, <4>2 DEF Copies
        <4>5. SubSeq(r, p, x) = SubSeq(body, p, x)
          BY <1>2, <3>3, <4>3, <4>4, SameStretch
        <4> QED
          BY <4>1, <4>5
      <3>5. j >= kMaxBufferedBytes => EventOf(SubSeq(r, 1, x)) = NoEvent
        <4> SUFFICES ASSUME j >= kMaxBufferedBytes
                     PROVE  EventOf(SubSeq(r, 1, x)) = NoEvent
          OBVIOUS
        <4>1. x = kMaxBufferedBytes /\ Len(body) >= kMaxBufferedBytes
          BY <1>0, <1>3, <2>0, <3>1, <3>2 DEF Upto
        <4> QED
          BY <3>4, <4>1
      <3>6. r[j + 1].kind = "LF" => EventOf(SubSeq(r, 1, x)) = r[j + 1].means
        <4> SUFFICES ASSUME r[j + 1].kind = "LF"
                     PROVE  EventOf(SubSeq(r, 1, x)) = r[j + 1].means
          OBVIOUS
        <4>1. j = L
          BY <1>0, <1>4, <2>0, <3>1
        <4>2. x = Upto(0, Len(body)) /\ r[j + 1].means = event
          BY <1>0, <1>2, <1>3, <3>2, <4>1
        <4> QED
          BY <3>4, <4>2
      <3>7. i + 1 = 1 /\ j - i = j /\ Upto(i, j) = x
        BY <2>0, <2>1, <3>2
      <3> QED
        BY <3>5, <3>6, <3>7 DEF MeansWell
    <2>2. CASE i # 0
      <3>1. r[i].kind = "LF"
        BY <1>5, <2>2 DEF IsPart
      <3>2. i = L + 1 /\ j = L + 1
        BY <1>0, <1>4, <2>0, <2>2, <3>1
      <3> QED
        BY <1>2, <3>2, NothingFed
    <2> QED
      BY <2>1, <2>2
  <1>6. PartsMeanWell(r)
    BY <1>5 DEF PartsMeanWell
  <1> QED
    BY <1>1, <1>2, <1>6, SoundParts

\* Lines of the server as sequences that grow.
LEMMA LineGrows ==
  ASSUME NEW text \in Seq(Tokens), NEW event \in Meaning
  PROVE  /\ Line(text, event) = Append(Append(text, CR), LF(event))
         /\ Line(text, event) \in Seq(Tokens)
         /\ Line(text, event) # <<>>
         /\ Line(text, event)[Len(Line(text, event))].kind = "LF"
         /\ HasNoEnd(text) => HasNoEnd(Append(text, CR))
         /\ HasNoEnd(text) => Meanings(Line(text, event))
                                = IF event = NoEvent THEN <<>> ELSE <<event>>
  <1>1. CR \in Tokens /\ CR.kind = "CR"
    BY WrittenTokens
  <1>2. LF(event) \in Tokens /\ LF(event).kind = "LF" /\ LF(event).means = event
    BY WrittenTokens
  <1>3. PICK body : body = Append(text, CR)
    OBVIOUS
  <1>4. /\ body \in Seq(Tokens) /\ Len(body) = Len(text) + 1 /\ body[Len(text) + 1] = CR
        /\ \A k \in 1..Len(text) : body[k] = text[k]
    BY <1>1, <1>3, OneMore
  <1>5. PICK line : line = Append(body, LF(event))
    OBVIOUS
  <1>6. /\ line \in Seq(Tokens) /\ Len(line) = Len(body) + 1
        /\ line[Len(body) + 1] = LF(event)
    BY <1>2, <1>4, <1>5, OneMore
  <1>7. Line(text, event) = line
    <2>1. <<CR, LF(event)>> = Append(<<CR>>, LF(event)) /\ <<CR>> = Append(<<>>, CR)
      OBVIOUS
    <2>2. <<>> \in Seq(Tokens) /\ <<CR>> \in Seq(Tokens)
      BY <1>1
    <2>3. text \o <<CR>> = Append(text \o <<>>, CR)
      BY <1>1, <2>1, <2>2, AppendToConcat
    <2>4. text \o <<>> = text
      BY ConcatEmptySeq
    <2>5. text \o Append(<<CR>>, LF(event)) = Append(text \o <<CR>>, LF(event))
      BY <1>2, <2>2, AppendToConcat
    <2> QED
      BY <1>3, <1>5, <2>1, <2>3, <2>4, <2>5 DEF Line
  <1>8. HasNoEnd(text) => HasNoEnd(body)
    <2> SUFFICES ASSUME HasNoEnd(text), NEW k \in 1..Len(body)
                 PROVE  body[k].kind # "LF"
      BY DEF HasNoEnd
    <2>1. k \in 1..Len(text) \/ k = Len(text) + 1
      BY <1>4
    <2> QED
      BY <1>1, <1>4, <2>1 DEF HasNoEnd
  <1>9. line # <<>> /\ line[Len(line)].kind = "LF"
    <2>1. Len(line) # 0
      BY <1>4, <1>6
    <2> QED
      BY <1>2, <1>6, <2>1, EmptySeq
  <1>10. HasNoEnd(text) => Meanings(line) = IF event = NoEvent THEN <<>> ELSE <<event>>
    <2> SUFFICES ASSUME HasNoEnd(text)
                 PROVE  Meanings(line) = IF event = NoEvent THEN <<>> ELSE <<event>>
      OBVIOUS
    <2>1. line = body \o <<LF(event)>>
      BY <1>2, <1>4, <1>5, AppendIsConcat
    <2>2. <<LF(event)>> \in Seq(Tokens)
      BY <1>2
    <2>3. Meanings(line) = Meanings(body) \o Meanings(<<LF(event)>>)
      BY <1>4, <2>1, <2>2, MeaningsConcat
    <2>4. Meanings(body) = <<>>
      BY <1>4, <1>8, MeaningsOfNoEnd
    <2>5. Meanings(<<LF(event)>>) = IF event = NoEvent THEN <<>> ELSE <<event>>
      BY <1>2, MeaningsOfEnd
    <2>6. <<>> \o <<>> = <<>> /\ <<>> \o <<event>> = <<event>>
      <3>1. <<event>> \in Seq(Meaning) /\ <<>> \in Seq(Meaning)
        OBVIOUS
      <3> QED
        BY <3>1, ConcatEmptySeq
    <2> QED
      BY <2>3, <2>4, <2>5, <2>6
  <1> QED
    BY <1>3, <1>5, <1>6, <1>7, <1>8, <1>9, <1>10

\* The greeting, or a confirmation, is no switch message, and neither is what an
\* earlier connection left in the assembler in front of it.
LEMMA SoundWord ==
  ASSUME NEW b \in Seq(Tokens), HasNoEnd(b), IsSound(b),
         NEW text \in {"VERSION", "SENT"}
  PROVE  IsSound(b \o Line(<<Word(text)>>, NoEvent))
  <1>0. PICK L \in Nat : L = Len(b)
    OBVIOUS
  <1>1. PICK v : v = Line(<<Word(text)>>, NoEvent)
    OBVIOUS
  <1>2. PICK r : r = b \o v
    OBVIOUS
  <1>3. /\ Word(text) \in Tokens /\ Word(text).kind = text
        /\ CR \in Tokens /\ CR.kind = "CR"
        /\ NoEvent \in Meaning
        /\ LF(NoEvent) \in Tokens /\ LF(NoEvent).kind = "LF"
        /\ LF(NoEvent).means = NoEvent
    BY WrittenTokens DEF Meaning
  <1>4. /\ v \in Seq(Tokens) /\ Len(v) = 3
        /\ v[1] = Word(text) /\ v[2] = CR /\ v[3] = LF(NoEvent)
    <2>1. <<Word(text)>> \in Seq(Tokens) /\ Len(<<Word(text)>>) = 1
          /\ <<Word(text)>>[1] = Word(text)
      BY <1>3
    <2>2. v = Append(Append(<<Word(text)>>, CR), LF(NoEvent))
      BY <1>1, <1>3, <2>1, LineGrows
    <2>3. PICK a : a = Append(<<Word(text)>>, CR)
      OBVIOUS
    <2>4. a \in Seq(Tokens) /\ Len(a) = 2 /\ a[1] = Word(text) /\ a[2] = CR
      BY <1>3, <2>1, <2>3, OneMore
    <2> QED
      BY <1>3, <2>2, <2>3, <2>4, OneMore
  <1>5. /\ r \in Seq(Tokens) /\ Len(r) = L + 3
        /\ \A k \in 1..L : r[k] = b[k]
        /\ r[L + 1] = Word(text) /\ r[L + 2] = CR /\ r[L + 3] = LF(NoEvent)
    <2>1. /\ r \in Seq(Tokens) /\ Len(r) = Len(b) + Len(v)
          /\ \A k \in 1..Len(b) : r[k] = b[k]
          /\ \A k \in 1..Len(v) : r[Len(b) + k] = v[k]
      BY <1>2, <1>4, RowsConcat
    <2> QED
      BY <1>0, <1>4, <2>1
  <1>6. \A k \in 1..(L + 2) : r[k].kind # "LF"
    <2> SUFFICES ASSUME NEW k \in 1..(L + 2) PROVE r[k].kind # "LF"
      OBVIOUS
    <2>1. k \in 1..L \/ k = L + 1 \/ k = L + 2
      OBVIOUS
    <2>2. k \in 1..L => r[k].kind # "LF"
      BY <1>0, <1>5 DEF HasNoEnd
    <2> QED
      BY <1>3, <1>5, <2>1, <2>2
  <1>7. PartsMeanWell(b) /\ kMaxBufferedBytes \in Nat /\ kMaxBufferedBytes >= 7
    BY SoundParts, LimitAssumption
  <1>8. IsPart(b, 0, L)
    BY <1>0 DEF IsPart, HasNoEnd
  <1>9. ASSUME NEW i \in 0..Len(r), NEW j \in i..Len(r), IsPart(r, i, j)
        PROVE  MeansWell(r, i, j)
    <2>0. i \in Nat /\ j \in Nat /\ i <= j /\ j <= L + 3
      BY <1>5
    <2>1. CASE i # 0
      <3>1. r[i].kind = "LF"
        BY <1>9, <2>1 DEF IsPart
      <3>2. i = L + 3 /\ j = L + 3
        BY <1>6, <2>0, <2>1, <3>1
      <3> QED
        BY <1>5, <3>2, NothingFed
    <2>2. CASE i = 0
      <3>1. j <= L + 2
        <4> SUFFICES ASSUME j = L + 3 PROVE FALSE
          BY <2>0
        <4>1. L + 3 \in (i + 1)..j
          BY <2>2
        <4> QED
          BY <1>3, <1>5, <1>9, <4>1 DEF IsPart
      <3>2. CASE j <= L
        <4>1. i \in 0..Len(b) /\ j \in i..Len(b)
          BY <1>0, <2>0, <3>2
        <4>2. Copies(r, i, b, i, j - i)
          BY <1>5, <2>0, <2>2, <3>2 DEF Copies
        <4>3. r[j + 1].kind # "LF"
          BY <1>6, <2>0, <3>2
        <4> QED
          BY <1>5, <1>7, <1>9, <2>2, <4>1, <4>2, <4>3, Shifted
      <3>3. CASE j > L
        <4>1. PICK x \in Int : x = Upto(0, j)
          BY <1>7, <2>0 DEF Upto
        <4>2. PICK line : line = SubSeq(r, 1, x)
          OBVIOUS
        <4>3. EventOf(line) = NoEvent
          <5>1. CASE L >= kMaxBufferedBytes
            <6>1. x = kMaxBufferedBytes /\ Upto(0, L) = kMaxBufferedBytes
              BY <1>7, <2>0, <3>3, <4>1, <5>1 DEF Upto
            <6>2. MeansWell(b, 0, L)
              <7>1. 0 \in 0..Len(b) /\ L \in 0..Len(b)
                BY <1>0
              <7> QED
                BY <1>7, <1>8, <7>1 DEF PartsMeanWell
            <6>3. EventOf(SubSeq(b, 1, x)) = NoEvent
              <7>1. L - 0 >= kMaxBufferedBytes /\ 0 + 1 = 1
                BY <5>1
              <7> QED
                BY <6>1, <6>2, <7>1 DEF MeansWell
            <6>4. SubSeq(r, 1, x) = SubSeq(b, 1, x)
              <7>1. PICK p \in Int : p = 1
                OBVIOUS
              <7>2. PICK z \in Int : z = 0
                OBVIOUS
              <7>3. p = z + 1 /\ z \in Nat /\ x \in Nat /\ x = x - z
                    /\ x <= Len(r) /\ x <= Len(b)
                BY <1>0, <1>5, <1>7, <5>1, <6>1, <7>1, <7>2
              <7>4. Copies(r, z, b, z, x)
                BY <1>0, <1>5, <7>2, <7>3 DEF Copies
              <7>5. SubSeq(r, p, x) = SubSeq(b, p, x)
                BY <1>5, <7>3, <7>4, SameStretch
              <7> QED
                BY <7>1, <7>5
            <6> QED
              BY <4>2, <6>3, <6>4
          <5>2. CASE L < kMaxBufferedBytes
            <6>1. x \in Nat /\ L + 1 <= x /\ x <= Len(r)
              BY <1>5, <1>7, <2>0, <3>3, <4>1, <5>2 DEF Upto
            <6>2. /\ line \in Seq(Tokens) /\ Len(line) = x
                  /\ \A k \in 1..x : line[k] = r[k]
              <7>1. 0 \in 0..Len(r) /\ x \in 0..Len(r) /\ 0 + 1 = 1 /\ x - 0 = x
                BY <1>5, <6>1
              <7>2. /\ SubSeq(r, 0 + 1, x) \in Seq(Tokens)
                    /\ Len(SubSeq(r, 0 + 1, x)) = x - 0
                    /\ \A k \in 1..(x - 0) : SubSeq(r, 0 + 1, x)[k] = r[0 + k]
                BY <1>5, <7>1, Stretch
              <7>3. \A k \in 1..x : 0 + k = k
                BY <6>1
              <7> QED
                BY <4>2, <7>1, <7>2, <7>3
            <6>3. L + 1 \in 1..Len(line) /\ line[L + 1].kind = text
              BY <1>3, <1>5, <6>1, <6>2
            <6> QED
              BY <6>2, <6>3, Spoiled
          <5> QED
            BY <1>7, <5>1, <5>2
        <4>4. r[j + 1].kind = "LF" /\ j < Len(r) => r[j + 1].means = NoEvent
          <5> SUFFICES ASSUME r[j + 1].kind = "LF", j < Len(r)
                       PROVE  r[j + 1].means = NoEvent
            OBVIOUS
          <5>1. j + 1 = L + 3
            BY <1>5, <1>6, <2>0, <3>1
          <5> QED
            BY <1>3, <1>5, <5>1
        <4>5. i + 1 = 1 /\ Upto(i, j) = x
          BY <2>2, <4>1
        <4> QED
          BY <4>2, <4>3, <4>4, <4>5 DEF MeansWell
      <3> QED
        BY <2>0, <3>2, <3>3
    <2> QED
      BY <2>1, <2>2
  <1>10. PartsMeanWell(r)
    BY <1>9 DEF PartsMeanWell
  <1> QED
    BY <1>1, <1>2, <1>5, <1>10, SoundParts

\* Nothing on the wire is sound.
LEMMA SoundNothing == IsSound(<<>>) /\ <<>> \in Seq(Tokens) /\ HasNoEnd(<<>>)
  <1>1. <<>> \in Seq(Tokens) /\ Len(<<>>) = 0
    BY EmptySeq
  <1>2. PartsMeanWell(<<>>)
    <2> SUFFICES ASSUME NEW i \in 0..Len(<<>>), NEW j \in i..Len(<<>>)
                 PROVE  MeansWell(<<>>, i, j)
      BY DEF PartsMeanWell
    <2>1. i = Len(<<>>) /\ j = Len(<<>>)
      BY <1>1
    <2> QED
      BY <1>1, <2>1, NothingFed
  <1>3. HasNoEnd(<<>>)
    BY <1>1 DEF HasNoEnd
  <1>4. IsSound(<<>>)
    BY <1>1, <1>2, SoundParts
  <1> QED
    BY <1>1, <1>3, <1>4

\* A first part of a message that no decoder takes is taken by none.
LEMMA PartOfMessage ==
  ASSUME NEW bytes \in Seq(Nat), bytes # <<>>, ~CanDecode(bytes),
         NEW n \in 1..(Len(bytes) + 1)
  PROVE  EventOf(SubSeq(Received(bytes), 1, n)) = NoEvent
  <1>0. Len(bytes) \in Nat /\ n \in Nat /\ n >= 1 /\ n <= Len(bytes) + 1
    OBVIOUS
  <1>1. PICK line : line = Received(bytes)
    OBVIOUS
  <1>2. /\ line \in Seq(Tokens) /\ line # <<>> /\ Len(line) = Len(bytes) + 1
        /\ Head(line) = Word("RECEIVE") /\ Tail(line) = Row(bytes)
    BY <1>1, ReceivedType
  <1>3. PICK first : first = SubSeq(bytes, 1, n - 1)
    OBVIOUS
  <1>4. /\ first \in Seq(Nat) /\ Len(first) = n - 1
        /\ \A k \in 1..(n - 1) : first[k] = bytes[k]
    <2>1. 0 \in 0..Len(bytes) /\ n - 1 \in 0..Len(bytes) /\ 0 + 1 = 1 /\ n - 1 - 0 = n - 1
      BY <1>0
    <2>2. /\ SubSeq(bytes, 0 + 1, n - 1) \in Seq(Nat)
          /\ Len(SubSeq(bytes, 0 + 1, n - 1)) = n - 1 - 0
          /\ \A k \in 1..(n - 1 - 0) : SubSeq(bytes, 0 + 1, n - 1)[k] = bytes[0 + k]
      BY <2>1, Stretch
    <2>3. \A k \in 1..(n - 1) : 0 + k = k
      BY <1>0
    <2> QED
      BY <1>3, <2>1, <2>2, <2>3
  <1>5. SubSeq(line, 1, n) = Received(first)
    <2>1. PICK a : a = SubSeq(line, 1, n)
      OBVIOUS
    <2>2. PICK c : c = Received(first)
      OBVIOUS
    <2>3. a \in Seq(Tokens) /\ Len(a) = n /\ \A k \in 1..n : a[k] = line[k]
      <3>1. 0 \in 0..Len(line) /\ n \in 0..Len(line) /\ 0 + 1 = 1 /\ n - 0 = n
        BY <1>0, <1>2
      <3>2. /\ SubSeq(line, 0 + 1, n) \in Seq(Tokens)
            /\ Len(SubSeq(line, 0 + 1, n)) = n - 0
            /\ \A k \in 1..(n - 0) : SubSeq(line, 0 + 1, n)[k] = line[0 + k]
        BY <1>2, <3>1, Stretch
      <3>3. \A k \in 1..n : 0 + k = k
        BY <1>0
      <3> QED
        BY <2>1, <3>1, <3>2, <3>3
    <2>4. /\ c \in Seq(Tokens) /\ c # <<>> /\ Len(c) = n
          /\ Head(c) = Word("RECEIVE") /\ Tail(c) = Row(first)
      <3>1. /\ c \in Seq(Tokens) /\ c # <<>> /\ Len(c) = Len(first) + 1
            /\ Head(c) = Word("RECEIVE") /\ Tail(c) = Row(first)
        BY <1>4, <2>2, ReceivedType
      <3> QED
        BY <1>0, <1>4, <3>1
    <2>5. \A k \in 1..n : a[k] = c[k]
      <3> SUFFICES ASSUME NEW k \in 1..n PROVE line[k] = c[k]
        BY <2>3
      <3>1. CASE k = 1
        BY <1>2, <2>4, <3>1
      <3>2. CASE k # 1
        <4>1. k - 1 \in 1..Len(bytes) /\ k - 1 \in 1..(n - 1) /\ (k - 1) + 1 = k
          BY <1>0, <3>2
        <4>2. line[k] = Row(bytes)[k - 1]
          <5>1. \A m \in 1..Len(Tail(line)) : Tail(line)[m] = line[m + 1]
            BY <1>2, HeadTailProperties
          <5>2. k - 1 \in 1..Len(Tail(line))
            BY <1>2, <4>1, RowType
          <5> QED
            BY <1>2, <4>1, <5>1, <5>2
        <4>3. c[k] = Row(first)[k - 1]
          <5>1. \A m \in 1..Len(Tail(c)) : Tail(c)[m] = c[m + 1]
            BY <2>4, HeadTailProperties
          <5>2. k - 1 \in 1..Len(Tail(c))
            BY <1>4, <2>4, <4>1, RowType
          <5> QED
            BY <2>4, <4>1, <5>1, <5>2
        <4>4. Row(bytes)[k - 1] = Byte(bytes[k - 1]) /\ Row(first)[k - 1] = Byte(first[k - 1])
          BY <1>4, <4>1 DEF Row
        <4> QED
          BY <1>4, <4>1, <4>2, <4>3, <4>4
      <3> QED
        BY <3>1, <3>2
    <2>6. a = c
      BY <2>3, <2>4, <2>5, SeqEqual
    <2> QED
      BY <2>1, <2>2, <2>6
  <1>6. Decoded(first) = NoEvent
    <2>1. CASE n = 1
      <3>1. Len(first) < 4
        BY <1>0, <1>4, <2>1
      <3> QED
        BY <3>1 DEF Decoded, EventFrom
    <2>2. CASE n # 1
      <3>1. first[1] = bytes[1]
        BY <1>0, <1>4, <2>2
      <3>2. ~CanDecode(first)
        BY <3>1 DEF CanDecode
      <3> QED
        BY <3>2 DEF Decoded, EventFrom
    <2> QED
      BY <2>1, <2>2
  <1>7. EventOf(Received(first)) = NoEvent
    BY <1>4, <1>6, ReadBack
  <1> QED
    BY <1>1, <1>5, <1>7

\* A message as JMRI reports it is a sound line, whether it fits or not.
LEMMA SoundReceive ==
  ASSUME NEW bytes \in Seq(Nat), NEW event \in Meaning, event = Decoded(bytes),
         bytes # <<>> /\ CanDecode(bytes) => Len(bytes) <= 4
  PROVE  IsSound(Receive(bytes, event))
  <1>0. Len(bytes) \in Nat /\ kMaxBufferedBytes \in Nat /\ kMaxBufferedBytes >= 7
    BY LimitAssumption
  <1>1. PICK text : text = Received(bytes)
    OBVIOUS
  <1>2. text \in Seq(Tokens) /\ Len(text) = Len(bytes) + 1 /\ HasNoEnd(text)
    BY <1>1, ReceivedType
  <1>3. PICK body : body = Append(text, CR)
    OBVIOUS
  <1>4. /\ body \in Seq(Tokens) /\ Len(body) = Len(bytes) + 2
        /\ \A k \in 1..Len(text) : body[k] = text[k]
        /\ HasNoEnd(body)
    <2>1. CR \in Tokens
      BY WrittenTokens
    <2>2. /\ body \in Seq(Tokens) /\ Len(body) = Len(text) + 1
          /\ \A k \in 1..Len(text) : body[k] = text[k]
      BY <1>2, <1>3, <2>1, OneMore
    <2>3. HasNoEnd(body)
      BY <1>2, <1>3, LineGrows
    <2> QED
      BY <1>0, <1>2, <2>2, <2>3
  <1>5. Receive(bytes, event) = Append(body, LF(event))
    BY <1>1, <1>2, <1>3, LineGrows DEF Receive
  <1>6. EventOf(body) = event
    BY <1>1, <1>3, ReadBack
  <1>7. SubSeq(body, 1, Len(body)) = body
    BY <1>4, SubSeqFull
  <1>8. CASE Len(bytes) <= 4
    <2>1. Len(body) < kMaxBufferedBytes /\ Upto(0, Len(body)) = Len(body)
      BY <1>0, <1>4, <1>8 DEF Upto
    <2>2. EventOf(SubSeq(body, 1, Upto(0, Len(body)))) = event
      BY <1>6, <1>7, <2>1
    <2>3. ~(Len(body) >= kMaxBufferedBytes)
      BY <1>0, <1>4, <2>1
    <2> QED
      BY <1>4, <1>5, <2>2, <2>3, OneLine
  <1>9. CASE ~(Len(bytes) <= 4)
    <2>1. bytes # <<>> /\ ~CanDecode(bytes)
      BY <1>9, EmptySeq
    <2>2. event = NoEvent
      BY <2>1 DEF Decoded, EventFrom
    <2>3. ASSUME NEW n \in Nat, 1 <= n, n <= Len(body)
          PROVE  EventOf(SubSeq(body, 1, n)) = NoEvent
      <3>1. CASE n = Len(body)
        BY <1>6, <1>7, <2>2, <3>1
      <3>2. CASE n # Len(body)
        <4>0. n \in 1..(Len(bytes) + 1)
          BY <1>0, <1>4, <2>3, <3>2
        <4>1. EventOf(SubSeq(text, 1, n)) = NoEvent
          BY <1>1, <2>1, <4>0, PartOfMessage
        <4>2. SubSeq(body, 1, n) = SubSeq(text, 1, n)
          <5>1. PICK p \in Int : p = 1
            OBVIOUS
          <5>2. PICK z \in Int : z = 0
            OBVIOUS
          <5>3. p = z + 1 /\ z \in Nat /\ n \in Int /\ n = n - z
                /\ n <= Len(body) /\ n <= Len(text)
            BY <1>0, <1>2, <1>4, <4>0, <5>1, <5>2
          <5>4. Copies(body, z, text, z, n)
            BY <1>2, <1>4, <5>2, <5>3 DEF Copies
          <5>5. SubSeq(body, p, n) = SubSeq(text, p, n)
            BY <1>2, <1>4, <5>3, <5>4, SameStretch
          <5> QED
            BY <5>1, <5>5
        <4> QED
          BY <4>1, <4>2
      <3> QED
        BY <3>1, <3>2
    <2>4. Upto(0, Len(body)) \in Nat /\ 1 <= Upto(0, Len(body)) /\ Upto(0, Len(body)) <= Len(body)
      BY <1>0, <1>4 DEF Upto
    <2>5. EventOf(SubSeq(body, 1, Upto(0, Len(body)))) = event
      BY <2>2, <2>3, <2>4
    <2>6. Len(body) >= kMaxBufferedBytes
            => EventOf(SubSeq(body, 1, kMaxBufferedBytes)) = NoEvent
      <3>1. 1 <= kMaxBufferedBytes
        BY <1>0
      <3> QED
        BY <1>0, <2>3, <3>1
    <2> QED
      BY <1>4, <1>5, <2>5, <2>6, OneLine
  <1> QED
    BY <1>8, <1>9

\* A checksum is a number.
LEMMA ChecksumIsNumber ==
  ASSUME NEW bytes
  PROVE  Checksum(bytes) \in Nat
  BY DEF Checksum

\* A message with its checksum has a valid one.
LEMMA ChecksumIsValid ==
  ASSUME NEW x \in Nat, NEW y \in Nat, NEW z \in Nat
  PROVE  /\ WithChecksum(<<x, y, z>>) \in Seq(Nat)
         /\ HasValidChecksum(WithChecksum(<<x, y, z>>))
  <1>1. PICK three : three = <<x, y, z>>
    OBVIOUS
  <1>2. three \in Seq(Nat) /\ Len(three) = 3
    BY <1>1
  <1>3. PICK sum \in Nat : sum = Checksum(three)
    BY ChecksumIsNumber
  <1>4. PICK bytes : bytes = Append(three, sum)
    OBVIOUS
  <1>5. /\ bytes \in Seq(Nat) /\ Len(bytes) = 4 /\ bytes[4] = sum
        /\ \A k \in 1..3 : bytes[k] = three[k]
    <2>1. /\ bytes \in Seq(Nat) /\ Len(bytes) = Len(three) + 1
          /\ bytes[Len(three) + 1] = sum
          /\ \A k \in 1..Len(three) : bytes[k] = three[k]
      <3>1. \A s \in Seq(Nat) : \A e \in Nat :
              /\ Append(s, e) \in Seq(Nat) /\ Len(Append(s, e)) = Len(s) + 1
              /\ Append(s, e)[Len(s) + 1] = e
              /\ \A k \in 1..Len(s) : Append(s, e)[k] = s[k]
        BY AppendProperties
      <3> QED
        BY <1>2, <1>4, <3>1
    <2> QED
      BY <1>2, <2>1
  <1>6. Front(bytes) = three
    <2>1. /\ SubSeq(bytes, 0 + 1, 3) \in Seq(Nat)
          /\ Len(SubSeq(bytes, 0 + 1, 3)) = 3 - 0
          /\ \A k \in 1..(3 - 0) : SubSeq(bytes, 0 + 1, 3)[k] = bytes[0 + k]
      <3>1. 0 \in 0..Len(bytes) /\ 3 \in 0..Len(bytes)
        BY <1>5
      <3> QED
        BY <1>5, <3>1, Stretch
    <2>2. PICK first : first = SubSeq(bytes, 1, 3)
      OBVIOUS
    <2>3. first \in Seq(Nat) /\ Len(first) = 3 /\ \A k \in 1..3 : first[k] = bytes[k]
      BY <2>1, <2>2
    <2>4. first = three
      BY <1>2, <1>5, <2>3, SeqEqual
    <2>5. Len(bytes) - 1 = 3
      BY <1>5
    <2> QED
      BY <2>2, <2>4, <2>5 DEF Front
  <1>7. Last(bytes) = sum /\ Len(bytes) >= 2
    BY <1>5 DEF Last
  <1>8. WithChecksum(<<x, y, z>>) = bytes
    BY <1>1, <1>3, <1>4 DEF WithChecksum
  <1> QED
    BY <1>1, <1>3, <1>5, <1>6, <1>7, <1>8 DEF HasValidChecksum

\* A command on the bus is the command that was asked for.
LEMMA CommandDecoded ==
  ASSUME NEW address \in Addresses, NEW position \in Positions, NEW on \in BOOLEAN
  PROVE  /\ SwReqFrame(address, position, on) \in Seq(Nat)
         /\ Len(SwReqFrame(address, position, on)) = 4
         /\ Decoded(SwReqFrame(address, position, on)) = SwitchEvent(address, position)
  <1> DEFINE third == AddressHigh(address)
                        + (IF position = Closed THEN kClosedBit ELSE 0)
                        + (IF on THEN kOutputOnBit ELSE 0)
  <1>1. third \in Nat /\ AddressLow(address) \in Nat
    BY AddressBytes DEF kClosedBit, kOutputOnBit
  <1>2. PICK a \in Nat : a = AddressLow(address)
    BY <1>1
  <1>3. PICK b \in Nat : b = third
    BY <1>1
  <1>4. PICK frame : frame = WithChecksum(<<176, a, b>>)
    OBVIOUS
  <1>5. frame \in Seq(Nat) /\ HasValidChecksum(frame) /\ Len(frame) = 4
    BY <1>4, ChecksumIsValid, ChecksumIsLast
  <1>6. frame = SwReqFrame(address, position, on)
    BY <1>2, <1>3, <1>4 DEF SwReqFrame, kOpcSwReq
  <1>7. EventFrom(SwReqFrame(address, position, on)) = SwitchEvent(address, position)
    BY CommandsReadBack
  <1> QED
    BY <1>5, <1>6, <1>7 DEF Decoded

\* A request for a turnout's state is no switch message, and the command station
\* finds the turnout in it.
LEMMA RequestDecoded ==
  ASSUME NEW address \in Addresses
  PROVE  /\ SwStateFrame(address) \in Seq(Nat)
         /\ Len(SwStateFrame(address)) = 4
         /\ Decoded(SwStateFrame(address)) = NoEvent
         /\ StationAddress(SwStateFrame(address)) = address
  <1>1. /\ AddressLow(address) \in 0..127 /\ AddressHigh(address) \in 0..15
        /\ AddressHigh(address) * 128 + AddressLow(address) + 1 = address
    BY AddressBytes
  <1>2. PICK a \in 0..127 : a = AddressLow(address)
    BY <1>1
  <1>3. PICK b \in 0..15 : b = AddressHigh(address)
    BY <1>1
  <1>4. PICK frame : frame = WithChecksum(<<188, a, b>>)
    OBVIOUS
  <1>5. /\ frame \in Seq(Nat) /\ Len(frame) = 4
        /\ frame[1] = 188 /\ frame[2] = a /\ frame[3] = b
    BY <1>4, ChecksumIsValid, ChecksumIsLast
  <1>6. frame = SwStateFrame(address)
    BY <1>2, <1>3, <1>4 DEF SwStateFrame, kOpcSwState
  <1>7. Decoded(frame) = NoEvent
    BY <1>5 DEF Decoded, EventFrom, CanDecode, kOpcSwReq, kOpcSwRep, kOpcLongAck
  <1>8. StationAddress(frame) = address
    <2>1. b % 16 = b
      OBVIOUS
    <2>2. b * 128 + a + 1 = address
      BY <1>1, <1>2, <1>3
    <2> QED
      BY <1>5, <2>1, <2>2 DEF StationAddress
  <1> QED
    BY <1>5, <1>6, <1>7, <1>8

\* The command station's answer is an ack with the turnout's position.
LEMMA AckDecoded ==
  ASSUME NEW address
  PROVE  /\ StationAck(address) \in Seq(Nat)
         /\ Len(StationAck(address)) = 4
         /\ Decoded(StationAck(address))
              = AckEvent(IF address \in ClosedTurnouts THEN Closed ELSE Thrown)
  <1>1. PICK b \in Nat : b = IF address \in ClosedTurnouts THEN 48 ELSE 0
    OBVIOUS
  <1>2. PICK frame : frame = WithChecksum(<<180, 60, b>>)
    OBVIOUS
  <1>3. /\ frame \in Seq(Nat) /\ Len(frame) = 4 /\ HasValidChecksum(frame)
        /\ frame[1] = 180 /\ frame[2] = 60 /\ frame[3] = b
    BY <1>2, ChecksumIsValid, ChecksumIsLast
  <1>4. frame = StationAck(address)
    BY <1>1, <1>2 DEF StationAck, kOpcLongAck, kSwitchStateAckCode
  <1>5. PositionFrom(frame) = IF address \in ClosedTurnouts THEN Closed ELSE Thrown
    <2>1. CASE address \in ClosedTurnouts
      BY <1>1, <1>3, <2>1 DEF PositionFrom, HasBit, kClosedBit
    <2>2. CASE address \notin ClosedTurnouts
      BY <1>1, <1>3, <2>2 DEF PositionFrom, HasBit, kClosedBit
    <2> QED
      BY <2>1, <2>2
  <1>6. EventFrom(frame) = AckEvent(PositionFrom(frame))
    BY <1>3 DEF EventFrom, CanDecode, kOpcLongAck, kSwitchStateAckCode
  <1> QED
    BY <1>3, <1>4, <1>5, <1>6 DEF Decoded

-----------------------------------------------------------------------------
(* What the server writes. *)

\* v is complete lines, sound, that together mean the event and nothing else.
Sendable(v, event) ==
  /\ v \in Seq(Tokens) /\ v # <<>> /\ v[Len(v)].kind = "LF"
  /\ IsSound(v)
  /\ event \in Meaning
  /\ Meanings(v) = IF event = NoEvent THEN <<>> ELSE <<event>>

\* Behind other tokens, the last one of v is still the last one.
LEMMA LastOfConcat ==
  ASSUME NEW s \in Seq(Tokens), NEW v \in Seq(Tokens), v # <<>>
  PROVE  s \o v # <<>> /\ (s \o v)[Len(s \o v)] = v[Len(v)]
  <1>0. Len(s) \in Nat /\ Len(v) \in Nat /\ Len(v) # 0
    BY EmptySeq
  <1>1. PICK r : r = s \o v
    OBVIOUS
  <1>2. /\ r \in Seq(Tokens) /\ Len(r) = Len(s) + Len(v)
        /\ \A k \in 1..Len(v) : r[Len(s) + k] = v[k]
    BY <1>1, RowsConcat
  <1>3. Len(r) # 0 /\ r[Len(r)] = v[Len(v)]
    BY <1>0, <1>2
  <1>4. r # <<>>
    BY <1>3, EmptySeq
  <1> QED
    BY <1>1, <1>3, <1>4

\* Behind lines that mean nothing, the event is still all that is meant.
LEMMA SendableConcat ==
  ASSUME NEW u, NEW v, NEW event, Sendable(u, NoEvent), Sendable(v, event)
  PROVE  Sendable(u \o v, event)
  <1>1. /\ u \in Seq(Tokens) /\ u # <<>> /\ u[Len(u)].kind = "LF" /\ IsSound(u)
        /\ Meanings(u) = <<>>
    BY DEF Sendable
  <1>2. /\ v \in Seq(Tokens) /\ v # <<>> /\ v[Len(v)].kind = "LF" /\ IsSound(v)
        /\ event \in Meaning
        /\ Meanings(v) = IF event = NoEvent THEN <<>> ELSE <<event>>
    BY DEF Sendable
  <1>3. u \o v \in Seq(Tokens) /\ u \o v # <<>> /\ (u \o v)[Len(u \o v)].kind = "LF"
    BY <1>1, <1>2, RowsConcat, LastOfConcat
  <1>4. IsSound(u \o v)
    BY <1>1, <1>2, SoundConcat
  <1>5. Meanings(u \o v) = Meanings(v)
    <2>1. Meanings(u \o v) = Meanings(u) \o Meanings(v)
      BY <1>1, <1>2, MeaningsConcat
    <2>2. Meanings(v) \in Seq(Events)
      BY <1>2, MeaningsType
    <2>3. <<>> \o Meanings(v) = Meanings(v)
      BY <2>2, ConcatEmptySeq
    <2> QED
      BY <1>1, <2>1, <2>3
  <1> QED
    BY <1>2, <1>3, <1>4, <1>5 DEF Sendable

\* The greeting and the confirmation.
LEMMA SendableWord ==
  ASSUME NEW text \in {"VERSION", "SENT"}
  PROVE  Sendable(Line(<<Word(text)>>, NoEvent), NoEvent)
  <1>1. Word(text) \in Tokens /\ Word(text).kind = text
    BY WrittenTokens
  <1>2. NoEvent \in Meaning
    BY DEF Meaning
  <1>3. <<Word(text)>> \in Seq(Tokens) /\ HasNoEnd(<<Word(text)>>)
    <2>1. <<Word(text)>> \in Seq(Tokens) /\ Len(<<Word(text)>>) = 1
          /\ <<Word(text)>>[1] = Word(text)
      BY <1>1
    <2> QED
      BY <1>1, <2>1 DEF HasNoEnd
  <1>4. PICK v : v = Line(<<Word(text)>>, NoEvent)
    OBVIOUS
  <1>5. /\ v \in Seq(Tokens) /\ v # <<>> /\ v[Len(v)].kind = "LF"
        /\ Meanings(v) = <<>>
    BY <1>2, <1>3, <1>4, LineGrows
  <1>6. IsSound(v)
    <2>1. IsSound(<<>> \o v)
      BY <1>4, SoundNothing, SoundWord
    <2>2. <<>> \o v = v
      BY <1>5, ConcatEmptySeq
    <2> QED
      BY <2>1, <2>2
  <1> QED
    BY <1>2, <1>4, <1>5, <1>6 DEF Sendable

\* A message that is decoded to what it means.
LEMMA SendableReceive ==
  ASSUME NEW bytes \in Seq(Nat), NEW event \in Meaning, event = Decoded(bytes),
         bytes # <<>> /\ CanDecode(bytes) => Len(bytes) <= 4
  PROVE  Sendable(Receive(bytes, event), event)
  <1>1. Received(bytes) \in Seq(Tokens) /\ HasNoEnd(Received(bytes))
    BY ReceivedType
  <1>2. PICK v : v = Receive(bytes, event)
    OBVIOUS
  <1>3. /\ v \in Seq(Tokens) /\ v # <<>> /\ v[Len(v)].kind = "LF"
        /\ Meanings(v) = IF event = NoEvent THEN <<>> ELSE <<event>>
    BY <1>1, <1>2, LineGrows DEF Receive
  <1>4. IsSound(v)
    BY <1>2, SoundReceive
  <1> QED
    BY <1>2, <1>3, <1>4 DEF Sendable

\* What is heard of the bus.
LEMMA SendableTraffic ==
  ASSUME NEW message \in Traffic
  PROVE  Sendable(Receive(message.bytes, message.event), message.event)
  <1>1. PICK bytes : bytes = message.bytes
    OBVIOUS
  <1>2. PICK event : event = message.event
    OBVIOUS
  <1>3. /\ bytes \in Seq(0..255)
        /\ event = IF HasValidChecksum(bytes) THEN EventFrom(bytes) ELSE NoEvent
        /\ bytes # <<>> /\ CanDecode(bytes) => Len(bytes) <= 4
    BY <1>1, <1>2, TrafficAssumption
  <1>4. bytes \in Seq(Nat) /\ event = Decoded(bytes)
    <2>1. PICK B : B = 0..255
      OBVIOUS
    <2>2. B \subseteq Nat
      BY <2>1
    <2>3. bytes \in Seq(Nat)
      <3>1. bytes \in Seq(B)
        BY <1>3, <2>1
      <3>2. Len(bytes) \in Nat /\ bytes = [k \in 1..Len(bytes) |-> bytes[k]]
            /\ \A k \in 1..Len(bytes) : bytes[k] \in Nat
        BY <2>2, <3>1
      <3> QED
        BY <3>2
    <2> QED
      BY <1>3, <2>3 DEF Decoded
  <1>5. event \in Meaning
    BY <1>2 DEF Meaning, Events
  <1>6. Sendable(Receive(bytes, event), event)
    BY <1>3, <1>4, <1>5, SendableReceive
  <1> QED
    BY <1>1, <1>2, <1>6

\* A set command that was written, with its confirmation.
LEMMA SendableCommand ==
  ASSUME NEW command \in Commands, NEW on \in BOOLEAN,
         IsCommand("turnout", command.numeral, command.payload)
  PROVE  Sendable(SentOk \o Receive(SwReqFrame(ValueOf(command.numeral),
                                               command.payload, on),
                                    SwitchEvent(command.asks, command.payload)),
                  SwitchEvent(command.asks, command.payload))
  <1>1. PICK address : address = ValueOf(command.numeral)
    OBVIOUS
  <1>2. PICK position : position = command.payload
    OBVIOUS
  <1>3. address \in Addresses /\ position \in Positions /\ command.asks = address
    BY <1>1, <1>2, NumeralAssumption DEF IsCommand
  <1>4. PICK event : event = SwitchEvent(address, position)
    OBVIOUS
  <1>5. event \in Meaning
    <2>1. command.asks # 0
      BY <1>3 DEF Addresses
    <2> QED
      BY <1>2, <1>3, <1>4, <2>1 DEF Meaning, Events
  <1>6. PICK bytes : bytes = SwReqFrame(address, position, on)
    OBVIOUS
  <1>7. bytes \in Seq(Nat) /\ Len(bytes) = 4 /\ event = Decoded(bytes)
    BY <1>3, <1>4, <1>6, CommandDecoded
  <1>8. Sendable(Receive(bytes, event), event)
    <2>1. bytes # <<>> /\ CanDecode(bytes) => Len(bytes) <= 4
      BY <1>7
    <2> QED
      BY <1>5, <1>7, <2>1, SendableReceive
  <1>9. Sendable(SentOk, NoEvent)
    BY SendableWord DEF SentOk
  <1>10. Sendable(SentOk \o Receive(bytes, event), event)
    BY <1>8, <1>9, SendableConcat
  <1> QED
    BY <1>1, <1>2, <1>3, <1>4, <1>6, <1>10

\* A state request that was written, its confirmation and its answer.
LEMMA SendableQuery ==
  ASSUME NEW address \in QueriedAddresses
  PROVE  LET request == SwStateFrame(address)
             event == AckEvent(IF address \in ClosedTurnouts THEN Closed ELSE Thrown) IN
         Sendable(SentOk \o Receive(request, NoEvent)
                    \o Receive(StationAck(StationAddress(request)), event), event)
  <1>1. address \in Addresses
    BY TurnoutAssumption
  <1>2. PICK request : request = SwStateFrame(address)
    OBVIOUS
  <1>3. /\ request \in Seq(Nat) /\ Len(request) = 4 /\ Decoded(request) = NoEvent
        /\ StationAddress(request) = address
    BY <1>1, <1>2, RequestDecoded
  <1>4. NoEvent \in Meaning
    BY DEF Meaning
  <1>5. Sendable(Receive(request, NoEvent), NoEvent)
    <2>1. request # <<>> /\ CanDecode(request) => Len(request) <= 4
      BY <1>3
    <2> QED
      BY <1>3, <1>4, <2>1, SendableReceive
  <1>6. Sendable(SentOk, NoEvent)
    BY SendableWord DEF SentOk
  <1>7. Sendable(SentOk \o Receive(request, NoEvent), NoEvent)
    BY <1>5, <1>6, SendableConcat
  <1>8. PICK position \in Positions :
          position = IF address \in ClosedTurnouts THEN Closed ELSE Thrown
    BY DEF Positions
  <1>9. PICK event : event = AckEvent(position)
    OBVIOUS
  <1>10. event \in Meaning
    BY <1>9 DEF Meaning, Events
  <1>11. PICK ack : ack = StationAck(address)
    OBVIOUS
  <1>12. ack \in Seq(Nat) /\ Len(ack) = 4 /\ event = Decoded(ack)
    BY <1>8, <1>9, <1>11, AckDecoded
  <1>13. Sendable(Receive(ack, event), event)
    <2>1. ack # <<>> /\ CanDecode(ack) => Len(ack) <= 4
      BY <1>12
    <2> QED
      BY <1>10, <1>12, <2>1, SendableReceive
  <1>14. Sendable(SentOk \o Receive(request, NoEvent) \o Receive(ack, event), event)
    BY <1>7, <1>13, SendableConcat
  <1> QED
    BY <1>2, <1>3, <1>8, <1>9, <1>11, <1>14

\* Whoever speaks, the server writes complete lines that mean one event or none.
LEMMA WhatIsSent ==
  ASSUME BusTraffic \/ Command \/ Query
  PROVE  \E v, event : Sendable(v, event) /\ Sent(v)
  <1>1. CASE BusTraffic
    BY <1>1, SendableTraffic DEF BusTraffic
  <1>2. CASE Command
    BY <1>2, SendableCommand DEF Command
  <1>3. CASE Query
    BY <1>3, SendableQuery DEF Query
  <1> QED
    BY <1>1, <1>2, <1>3

-----------------------------------------------------------------------------
(* The invariant. *)

IInv == TypeOK /\ LinesKeepTheirMeaning

\* The first part of two rows one after the other is the first row.
LEMMA FirstRow ==
  ASSUME NEW S, NEW b \in Seq(S), NEW w \in Seq(S)
  PROVE  SubSeq(b \o w, 1, Len(b)) = b
  <1>1. PICK r : r = b \o w
    OBVIOUS
  <1>2. r \in Seq(S) /\ Len(r) = Len(b) + Len(w) /\ \A k \in 1..Len(b) : r[k] = b[k]
    BY <1>1, ConcatProperties
  <1>3. PICK p \in Int : p = 1
    OBVIOUS
  <1>4. PICK z \in Int : z = 0
    OBVIOUS
  <1>5. PICK n \in Int : n = Len(b)
    OBVIOUS
  <1>6. p = z + 1 /\ z \in Nat /\ n \in Nat /\ n = n - z /\ n <= Len(r) /\ n <= Len(b)
    BY <1>2, <1>3, <1>4, <1>5
  <1>7. Copies(r, z, b, z, n)
    BY <1>2, <1>4, <1>5 DEF Copies
  <1>8. SubSeq(r, p, n) = SubSeq(b, p, n)
    BY <1>2, <1>6, <1>7, SameStretch
  <1>9. SubSeq(b, 1, Len(b)) = b
    BY SubSeqFull
  <1> QED
    BY <1>1, <1>3, <1>5, <1>8, <1>9

\* The first token of the second row moves to the end of the first.
LEMMA FeedMoves ==
  ASSUME NEW b \in Seq(Tokens), NEW w \in Seq(Tokens), w # <<>>
  PROVE  Append(b, Head(w)) \o Tail(w) = b \o w
  <1>1. /\ Head(w) \in Tokens /\ Tail(w) \in Seq(Tokens)
        /\ Len(Tail(w)) = Len(w) - 1
        /\ \A k \in 1..Len(Tail(w)) : Tail(w)[k] = w[k + 1]
    BY HeadTailProperties
  <1>2. <<Head(w)>> \in Seq(Tokens)
    BY <1>1
  <1>3. Append(b, Head(w)) = b \o <<Head(w)>>
    BY <1>1, AppendIsConcat
  <1>4. (b \o <<Head(w)>>) \o Tail(w) = b \o (<<Head(w)>> \o Tail(w))
    BY <1>1, <1>2, ConcatAssociative
  <1>5. <<Head(w)>> \o Tail(w) = w
    OBVIOUS
  <1> QED
    BY <1>3, <1>4, <1>5

\* A row is its first token and the others.
LEMMA HeadAndTail ==
  ASSUME NEW w \in Seq(Tokens), w # <<>>
  PROVE  /\ Head(w) \in Tokens /\ Tail(w) \in Seq(Tokens)
         /\ <<Head(w)>> \in Seq(Tokens)
         /\ w = <<Head(w)>> \o Tail(w)
         /\ Tail(w) # <<>> => Tail(w)[Len(Tail(w))] = w[Len(w)]
         /\ Tail(w) = <<>> => Head(w) = w[Len(w)]
  <1>1. /\ Head(w) \in Tokens /\ Tail(w) \in Seq(Tokens)
        /\ Len(Tail(w)) = Len(w) - 1
        /\ \A k \in 1..Len(Tail(w)) : Tail(w)[k] = w[k + 1]
    BY HeadTailProperties
  <1>2. <<>> \in Seq(Tokens) /\ Append(<<>>, Head(w)) = <<Head(w)>> /\ <<>> \o w = w
    BY ConcatEmptySeq
  <1>3. Append(<<>>, Head(w)) \o Tail(w) = <<>> \o w
    BY <1>2, FeedMoves
  <1>4. Len(w) \in Nat /\ Len(w) # 0
    BY EmptySeq
  <1>5. Tail(w) # <<>> => Tail(w)[Len(Tail(w))] = w[Len(w)]
    <2> SUFFICES ASSUME Tail(w) # <<>> PROVE Tail(w)[Len(Tail(w))] = w[Len(w)]
      OBVIOUS
    <2>1. Len(Tail(w)) \in 1..Len(Tail(w)) /\ Len(Tail(w)) + 1 = Len(w)
      BY <1>1, <1>4, EmptySeq
    <2> QED
      BY <1>1, <2>1
  <1>6. Tail(w) = <<>> => Head(w) = w[Len(w)]
    <2> SUFFICES ASSUME Tail(w) = <<>> PROVE Head(w) = w[Len(w)]
      OBVIOUS
    <2>1. PICK rest : rest = Tail(w)
      OBVIOUS
    <2>2. Len(rest) = 0 /\ Len(rest) = Len(w) - 1
      BY <1>1, <2>1, EmptySeq
    <2>3. Len(w) = 1
      BY <1>4, <2>2
    <2> QED
      BY <2>3
  <1> QED
    BY <1>1, <1>2, <1>3, <1>5, <1>6

\* The invariant's parts about the sequences.
LEMMA Pending ==
  ASSUME IInv
  PROVE  /\ buffer \in Seq(Tokens) /\ wire \in Seq(Tokens)
         /\ Len(buffer) \in Nat /\ Len(buffer) <= kMaxBufferedBytes
         /\ buffer \o wire \in Seq(Tokens)
         /\ IsSound(buffer \o wire) /\ HasNoEnd(buffer) /\ IsSound(buffer)
         /\ link => buffer \o wire = <<>>
                    \/ (buffer \o wire)[Len(buffer \o wire)].kind = "LF"
  <1>1. buffer \in Seq(Tokens) /\ wire \in Seq(Tokens) /\ Len(buffer) <= kMaxBufferedBytes
    BY DEF IInv, TypeOK
  <1>2. IsSound(buffer \o wire) /\ HasNoEnd(buffer)
    BY DEF IInv, LinesKeepTheirMeaning
  <1>3. link => buffer \o wire = <<>>
                \/ (buffer \o wire)[Len(buffer \o wire)].kind = "LF"
    BY DEF IInv, LinesKeepTheirMeaning, Last
  <1>4. buffer \o wire \in Seq(Tokens) /\ Len(buffer \o wire) = Len(buffer) + Len(wire)
    BY <1>1, RowsConcat
  <1>5. IsSound(buffer)
    <2>1. Len(buffer) \in 0..Len(buffer \o wire)
      BY <1>1, <1>4
    <2>2. IsSound(SubSeq(buffer \o wire, 1, Len(buffer)))
      BY <1>2, <1>4, <2>1, SoundPrefix
    <2>3. SubSeq(buffer \o wire, 1, Len(buffer)) = buffer
      BY <1>1, FirstRow
    <2> QED
      BY <2>2, <2>3
  <1> QED
    BY <1>1, <1>2, <1>3, <1>4, <1>5

\* What the decoder makes of a line that is complete is what the line means.
LEMMA TakenForWhatItMeans ==
  ASSUME IInv, wire # <<>>, Head(wire).kind = "LF"
  PROVE  EventOf(buffer) = Head(wire).means
  <1>1. /\ buffer \in Seq(Tokens) /\ wire \in Seq(Tokens)
        /\ Len(buffer) \in Nat /\ Len(buffer) <= kMaxBufferedBytes
        /\ IsSound(buffer \o wire) /\ HasNoEnd(buffer)
    BY Pending
  <1>2. PICK s : s = buffer \o wire
    OBVIOUS
  <1>3. PICK L \in Nat : L = Len(buffer)
    BY <1>1
  <1>4. /\ s \in Seq(Tokens) /\ Len(s) = L + Len(wire)
        /\ \A k \in 1..L : s[k] = buffer[k]
        /\ \A k \in 1..Len(wire) : s[L + k] = wire[k]
    <2>1. /\ s \in Seq(Tokens) /\ Len(s) = Len(buffer) + Len(wire)
          /\ \A k \in 1..Len(buffer) : s[k] = buffer[k]
          /\ \A k \in 1..Len(wire) : s[Len(buffer) + k] = wire[k]
      BY <1>1, <1>2, RowsConcat
    <2> QED
      BY <1>3, <2>1
  <1>5. Len(wire) \in Nat /\ Len(wire) >= 1
    <2>1. Len(wire) # 0
      BY <1>1, EmptySeq
    <2> QED
      BY <1>1, <2>1
  <1>6. s[L + 1] = Head(wire) /\ L < Len(s)
    <2>1. 1 \in 1..Len(wire) /\ wire[1] = Head(wire)
      BY <1>1, <1>5
    <2> QED
      BY <1>4, <1>5, <2>1
  <1>7. PartsMeanWell(s)
    BY <1>1, <1>2, <1>4, SoundParts
  <1>8. IsPart(s, 0, L)
    BY <1>1, <1>3, <1>4 DEF IsPart, HasNoEnd
  <1>9. MeansWell(s, 0, L)
    <2>1. 0 \in 0..Len(s) /\ L \in 0..Len(s)
      BY <1>4, <1>6
    <2> QED
      BY <1>7, <1>8, <2>1 DEF PartsMeanWell
  <1>10. Upto(0, L) = L /\ 0 + 1 = 1
    BY <1>1, <1>3 DEF Upto
  <1>11. EventOf(SubSeq(s, 1, L)) = s[L + 1].means
    BY <1>6, <1>9, <1>10 DEF MeansWell
  <1>12. SubSeq(s, 1, L) = buffer
    BY <1>1, <1>2, <1>3, FirstRow
  <1> QED
    BY <1>6, <1>11, <1>12

\* Behind the line that is complete, the wire is sound by itself.
LEMMA SoundRest ==
  ASSUME NEW b \in Seq(Tokens), NEW w \in Seq(Tokens), IsSound(b \o w),
         w # <<>>, Head(w).kind = "LF"
  PROVE  IsSound(Tail(w))
  <1>1. PICK s : s = b \o w
    OBVIOUS
  <1>2. PICK L \in Nat : L = Len(b) + 1
    OBVIOUS
  <1>3. PICK r : r = Tail(w)
    OBVIOUS
  <1>4. /\ r \in Seq(Tokens) /\ Len(w) = Len(r) + 1 /\ Len(r) \in Nat
        /\ \A k \in 1..Len(r) : r[k] = w[k + 1]
    BY <1>3, HeadTailProperties
  <1>5. /\ s \in Seq(Tokens) /\ Len(s) = L + Len(r)
        /\ s[L] = Head(w)
        /\ \A k \in 1..Len(r) : s[L + k] = r[k]
    <2>1. /\ s \in Seq(Tokens) /\ Len(s) = Len(b) + Len(w)
          /\ \A k \in 1..Len(w) : s[Len(b) + k] = w[k]
      BY <1>1, RowsConcat, Zenon
    <2>2. s[L] = Head(w)
      <3>1. 1 \in 1..Len(w) /\ w[1] = Head(w)
        BY <1>4
      <3> QED
        BY <1>2, <2>1, <3>1
    <2>3. ASSUME NEW k \in 1..Len(r) PROVE s[L + k] = r[k]
      <3>1. k + 1 \in 1..Len(w) /\ Len(b) + (k + 1) = L + k
        BY <1>2, <1>4
      <3> QED
        BY <1>4, <2>1, <3>1
    <2>4. Len(s) = L + Len(r)
      BY <1>2, <1>4, <2>1
    <2> QED
      BY <2>1, <2>2, <2>3, <2>4
  <1>6. PartsMeanWell(s)
    BY <1>1, <1>5, SoundParts
  <1>7. ASSUME NEW i \in 0..Len(r), NEW j \in i..Len(r), IsPart(r, i, j)
        PROVE  MeansWell(r, i, j)
    <2>0. i \in Nat /\ j \in Nat /\ i <= j /\ j <= Len(r)
      BY <1>4
    <2>1. L + i \in 0..Len(s) /\ L + j \in (L + i)..Len(s)
      BY <1>4, <1>5, <2>0
    <2>2. PICK m \in 0..Len(s) : m = L + i
      BY <2>1
    <2>3. PICK n \in m..Len(s) : n = L + j
      BY <2>1, <2>2
    <2>4. j - i = n - m
      BY <2>0, <2>2, <2>3
    <2>5. s[m].kind = "LF"
      <3>1. CASE i = 0
        BY <1>5, <2>2, <3>1
      <3>2. CASE i # 0
        <4>1. i \in 1..Len(r)
          BY <2>0, <3>2
        <4> QED
          BY <1>5, <1>7, <2>2, <3>2, <4>1 DEF IsPart
      <3> QED
        BY <3>1, <3>2
    <2>6. Copies(r, i, s, m, j - i)
      <3> SUFFICES ASSUME NEW k \in 1..(j - i) PROVE r[i + k] = s[m + k]
        BY DEF Copies
      <3>1. i + k \in 1..Len(r) /\ L + (i + k) = m + k
        BY <2>0, <2>2
      <3> QED
        BY <1>5, <3>1
    <2>7. j < Len(r) => n < Len(s) /\ s[n + 1] = r[j + 1]
      <3> SUFFICES ASSUME j < Len(r) PROVE n < Len(s) /\ s[n + 1] = r[j + 1]
        OBVIOUS
      <3>1. j + 1 \in 1..Len(r) /\ L + (j + 1) = n + 1
        BY <1>4, <2>0, <2>3
      <3> QED
        BY <1>4, <1>5, <2>0, <2>3, <3>1
    <2> QED
      BY <1>4, <1>5, <1>6, <1>7, <2>4, <2>5, <2>6, <2>7, Shifted
  <1>8. PartsMeanWell(r)
    BY <1>7 DEF PartsMeanWell
  <1> QED
    BY <1>3, <1>4, <1>8, SoundParts

\* At first there is nothing.
LEMMA InvInit == Init => IInv
  <1> SUFFICES ASSUME Init PROVE IInv
    OBVIOUS
  <1>1. <<>> \in Seq(Tokens) /\ <<>> \in Seq(Events) /\ Len(<<>>) = 0 /\ <<>> \o <<>> = <<>>
    BY EmptySeq, ConcatEmptySeq
  <1>2. TypeOK
    <2>1. pc \in {"idle", "reading"} /\ link \in BOOLEAN
      BY DEF Init
    <2>2. wire \in Seq(Tokens) /\ buffer \in Seq(Tokens) /\ delivered \in Seq(Events)
      BY <1>1 DEF Init
    <2>3. Len(buffer) <= kMaxBufferedBytes
      <3>1. buffer = <<>> /\ Len(<<>>) = 0
        BY EmptySeq DEF Init
      <3>2. Len(buffer) = 0
        BY <3>1
      <3> QED
        BY <3>2, LimitAssumption
    <2>4. connections \in 0..MaxConnections /\ sends \in 0..MaxSends
      BY TransportBoundAssumption DEF Init
    <2> QED
      BY <2>1, <2>2, <2>3, <2>4 DEF TypeOK
  <1>3. LinesKeepTheirMeaning
    BY <1>1, SoundNothing DEF Init, LinesKeepTheirMeaning
  <1> QED
    BY <1>2, <1>3 DEF IInv

\* The types after a step.
LEMMA TypeStep ==
  ASSUME IInv, [Next]_vars
  PROVE  TypeOK'
  <1>1. /\ pc \in {"idle", "reading"} /\ link \in BOOLEAN
        /\ wire \in Seq(Tokens) /\ buffer \in Seq(Tokens)
        /\ Len(buffer) <= kMaxBufferedBytes
        /\ connections \in 0..MaxConnections /\ sends \in 0..MaxSends
        /\ delivered \in Seq(Events)
    BY DEF IInv, TypeOK
  <1>2. MaxConnections \in Nat /\ MaxSends \in Nat /\ kMaxBufferedBytes \in Nat
    BY TransportBoundAssumption, LimitAssumption
  <1>3. CASE Reconnect
    <2>1. Greeting \in Seq(Tokens) /\ <<>> \in Seq(Tokens)
      BY SendableWord DEF Sendable, Greeting
    <2>2. connections' \in 0..MaxConnections
      BY <1>1, <1>2, <1>3 DEF Reconnect
    <2> QED
      BY <1>1, <1>3, <2>1, <2>2 DEF Reconnect, TypeOK
  <1>4. CASE ReadLine \/ NothingAvailable
    BY <1>1, <1>4 DEF ReadLine, NothingAvailable, TypeOK
  <1>5. CASE Feed
    <2>1. Head(wire) \in Tokens /\ Tail(wire) \in Seq(Tokens)
      BY <1>1, <1>5, HeadAndTail DEF Feed
    <2>2. buffer' \in Seq(Tokens) /\ Len(buffer') <= kMaxBufferedBytes
      <3>1. CASE Len(buffer) < kMaxBufferedBytes
        <4>1. buffer' = Append(buffer, Head(wire))
          BY <1>5, <3>1 DEF Feed
        <4>2. Append(buffer, Head(wire)) \in Seq(Tokens)
              /\ Len(Append(buffer, Head(wire))) = Len(buffer) + 1
          BY <1>1, <2>1, OneMore
        <4>3. Len(buffer) \in Nat
          BY <1>1
        <4> QED
          BY <1>2, <3>1, <4>1, <4>2, <4>3
      <3>2. CASE ~(Len(buffer) < kMaxBufferedBytes)
        BY <1>1, <1>5, <3>2 DEF Feed
      <3> QED
        BY <3>1, <3>2
    <2> QED
      BY <1>1, <1>5, <2>1, <2>2 DEF Feed, TypeOK
  <1>6. CASE FinishLine
    <2>1. Head(wire) \in Tokens /\ Tail(wire) \in Seq(Tokens) /\ Head(wire).kind = "LF"
      BY <1>1, <1>6, HeadAndTail DEF FinishLine, Terminator
    <2>2. EventOf(buffer) = Head(wire).means
      BY <1>6, <2>1, TakenForWhatItMeans DEF FinishLine
    <2>3. EventOf(buffer) \in Meaning
      BY <2>1, <2>2, TokenMeans
    <2>4. delivered' \in Seq(Events)
      <3>1. CASE EventOf(buffer) = NoEvent
        BY <1>1, <1>6, <3>1 DEF FinishLine
      <3>2. CASE EventOf(buffer) # NoEvent
        <4>1. EventOf(buffer) \in Events
          BY <2>3, <3>2 DEF Meaning
        <4>2. delivered' = Append(delivered, EventOf(buffer))
          BY <1>6, <3>2 DEF FinishLine
        <4> QED
          BY <1>1, <4>1, <4>2
      <3> QED
        BY <3>1, <3>2
    <2>5. buffer' \in Seq(Tokens) /\ Len(buffer') <= kMaxBufferedBytes
      <3>1. <<>> \in Seq(Tokens) /\ Len(<<>>) = 0
        BY EmptySeq
      <3> QED
        BY <1>2, <1>6, <3>1 DEF FinishLine
    <2> QED
      BY <1>1, <1>6, <2>1, <2>4, <2>5 DEF FinishLine, TypeOK
  <1>7. CASE BusTraffic \/ Command \/ Query
    <2>1. PICK v, event : Sendable(v, event) /\ Sent(v)
      BY <1>7, WhatIsSent
    <2>2. v \in Seq(Tokens)
      BY <2>1 DEF Sendable
    <2>3. wire \o v \in Seq(Tokens)
      BY <1>1, <2>2, RowsConcat
    <2>4. sends' \in 0..MaxSends
      BY <1>1, <1>2, <2>1 DEF Sent
    <2> QED
      BY <1>1, <2>1, <2>3, <2>4 DEF Sent, TypeOK
  <1>8. CASE LinkBreaks
    <2>1. wire' \in Seq(Tokens)
      <3>1. PICK kept \in 0..Len(wire) :
              \/ wire' = SubSeq(wire, 1, kept)
              \/ wire' = Append(SubSeq(wire, 1, kept), HalfByte)
        BY <1>8 DEF LinkBreaks
      <3>2. SubSeq(wire, 1, kept) \in Seq(Tokens)
        <4>1. 0 \in 0..Len(wire) /\ 0 + 1 = 1
          BY <1>1
        <4> QED
          BY <1>1, <4>1, Stretch
      <3>3. HalfByte \in Tokens
        BY WrittenTokens
      <3> QED
        BY <3>1, <3>2, <3>3
    <2> QED
      BY <1>1, <1>8, <2>1 DEF LinkBreaks, TypeOK
  <1>9. CASE UNCHANGED vars
    BY <1>1, <1>9 DEF vars, TypeOK
  <1> QED
    BY <1>3, <1>4, <1>5, <1>6, <1>7, <1>8, <1>9 DEF Next, Reader

\* What arrives of a connection that breaks is sound behind what is held.
LEMMA BrokenOff ==
  ASSUME NEW b \in Seq(Tokens), NEW w \in Seq(Tokens), IsSound(b \o w),
         NEW kept \in 0..Len(w)
  PROVE  /\ SubSeq(w, 1, kept) \in Seq(Tokens)
         /\ IsSound(b \o SubSeq(w, 1, kept))
  <1>0. Len(b) \in Nat /\ Len(w) \in Nat /\ kept \in Nat /\ kept <= Len(w)
    OBVIOUS
  <1>1. PICK first : first = SubSeq(w, 1, kept)
    OBVIOUS
  <1>2. first \in Seq(Tokens) /\ Len(first) = kept
        /\ \A k \in 1..kept : first[k] = w[k]
    <2>1. 0 \in 0..Len(w) /\ 0 + 1 = 1 /\ kept - 0 = kept
      BY <1>0
    <2>2. /\ SubSeq(w, 0 + 1, kept) \in Seq(Tokens)
          /\ Len(SubSeq(w, 0 + 1, kept)) = kept - 0
          /\ \A k \in 1..(kept - 0) : SubSeq(w, 0 + 1, kept)[k] = w[0 + k]
      BY <2>1, Stretch
    <2>3. \A k \in 1..kept : 0 + k = k
      BY <1>0
    <2> QED
      BY <1>1, <2>1, <2>2, <2>3
  <1>3. PICK s : s = b \o w
    OBVIOUS
  <1>4. /\ s \in Seq(Tokens) /\ Len(s) = Len(b) + Len(w)
        /\ \A k \in 1..Len(b) : s[k] = b[k]
        /\ \A k \in 1..Len(w) : s[Len(b) + k] = w[k]
    BY <1>3, RowsConcat, Zenon
  <1>5. PICK r : r = b \o first
    OBVIOUS
  <1>6. /\ r \in Seq(Tokens) /\ Len(r) = Len(b) + kept
        /\ \A k \in 1..Len(b) : r[k] = b[k]
        /\ \A k \in 1..kept : r[Len(b) + k] = first[k]
    <2>1. /\ r \in Seq(Tokens) /\ Len(r) = Len(b) + Len(first)
          /\ \A k \in 1..Len(b) : r[k] = b[k]
          /\ \A k \in 1..Len(first) : r[Len(b) + k] = first[k]
      BY <1>2, <1>5, RowsConcat, Zenon
    <2> QED
      BY <1>2, <2>1
  <1>7. PICK n \in 0..Len(s) : n = Len(b) + kept
    <2>1. Len(b) + kept \in 0..Len(s)
      BY <1>0, <1>4
    <2> QED
      BY <2>1
  <1>8. SubSeq(s, 1, n) = r
    <2>1. 0 \in 0..Len(s) /\ n \in 0..Len(s) /\ 0 + 1 = 1 /\ n - 0 = n
      BY <1>4, <1>0
    <2>2. /\ SubSeq(s, 0 + 1, n) \in Seq(Tokens)
          /\ Len(SubSeq(s, 0 + 1, n)) = n - 0
          /\ \A k \in 1..(n - 0) : SubSeq(s, 0 + 1, n)[k] = s[0 + k]
      BY <1>4, <2>1, Stretch
    <2>3. PICK a : a = SubSeq(s, 1, n)
      OBVIOUS
    <2>4. a \in Seq(Tokens) /\ Len(a) = n /\ \A k \in 1..n : a[k] = s[k]
      <3>1. \A k \in 1..n : 0 + k = k
        OBVIOUS
      <3> QED
        BY <2>1, <2>2, <2>3, <3>1
    <2>5. \A k \in 1..n : s[k] = r[k]
      <3> SUFFICES ASSUME NEW k \in 1..n PROVE s[k] = r[k]
        OBVIOUS
      <3>1. CASE k <= Len(b)
        <4>1. k \in 1..Len(b)
          BY <1>0, <3>1
        <4> QED
          BY <1>4, <1>6, <4>1
      <3>2. CASE k > Len(b)
        <4>1. PICK m \in 1..kept : k = Len(b) + m
          <5>1. k - Len(b) \in 1..kept /\ k = Len(b) + (k - Len(b))
            BY <1>0, <1>7, <3>2
          <5> QED
            BY <5>1
        <4>2. m \in 1..Len(w)
          BY <1>0, <4>1
        <4> QED
          BY <1>2, <1>4, <1>6, <4>1, <4>2
      <3> QED
        BY <1>0, <3>1, <3>2
    <2>6. a = r
      BY <1>6, <1>7, <2>4, <2>5, SeqEqual
    <2> QED
      BY <2>3, <2>6
  <1>9. IsSound(SubSeq(s, 1, n))
    BY <1>3, <1>4, SoundPrefix
  <1> QED
    BY <1>1, <1>2, <1>5, <1>8, <1>9

\* The lines after a step.
LEMMA LinesStep ==
  ASSUME IInv, [Next]_vars
  PROVE  LinesKeepTheirMeaning'
  <1>1. /\ buffer \in Seq(Tokens) /\ wire \in Seq(Tokens)
        /\ Len(buffer) \in Nat /\ Len(buffer) <= kMaxBufferedBytes
        /\ buffer \o wire \in Seq(Tokens)
        /\ IsSound(buffer \o wire) /\ HasNoEnd(buffer) /\ IsSound(buffer)
        /\ link => buffer \o wire = <<>>
                   \/ (buffer \o wire)[Len(buffer \o wire)].kind = "LF"
    BY Pending
  <1>2. SUFFICES /\ IsSound(buffer' \o wire')
                 /\ HasNoEnd(buffer')
                 /\ link' => buffer' \o wire' = <<>>
                             \/ (buffer' \o wire')[Len(buffer' \o wire')].kind = "LF"
    BY DEF LinesKeepTheirMeaning, IsSound, HasNoEnd, Last, EventOf, BytesOf, Held
  <1>3. CASE Reconnect
    <2>1. buffer' = buffer /\ link' \in BOOLEAN
          /\ wire' = IF link' THEN Greeting ELSE <<>>
      BY <1>3 DEF Reconnect
    <2>2. CASE link'
      <3>1. PICK v : v = Greeting
        OBVIOUS
      <3>2. v \in Seq(Tokens) /\ v # <<>> /\ v[Len(v)].kind = "LF"
        BY <3>1, SendableWord DEF Sendable, Greeting
      <3>3. IsSound(buffer \o v)
        BY <1>1, <3>1, SoundWord DEF Greeting
      <3>4. (buffer \o v)[Len(buffer \o v)].kind = "LF"
        BY <1>1, <3>2, LastOfConcat
      <3> QED
        BY <1>1, <2>1, <2>2, <3>1, <3>3, <3>4
    <2>3. CASE ~link'
      <3>1. buffer' \o wire' = buffer
        BY <1>1, <2>1, <2>3, ConcatEmptySeq
      <3> QED
        BY <1>1, <2>1, <2>3, <3>1
    <2> QED
      BY <2>2, <2>3
  <1>4. CASE ReadLine \/ NothingAvailable \/ UNCHANGED vars
    <2>1. buffer' = buffer /\ wire' = wire /\ link' = link
      BY <1>4 DEF ReadLine, NothingAvailable, vars
    <2> QED
      BY <1>1, <2>1
  <1>5. CASE Feed
    <2>1. /\ wire # <<>> /\ Head(wire).kind # "LF" /\ wire' = Tail(wire) /\ link' = link
          /\ buffer' = IF Len(buffer) < kMaxBufferedBytes
                       THEN Append(buffer, Head(wire)) ELSE buffer
      BY <1>5 DEF Feed, Terminator
    <2>2. /\ Head(wire) \in Tokens /\ Tail(wire) \in Seq(Tokens)
          /\ Tail(wire) # <<>> => Tail(wire)[Len(Tail(wire))] = wire[Len(wire)]
          /\ Tail(wire) = <<>> => Head(wire) = wire[Len(wire)]
      BY <1>1, <2>1, HeadAndTail
    <2>3. CASE Len(buffer) < kMaxBufferedBytes
      <3>1. buffer' \o wire' = buffer \o wire
        BY <1>1, <2>1, <2>3, FeedMoves
      <3>2. HasNoEnd(Append(buffer, Head(wire)))
        <4>1. PICK b : b = Append(buffer, Head(wire))
          OBVIOUS
        <4>2. /\ Len(b) = Len(buffer) + 1 /\ b[Len(buffer) + 1] = Head(wire)
              /\ \A k \in 1..Len(buffer) : b[k] = buffer[k]
          BY <1>1, <2>2, <4>1, OneMore
        <4>3. ASSUME NEW k \in 1..Len(b) PROVE b[k].kind # "LF"
          <5>1. k \in 1..Len(buffer) \/ k = Len(buffer) + 1
            BY <1>1, <4>2
          <5> QED
            BY <1>1, <2>1, <4>2, <5>1 DEF HasNoEnd
        <4> QED
          BY <4>1, <4>3 DEF HasNoEnd
      <3> QED
        BY <1>1, <2>1, <2>3, <3>1, <3>2
    <2>4. CASE ~(Len(buffer) < kMaxBufferedBytes)
      <3>1. Len(buffer) = kMaxBufferedBytes /\ buffer' = buffer
        BY <1>1, <2>1, <2>4, LimitAssumption
      <3>2. IsSound(buffer \o Tail(wire))
        BY <1>1, <2>1, <3>1, SoundDrop
      <3>3. link => (buffer \o Tail(wire))[Len(buffer \o Tail(wire))].kind = "LF"
        <4> SUFFICES ASSUME link
                     PROVE  (buffer \o Tail(wire))[Len(buffer \o Tail(wire))].kind = "LF"
          OBVIOUS
        <4>1. wire[Len(wire)].kind = "LF"
          BY <1>1, <2>1, LastOfConcat
        <4>2. Tail(wire) # <<>>
          BY <2>1, <2>2, <4>1
        <4>3. (buffer \o Tail(wire))[Len(buffer \o Tail(wire))] = Tail(wire)[Len(Tail(wire))]
          BY <1>1, <2>2, <4>2, LastOfConcat
        <4> QED
          BY <2>2, <4>1, <4>2, <4>3
      <3> QED
        BY <1>1, <2>1, <3>1, <3>2, <3>3
    <2> QED
      BY <2>3, <2>4
  <1>6. CASE FinishLine
    <2>1. /\ wire # <<>> /\ Head(wire).kind = "LF" /\ wire' = Tail(wire) /\ link' = link
          /\ buffer' = <<>>
      BY <1>6 DEF FinishLine, Terminator
    <2>2. /\ Tail(wire) \in Seq(Tokens)
          /\ Tail(wire) # <<>> => Tail(wire)[Len(Tail(wire))] = wire[Len(wire)]
      BY <1>1, <2>1, HeadAndTail
    <2>3. buffer' \o wire' = Tail(wire)
      BY <2>1, <2>2, ConcatEmptySeq
    <2>4. IsSound(Tail(wire))
      BY <1>1, <2>1, SoundRest
    <2>5. link => Tail(wire) = <<>> \/ Tail(wire)[Len(Tail(wire))].kind = "LF"
      <3>1. link => wire[Len(wire)].kind = "LF"
        BY <1>1, <2>1, LastOfConcat
      <3> QED
        BY <2>2, <3>1
    <2>6. HasNoEnd(buffer')
      BY <2>1, SoundNothing
    <2> QED
      BY <2>1, <2>3, <2>4, <2>5, <2>6
  <1>7. CASE BusTraffic \/ Command \/ Query
    <2>1. PICK v, event : Sendable(v, event) /\ Sent(v)
      BY <1>7, WhatIsSent
    <2>2. v \in Seq(Tokens) /\ v # <<>> /\ v[Len(v)].kind = "LF" /\ IsSound(v)
      BY <2>1 DEF Sendable
    <2>3. link /\ link' = link /\ wire' = wire \o v /\ buffer' = buffer
      BY <2>1 DEF Sent
    <2>4. buffer' \o wire' = (buffer \o wire) \o v
      <3>1. \A a, b, c \in Seq(Tokens) : a \o (b \o c) = (a \o b) \o c
        BY ConcatAssociative
      <3>2. buffer \o (wire \o v) = (buffer \o wire) \o v
        BY <1>1, <2>2, <3>1, Zenon
      <3>3. buffer' \o wire' = buffer \o (wire \o v)
        BY <2>3, Zenon
      <3> QED
        BY <3>2, <3>3, Zenon
    <2>5. IsSound((buffer \o wire) \o v)
      BY <1>1, <2>2, <2>3, SoundConcat
    <2>6. ((buffer \o wire) \o v)[Len((buffer \o wire) \o v)].kind = "LF"
      BY <1>1, <2>2, LastOfConcat
    <2> QED
      BY <1>1, <2>3, <2>4, <2>5, <2>6
  <1>8. CASE LinkBreaks
    <2>1. buffer' = buffer /\ link' = FALSE
      BY <1>8 DEF LinkBreaks
    <2>2. PICK kept \in 0..Len(wire) :
            \/ wire' = SubSeq(wire, 1, kept)
            \/ wire' = Append(SubSeq(wire, 1, kept), HalfByte)
      BY <1>8 DEF LinkBreaks
    <2>3. PICK first : first = SubSeq(wire, 1, kept)
      OBVIOUS
    <2>4. first \in Seq(Tokens) /\ IsSound(buffer \o first)
      BY <1>1, <2>3, BrokenOff
    <2>5. HalfByte \in Tokens
      BY WrittenTokens
    <2>6. buffer \o Append(first, HalfByte) = Append(buffer \o first, HalfByte)
      BY <1>1, <2>4, <2>5, AppendToConcat
    <2>7. IsSound(Append(buffer \o first, HalfByte))
      <3>1. buffer \o first \in Seq(Tokens)
        BY <1>1, <2>4, RowsConcat
      <3> QED
        BY <2>4, <3>1, SoundHalf
    <2> QED
      BY <1>1, <2>1, <2>2, <2>3, <2>4, <2>6, <2>7
  <1> QED
    BY <1>3, <1>4, <1>5, <1>6, <1>7, <1>8 DEF Next, Reader

-----------------------------------------------------------------------------
(* The theorems. *)

\* The inductive invariant holds from the first step on.
LEMMA InvCorrect == Spec => []IInv
  <1>1. Init => IInv
    BY InvInit
  <1>2. IInv /\ [Next]_vars => IInv'
    <2>1. IInv /\ [Next]_vars => TypeOK'
      BY TypeStep
    <2>2. IInv /\ [Next]_vars => LinesKeepTheirMeaning'
      BY LinesStep
    <2> QED
      BY <2>1, <2>2 DEF IInv
  <1> QED
    BY <1>1, <1>2, PTL DEF Spec

\* The variables keep their types, and the assembler never holds more than its
\* limit, however long a line from JMRI is.
THEOREM TypesCorrect == Spec => []TypeOK
  <1>1. IInv => TypeOK
    BY DEF IInv
  <1> QED
    BY <1>1, InvCorrect, PTL

\* Whatever is cut off and whatever runs into it, a line that reaches its LF is
\* taken for what was meant at the other end, or for nothing when it meant
\* nothing.
THEOREM LinesCorrect == Spec => []LinesKeepTheirMeaning
  <1>1. IInv => LinesKeepTheirMeaning
    BY DEF IInv
  <1> QED
    BY <1>1, InvCorrect, PTL

\* A token before others means what it means before what they mean.
LEMMA MeaningsOfHead ==
  ASSUME NEW w \in Seq(Tokens), w # <<>>
  PROVE  /\ Head(w) \in Tokens /\ Tail(w) \in Seq(Tokens)
         /\ Meanings(Tail(w)) \in Seq(Events)
         /\ Head(w).means = NoEvent => Meanings(w) = Meanings(Tail(w))
         /\ Head(w).means # NoEvent =>
              Meanings(w) = <<Head(w).means>> \o Meanings(Tail(w))
  <1>1. /\ Head(w) \in Tokens /\ Tail(w) \in Seq(Tokens)
        /\ <<Head(w)>> \in Seq(Tokens) /\ w = <<Head(w)>> \o Tail(w)
    BY HeadAndTail
  <1>2. Meanings(Tail(w)) \in Seq(Events)
    BY <1>1, MeaningsType
  <1>3. Meanings(w) = Meanings(<<Head(w)>>) \o Meanings(Tail(w))
    BY <1>1, MeaningsConcat
  <1>4. Meanings(<<Head(w)>>) = IF Head(w).means = NoEvent THEN <<>> ELSE <<Head(w).means>>
    BY <1>1, MeaningsOfEnd
  <1>5. <<>> \o Meanings(Tail(w)) = Meanings(Tail(w))
    BY <1>2, ConcatEmptySeq
  <1> QED
    BY <1>1, <1>2, <1>3, <1>4, <1>5

\* A first part of the wire means a first part of what all of it means.
LEMMA MeaningsOfPart ==
  ASSUME NEW w \in Seq(Tokens), NEW k \in 0..Len(w)
  PROVE  /\ SubSeq(w, 1, k) \in Seq(Tokens)
         /\ \E n \in 0..Len(Meanings(w)) :
              Meanings(SubSeq(w, 1, k)) = SubSeq(Meanings(w), 1, n)
  <1>1. PICK u : u = SubSeq(w, 1, k)
    OBVIOUS
  <1>2. PICK v : v = SubSeq(w, k + 1, Len(w))
    OBVIOUS
  <1>3. u \in Seq(Tokens) /\ v \in Seq(Tokens)
    <2>1. Len(w) \in 0..Len(w) /\ k \in k..Len(w) /\ 0 \in 0..Len(w) /\ 0 + 1 = 1
      OBVIOUS
    <2>2. SubSeq(w, 0 + 1, k) \in Seq(Tokens)
      BY <2>1, Stretch
    <2>3. SubSeq(w, k + 1, Len(w)) \in Seq(Tokens)
      BY <2>1, Stretch
    <2> QED
      BY <1>1, <1>2, <2>1, <2>2, <2>3
  <1>4. u \o v = w
    <2>1. PICK p \in 1..(Len(w) + 1) : p = 1
      OBVIOUS
    <2>2. SubSeq(w, 1, k) \o SubSeq(w, k + 1, Len(w)) = SubSeq(w, 1, Len(w))
      <3>1. k \in (p - 1)..Len(w) /\ Len(w) \in k..Len(w)
        BY <2>1
      <3>2. SubSeq(w, p, k) \o SubSeq(w, k + 1, Len(w)) = SubSeq(w, p, Len(w))
        BY <3>1, ConcatAdjacentSubSeq
      <3> QED
        BY <2>1, <3>2
    <2>3. SubSeq(w, 1, Len(w)) = w
      BY SubSeqFull
    <2> QED
      BY <1>1, <1>2, <2>2, <2>3
  <1>5. Meanings(w) = Meanings(u) \o Meanings(v)
    BY <1>3, <1>4, MeaningsConcat
  <1>6. PICK a \in Seq(Events) : a = Meanings(u)
    BY <1>3, MeaningsType
  <1>7. PICK b \in Seq(Events) : b = Meanings(v)
    BY <1>3, MeaningsType
  <1>8. Len(a) \in 0..Len(a \o b)
    BY ConcatProperties
  <1>9. SubSeq(a \o b, 1, Len(a)) = a
    BY FirstRow
  <1> QED
    BY <1>1, <1>3, <1>5, <1>6, <1>7, <1>8, <1>9

\* Half a byte behind a row means nothing.
LEMMA MeaningsOfHalf ==
  ASSUME NEW s \in Seq(Tokens)
  PROVE  Meanings(Append(s, HalfByte)) = Meanings(s)
  <1>1. HalfByte \in Tokens /\ HalfByte.means = NoEvent
    BY WrittenTokens
  <1>2. Append(s, HalfByte) = s \o <<HalfByte>> /\ <<HalfByte>> \in Seq(Tokens)
    BY <1>1, AppendIsConcat
  <1>3. Meanings(Append(s, HalfByte)) = Meanings(s) \o Meanings(<<HalfByte>>)
    BY <1>2, MeaningsConcat
  <1>4. Meanings(<<HalfByte>>) = <<>>
    BY <1>1, MeaningsOfEnd
  <1>5. Meanings(s) \in Seq(Events)
    BY MeaningsType
  <1> QED
    BY <1>3, <1>4, <1>5, ConcatEmptySeq

-----------------------------------------------------------------------------
(* The refinement. *)

\* What the server and the device write is one message of the channel or none.
LEMMA SendRefines ==
  ASSUME IInv, BusTraffic \/ Command \/ Query
  PROVE  [Channel!Next]_(Channel!vars)
  <1>1. PICK v, event : Sendable(v, event) /\ Sent(v)
    BY WhatIsSent
  <1>2. /\ v \in Seq(Tokens) /\ event \in Meaning
        /\ Meanings(v) = IF event = NoEvent THEN <<>> ELSE <<event>>
    BY <1>1 DEF Sendable
  <1>3. /\ link /\ link' = link /\ wire' = wire \o v
        /\ connections' = connections /\ delivered' = delivered
    BY <1>1 DEF Sent
  <1>4. wire \in Seq(Tokens) /\ Meanings(wire) \in Seq(Events)
    BY MeaningsType DEF IInv, TypeOK
  <1>5. Meanings(wire') = Meanings(wire) \o Meanings(v)
    BY <1>2, <1>3, <1>4, MeaningsConcat
  <1>6. CASE event = NoEvent
    <2>1. Meanings(wire') = Meanings(wire)
      BY <1>2, <1>4, <1>5, <1>6, ConcatEmptySeq
    <2> QED
      BY <1>3, <2>1 DEF Channel!vars
  <1>7. CASE event # NoEvent
    <2>1. event \in Events
      BY <1>2, <1>7 DEF Meaning
    <2>2. Append(Meanings(wire), event) = Meanings(wire) \o <<event>>
      BY <1>4, <2>1, AppendIsConcat
    <2>3. Meanings(wire') = Append(Meanings(wire), event)
      BY <1>2, <1>5, <1>7, <2>2
    <2>4. Channel!Send(event)
      BY <1>3, <2>3 DEF Channel!Send
    <2> QED
      BY <2>1, <2>4 DEF Channel!Next
  <1> QED
    BY <1>6, <1>7

\* A line that is complete hands over the first message of the channel, or is
\* none of its messages.
LEMMA FinishRefines ==
  ASSUME IInv, FinishLine
  PROVE  [Channel!Next]_(Channel!vars)
  <1>1. /\ wire # <<>> /\ Head(wire).kind = "LF" /\ wire' = Tail(wire)
        /\ delivered' = IF EventOf(buffer) = NoEvent THEN delivered
                        ELSE Append(delivered, EventOf(buffer))
        /\ link' = link /\ connections' = connections
    BY DEF FinishLine, Terminator
  <1>2. wire \in Seq(Tokens)
    BY DEF IInv, TypeOK
  <1>3. EventOf(buffer) = Head(wire).means
    BY <1>1, TakenForWhatItMeans
  <1>4. /\ Head(wire) \in Tokens
        /\ Meanings(Tail(wire)) \in Seq(Events)
        /\ Head(wire).means = NoEvent => Meanings(wire) = Meanings(Tail(wire))
        /\ Head(wire).means # NoEvent =>
             Meanings(wire) = <<Head(wire).means>> \o Meanings(Tail(wire))
    BY <1>1, <1>2, MeaningsOfHead
  <1>5. CASE Head(wire).means = NoEvent
    BY <1>1, <1>3, <1>4, <1>5 DEF Channel!vars
  <1>6. CASE Head(wire).means # NoEvent
    <2>1. PICK e \in Events : e = Head(wire).means
      BY <1>4, <1>6, TokenMeans DEF Meaning
    <2>2. PICK q \in Seq(Events) : q = Meanings(Tail(wire))
      BY <1>4
    <2>3. PICK all : all = Meanings(wire)
      OBVIOUS
    <2>4. all = <<e>> \o q
      BY <1>4, <1>6, <2>1, <2>2, <2>3
    <2>5. all # <<>> /\ Head(all) = e /\ Tail(all) = q
      BY <2>4
    <2>6. delivered' = Append(delivered, Head(all))
      BY <1>1, <1>3, <1>6, <2>1, <2>5
    <2>7. Meanings(wire') = Tail(all)
      BY <1>1, <2>2, <2>5
    <2>8. Channel!Deliver
      BY <1>1, <2>3, <2>5, <2>6, <2>7 DEF Channel!Deliver
    <2> QED
      BY <2>8 DEF Channel!Next
  <1> QED
    BY <1>5, <1>6

\* A connection that breaks loses the last messages of the channel.
LEMMA BreakRefines ==
  ASSUME IInv, LinkBreaks
  PROVE  [Channel!Next]_(Channel!vars)
  <1>1. /\ link /\ link' = FALSE
        /\ connections' = connections /\ delivered' = delivered
    BY DEF LinkBreaks
  <1>2. PICK kept \in 0..Len(wire) :
          \/ wire' = SubSeq(wire, 1, kept)
          \/ wire' = Append(SubSeq(wire, 1, kept), HalfByte)
    BY DEF LinkBreaks
  <1>3. wire \in Seq(Tokens)
    BY DEF IInv, TypeOK
  <1>4. PICK u \in Seq(Tokens) : u = SubSeq(wire, 1, kept)
    BY <1>3, MeaningsOfPart
  <1>5. PICK n \in 0..Len(Meanings(wire)) : Meanings(u) = SubSeq(Meanings(wire), 1, n)
    BY <1>3, <1>4, MeaningsOfPart
  <1>6. Meanings(wire') = Meanings(u)
    BY <1>2, <1>4, MeaningsOfHalf
  <1>7. Channel!Break
    BY <1>1, <1>5, <1>6 DEF Channel!Break
  <1> QED
    BY <1>7 DEF Channel!Next

\* Every step is a step of the channel or none.
LEMMA StepRefines ==
  ASSUME IInv, [Next]_vars
  PROVE  [Channel!Next]_(Channel!vars)
  <1>1. wire \in Seq(Tokens)
    BY DEF IInv, TypeOK
  <1>2. CASE Reconnect
    <2>1. Meanings(wire') = <<>>
      <3>1. Meanings(Greeting) = <<>>
        BY SendableWord DEF Sendable, Greeting
      <3>2. Meanings(<<>>) = <<>>
        <4>1. <<>> \in Seq(Tokens) /\ HasNoEnd(<<>>)
          BY EmptySeq, SoundNothing
        <4> QED
          BY <4>1, MeaningsOfNoEnd
      <3> QED
        BY <1>2, <3>1, <3>2 DEF Reconnect
    <2>2. Channel!Connect
      BY <1>2, <2>1 DEF Reconnect, Channel!Connect
    <2> QED
      BY <2>2 DEF Channel!Next
  <1>3. CASE ReadLine \/ NothingAvailable \/ UNCHANGED vars
    <2>1. /\ wire' = wire /\ link' = link
          /\ connections' = connections /\ delivered' = delivered
      BY <1>3 DEF ReadLine, NothingAvailable, vars
    <2> QED
      BY <2>1 DEF Channel!vars
  <1>4. CASE Feed
    <2>1. /\ wire # <<>> /\ Head(wire).kind # "LF" /\ wire' = Tail(wire)
          /\ link' = link /\ connections' = connections /\ delivered' = delivered
      BY <1>4 DEF Feed, Terminator
    <2>2. Meanings(wire') = Meanings(wire)
      BY <1>1, <2>1, MeaningsOfHead, TokenMeans
    <2> QED
      BY <2>1, <2>2 DEF Channel!vars
  <1>5. CASE FinishLine
    BY <1>5, FinishRefines
  <1>6. CASE BusTraffic \/ Command \/ Query
    BY <1>6, SendRefines
  <1>7. CASE LinkBreaks
    BY <1>7, BreakRefines
  <1> QED
    BY <1>2, <1>3, <1>4, <1>5, <1>6, <1>7 DEF Next, Reader

\* The line stream, the assembler and the codec keep the safety promise of
\* FrameChannel, the part of ImplementsFrameChannel that is not about fairness:
\* each switch message is handed over once, in order, as what was meant, and is
\* lost only with its connection.
THEOREM TransportKeepsFrames == Spec => Channel!Safety
  <1>1. Init => Channel!Init
    <2> SUFFICES ASSUME Init PROVE Channel!Init
      OBVIOUS
    <2>1. <<>> \in Seq(Tokens) /\ HasNoEnd(<<>>)
      BY EmptySeq, SoundNothing
    <2>2. Meanings(<<>>) = <<>>
      BY <2>1, MeaningsOfNoEnd
    <2> QED
      BY <2>2 DEF Init, Channel!Init
  <1>2. Spec => []IInv
    BY InvCorrect
  <1>3. IInv /\ [Next]_vars => [Channel!Next]_(Channel!vars)
    BY StepRefines
  <1> QED
    BY <1>1, <1>2, <1>3, PTL DEF Spec, Channel!Safety
=============================================================================
