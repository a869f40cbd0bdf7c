-------------------------- MODULE MudPipelineProofs -------------------------
(***************************************************************************)
(* Proofs about MudPipeline and the modules it puts together, for every    *)
(* size of buffer, chunks, bodies and the limit, every charset, and files  *)
(* and overrides of any length.                                            *)
(*                                                                         *)
(* What a loop computes is proved by way of the smallest counterexample:   *)
(* a set of natural numbers that is not empty has a smallest element.      *)
(***************************************************************************)
EXTENDS MudPipeline, SequenceTheorems, WellFoundedInduction, TLAPS

LEMMA NatMin ==
    ASSUME NEW S, S \subseteq Nat, S # {} PROVE \E m \in S : \A n \in S : m <= n
<1> DEFINE R == OpToRel(<, Nat)
<1>1. IsWellFoundedOn(R, Nat)
    BY NatLessThanWellFounded
<1>2. PICK x \in S : \A y \in S : ~(<<y, x>> \in R)
    <2> HIDE DEF R
    <2> QED BY <1>1, WFMin
<1>3. \A y \in S : ~(y < x)
    BY <1>2 DEF OpToRel
<1> QED BY <1>3

(* Induction, for a set of numbers. *)
LEMMA NatSetInduction ==
    ASSUME NEW S, 0 \in S, \A n \in Nat : n \in S => n + 1 \in S PROVE Nat \subseteq S
<1> SUFFICES ASSUME Nat \ S # {} PROVE FALSE
    OBVIOUS
<1>1. PICK m \in Nat \ S : \A n \in Nat \ S : m <= n
    BY NatMin
<1>2. m # 0 /\ m - 1 \in Nat
    BY <1>1
<1>3. m - 1 \in S
    BY <1>1, <1>2
<1>4. (m - 1) + 1 \in S
    BY <1>2, <1>3
<1> QED BY <1>1, <1>4

(***************************************************************************)
(* The download                                                            *)
(***************************************************************************)

LEMMA DivTimes ==
    ASSUME NEW b \in Nat, NEW o \in 1..b PROVE b \div o \in Nat /\ (b \div o) * o <= b
OBVIOUS

LEMMA FitsBuffer ==
    ASSUME NEW b \in Nat, NEW o \in 1..b, NEW k \in Nat, k <= b \div o PROVE k * o <= b
BY DivTimes

LEMMA Distribute ==
    ASSUME NEW a \in Nat, NEW b \in Nat, NEW c \in Nat, NEW o \in Nat
    PROVE  (a + b + c) * o = a * o + b * o + c * o
OBVIOUS

LEMMA Less ==
    ASSUME NEW a \in Nat, NEW b \in Nat, NEW c \in Nat, NEW o \in Nat, NEW l \in Nat, NEW g \in Nat,
           NEW k \in Nat, (a + b + c) * o < l + k + g
    PROVE  (a + b) * o < l + k + g
<1>1. (a + b + c) * o = (a + b) * o + c * o
    OBVIOUS
<1>2. (a + b) * o \in Nat /\ c * o \in Nat
    OBVIOUS
<1> QED BY <1>1, <1>2

(* What decoding adds to n characters of i bytes that take o bytes decoded. *)
LEMMA Growth ==
    ASSUME NEW n \in Nat, NEW c \in Nat, n <= c, NEW i \in Nat, NEW o \in Nat
    PROVE  n * o <= n * i + (IF o > i THEN (o - i) * c ELSE 0)
<1>1. CASE o <= i
    BY <1>1
<1>2. CASE o > i
    <2>1. n * o = n * i + n * (o - i)
        BY <1>2
    <2>2. n * (o - i) <= c * (o - i)
        BY <1>2
    <2>3. c * (o - i) = (o - i) * c
        BY <1>2
    <2> QED BY <1>2, <2>1, <2>2, <2>3
<1> QED BY <1>1, <1>2

LEMMA CharactersSeq ==
    ASSUME NEW m \in Nat, NEW n \in Nat, m <= n
    PROVE  /\ Characters(m, n) \in Seq(Nat) /\ Len(Characters(m, n)) = n - m
           /\ \A i \in 1..(n - m) : Characters(m, n)[i] = m + i
BY DEF Characters

LEMMA CharactersSplit ==
    ASSUME NEW m \in Nat, NEW n \in Nat, m <= n
    PROVE  Characters(0, m) \o Characters(m, n) = Characters(0, n)
<1>1. PICK s : s = Characters(0, m)
    OBVIOUS
<1>2. PICK t : t = Characters(m, n)
    OBVIOUS
<1>3. PICK u : u = Characters(0, n)
    OBVIOUS
<1>4. s \in Seq(Nat) /\ Len(s) = m /\ \A i \in 1..m : s[i] = i
    BY <1>1 DEF Characters
<1>5. t \in Seq(Nat) /\ Len(t) = n - m /\ \A i \in 1..(n - m) : t[i] = m + i
    BY <1>2, CharactersSeq
<1>6. u \in Seq(Nat) /\ Len(u) = n /\ \A i \in 1..n : u[i] = i
    BY <1>3 DEF Characters
<1>7. s \o t = u
    <2> USE <1>4, <1>5, <1>6
    <2>1. /\ s \o t \in Seq(Nat) /\ Len(s \o t) = Len(s) + Len(t)
          /\ \A i \in 1..(Len(s) + Len(t)) : (s \o t)[i] = IF i <= Len(s) THEN s[i] ELSE t[i - Len(s)]
        OBVIOUS
    <2>2. Len(s \o t) = n /\ Len(s) + Len(t) = n
        BY <2>1
    <2>3. ASSUME NEW i \in 1..n PROVE (s \o t)[i] = u[i]
        <3>1. CASE i <= m
            BY <2>1, <2>2, <3>1
        <3>2. CASE i > m
            <4>1. i - m \in 1..(n - m)
                BY <3>2
            <4>2. t[i - m] = m + (i - m)
                BY <4>1
            <4>3. (s \o t)[i] = IF i <= Len(s) THEN s[i] ELSE t[i - Len(s)]
                BY <2>1, <2>2
            <4>4. ~(i <= Len(s)) /\ i - Len(s) = i - m
                BY <3>2
            <4>5. m + (i - m) = i
                OBVIOUS
            <4> QED BY <4>2, <4>3, <4>4, <4>5
        <3> QED BY <3>1, <3>2
    <2> QED BY <2>1, <2>2, <2>3, SeqEqual
<1> QED BY <1>1, <1>2, <1>3, <1>7

LEMMA NextCharacters ==
    ASSUME NEW m \in Nat, NEW k \in Nat
    PROVE  /\ Characters(m, m + k) \in Seq(Nat) /\ Len(Characters(m, m + k)) = k
           /\ Characters(0, m) \o Characters(m, m + k) = Characters(0, m + k)
<1>1. m + k \in Nat /\ m <= m + k /\ (m + k) - m = k
    OBVIOUS
<1> QED BY <1>1, CharactersSeq, CharactersSplit

Gain == IF enc.out > enc.in THEN (enc.out - enc.in) * MaxChunk ELSE 0

(* The inductive invariant of the download.  That the output is complete at the
   end is the last instance of: output, buffer and the rest of the chunk are,
   one after the other, what was received.  The limit is only looked at when a
   chunk arrives, so what is bounded is the output with what is still to be
   decoded. *)
FetchTypeOK ==
    /\ fpc \in {"idle", "chunk", "decode", "flush", "done"}
    /\ enc \in Encodings \cup {Utf8} /\ sent \in 0..MaxBody
    /\ chunk \in Seq(Nat) /\ buffer \in Seq(Nat) /\ output \in Seq(Nat)
    /\ Len(chunk) <= MaxChunk /\ Len(buffer) <= BufferSize \div enc.out

AllThere == output \o buffer \o chunk = Characters(0, sent)

EmptyAt ==
    /\ fpc # "decode" => chunk = <<>>
    /\ fpc = "done" => buffer = <<>>
    /\ fpc = "idle" => output = <<>> /\ buffer = <<>> /\ sent = 0

Limited == (Len(output) + Len(buffer) + Len(chunk)) * enc.out < MAX_LEN + BufferSize + Gain

FetchInv == FetchTypeOK /\ AllThere /\ EmptyAt /\ Limited

LEMMA Sizes ==
    ASSUME NEW e \in Encodings \cup {Utf8}
    PROVE  /\ e.in \in Nat /\ e.out \in Nat /\ e.out \in 1..BufferSize
           /\ BufferSize \in Nat /\ MAX_LEN \in Nat /\ MAX_LEN > 0 /\ MaxChunk \in Nat /\ MaxBody \in Nat
           /\ BufferSize \div e.out \in Nat
<1>1. /\ BufferSize \in Nat /\ BufferSize > 0 /\ MAX_LEN \in Nat /\ MAX_LEN > 0
      /\ MaxChunk \in Nat /\ MaxBody \in Nat
    BY FetchAssumption
<1>2. e.in \in Nat /\ e.out \in 1..BufferSize
    BY <1>1, FetchAssumption DEF Utf8
<1> QED BY <1>1, <1>2, DivTimes

LEMMA GainNat ==
    ASSUME enc \in Encodings \cup {Utf8} PROVE Gain \in Nat
<1>1. enc.in \in Nat /\ enc.out \in Nat /\ MaxChunk \in Nat
    BY Sizes
<1>2. CASE enc.out > enc.in
    BY <1>1, <1>2 DEF Gain
<1>3. CASE ~(enc.out > enc.in)
    BY <1>3 DEF Gain
<1> QED BY <1>2, <1>3

(* Nothing received yet. *)
FetchEmpty ==
    /\ fpc \in {"idle", "chunk"} /\ enc \in Encodings \cup {Utf8}
    /\ sent = 0 /\ chunk = <<>> /\ buffer = <<>> /\ output = <<>>

LEMMA EmptyInv == FetchEmpty => FetchInv
<1> SUFFICES ASSUME FetchEmpty PROVE FetchInv
    OBVIOUS
<1> USE DEF FetchEmpty
<1>1. /\ MAX_LEN \in Nat /\ MAX_LEN > 0 /\ BufferSize \in Nat /\ MaxChunk \in Nat /\ MaxBody \in Nat
      /\ enc.out \in Nat /\ BufferSize \div enc.out \in Nat /\ Gain \in Nat
    BY Sizes, GainNat
<1>2. FetchTypeOK
    BY <1>1 DEF FetchTypeOK
<1>3. AllThere
    <2>1. Characters(0, 0) = <<>>
        <3>1. DOMAIN [i \in 1..(0 - 0) |-> 0 + i] = {}
            OBVIOUS
        <3> QED BY <3>1 DEF Characters
    <2> QED BY <2>1 DEF AllThere
<1>4. Limited
    <2>1. (Len(output) + Len(buffer) + Len(chunk)) = 0
        OBVIOUS
    <2> QED BY <1>1, <2>1 DEF Limited
<1> QED BY <1>2, <1>3, <1>4 DEF FetchInv, EmptyAt

LEMMA FetchReturnInv == FetchReturn => FetchInv'
<1> SUFFICES ASSUME FetchReturn PROVE FetchInv'
    OBVIOUS
<1>1. FetchEmpty'
    BY DEF FetchReturn, FetchEmpty
<1> QED BY <1>1, EmptyInv, PTL

LEMMA Assoc ==
    ASSUME NEW o \in Seq(Nat), NEW b \in Seq(Nat), NEW c \in Seq(Nat)
    PROVE  o \o (b \o c) = (o \o b) \o c /\ o \o b \in Seq(Nat) /\ Len(o \o b) = Len(o) + Len(b)
<1>1. o \o b \in Seq(Nat) /\ Len(o \o b) = Len(o) + Len(b)
    OBVIOUS
<1>2. o \o (b \o c) = (o \o b) \o c
    BY ConcatAssociative
<1> QED BY <1>1, <1>2

LEMMA Regroup ==
    ASSUME NEW o \in Seq(Nat), NEW b \in Seq(Nat), NEW c \in Seq(Nat)
    PROVE  o \o (b \o c) \o <<>> = o \o b \o c /\ (o \o b) \o <<>> \o <<>> = o \o b \o <<>>
<1>1. o \o (b \o c) = o \o b \o c
    BY ConcatAssociative
<1>2. o \o b \o c \in Seq(Nat) /\ o \o b \in Seq(Nat) /\ b \o c \in Seq(Nat)
    OBVIOUS
<1> QED BY <1>1, <1>2, ConcatEmptySeq

(* Cutting the chunk in two changes nothing. *)
LEMMA CutChunk ==
    ASSUME NEW o \in Seq(Nat), NEW b \in Seq(Nat), NEW c \in Seq(Nat), NEW d \in 0..Len(c)
    PROVE  /\ SubSeq(c, 1, d) \in Seq(Nat) /\ Len(SubSeq(c, 1, d)) = d
           /\ SubSeq(c, d + 1, Len(c)) \in Seq(Nat) /\ Len(SubSeq(c, d + 1, Len(c))) = Len(c) - d
           /\ (o \o b \o SubSeq(c, 1, d)) \o <<>> \o SubSeq(c, d + 1, Len(c)) = o \o b \o c
<1>1. PICK x : x = SubSeq(c, 1, d)
    OBVIOUS
<1>2. PICK y : y = SubSeq(c, d + 1, Len(c))
    OBVIOUS
<1>3. x \in Seq(Nat) /\ Len(x) = d
    BY <1>1
<1>4. y \in Seq(Nat) /\ Len(y) = Len(c) - d
    BY <1>2
<1>5. x \o y = c
    <2>1. SubSeq(c, 1, d) \o SubSeq(c, d + 1, Len(c)) = SubSeq(c, 1, Len(c))
        <3>1. 1 \in 1..(Len(c) + 1) /\ d \in (1 - 1)..Len(c) /\ Len(c) \in d..Len(c)
            OBVIOUS
        <3> QED BY <3>1, ConcatAdjacentSubSeq
    <2>2. SubSeq(c, 1, Len(c)) = c
        BY SubSeqFull
    <2> QED BY <1>1, <1>2, <2>1, <2>2
<1>6. PICK z : z = o \o b
    OBVIOUS
<1>7. z \in Seq(Nat)
    BY <1>6
<1>8. z \o x \in Seq(Nat)
    BY <1>3, <1>7
<1>9. (z \o x) \o <<>> = z \o x
    BY <1>8, ConcatEmptySeq
<1>10. z \o (x \o y) = (z \o x) \o y
    BY <1>3, <1>4, <1>7, Assoc
<1> QED BY <1>1, <1>2, <1>3, <1>4, <1>5, <1>6, <1>9, <1>10

LEMMA FetchBeginInv ==
    ASSUME FetchInv, NEW e \in Encodings, FetchBegin(e) PROVE FetchInv'
<1>1. FetchEmpty'
    BY DEF FetchBegin, FetchEmpty, FetchInv, EmptyAt
<1> QED BY <1>1, EmptyInv, PTL

LEMMA ReceiveChunkInv ==
    ASSUME FetchInv, NEW n \in 1..MaxChunk, ReceiveChunk(n) PROVE FetchInv'
<1> USE DEF FetchInv, FetchTypeOK
<1>1. /\ MAX_LEN \in Nat /\ BufferSize \in Nat /\ MaxChunk \in Nat /\ MaxBody \in Nat
      /\ enc.in \in Nat /\ enc.out \in Nat /\ enc.out \in 1..BufferSize
      /\ BufferSize \div enc.out \in Nat /\ Gain \in Nat
    BY Sizes, GainNat
<1>2. PICK t : t = Characters(sent, sent + n)
    OBVIOUS
<1>3. chunk = <<>> /\ chunk' = t /\ sent' = sent + n /\ fpc' = "decode"
      /\ enc' = enc /\ buffer' = buffer /\ output' = output /\ sent + n \in 0..MaxBody
      /\ n \in Nat /\ n <= MaxChunk /\ sent \in Nat /\ sent <= sent + n /\ sent + n - sent = n
    BY <1>1, <1>2 DEF ReceiveChunk, EmptyAt
<1>4. t \in Seq(Nat) /\ Len(t) = n
    BY <1>2, <1>3, NextCharacters
<1>5. FetchTypeOK'
    BY <1>1, <1>3, <1>4
<1>6. AllThere'
    <2>1. output \o buffer = Characters(0, sent)
        <3>1. output \o buffer \in Seq(Nat)
            OBVIOUS
        <3> QED BY <1>3, <3>1, ConcatEmptySeq DEF AllThere
    <2>2. Characters(0, sent) \o t = Characters(0, sent + n)
        BY <1>2, <1>3, NextCharacters
    <2> QED BY <1>3, <2>1, <2>2 DEF AllThere
<1>7. Limited'
    <2> DEFINE i == enc.in  o == enc.out  lo == Len(output)  lb == Len(buffer)
    <2>1. lo \in Nat /\ lb \in Nat /\ i \in Nat /\ o \in Nat /\ lb <= BufferSize \div o /\ o \in 1..BufferSize
        BY <1>1
    <2>2. lo * o + n * i < MAX_LEN
        BY DEF ReceiveChunk, WithinLimit
    <2>3. n * o <= n * i + Gain
        <3>1. n * enc.out <= n * enc.in + (IF enc.out > enc.in THEN (enc.out - enc.in) * MaxChunk ELSE 0)
            <4> HIDE DEF i, o
            <4> QED BY <1>1, <1>3, Growth
        <3> QED BY <3>1 DEF Gain
    <2>4. (Len(output) + Len(buffer) + Len(chunk))' = lo + lb + n /\ enc'.out = o /\ Gain' = Gain
        BY <1>3, <1>4 DEF Gain
    <2> HIDE DEF i, o, lo, lb
    <2>5. lb * o <= BufferSize
        BY <1>1, <2>1, FitsBuffer
    <2>6. (lo + lb + n) * o = lo * o + lb * o + n * o
        BY <1>3, <2>1, Distribute
    <2>7. lo * o \in Nat /\ lb * o \in Nat /\ n * o \in Nat /\ n * i \in Nat
        BY <1>3, <2>1
    <2>8. (lo + lb + n) * o < MAX_LEN + BufferSize + Gain
        BY <1>1, <2>2, <2>3, <2>5, <2>6, <2>7
    <2> QED BY <2>4, <2>8 DEF Limited
<1>8. EmptyAt'
    BY <1>3 DEF EmptyAt
<1> QED BY <1>5, <1>6, <1>7, <1>8

LEMMA InputEmptyInv ==
    ASSUME FetchInv, InputEmpty PROVE FetchInv'
<1> USE DEF FetchInv, FetchTypeOK
<1>1. /\ BufferSize \div enc.out \in Nat /\ MaxChunk \in Nat
    BY Sizes
<1>2. /\ buffer' = buffer \o chunk /\ chunk' = <<>> /\ fpc' = "chunk"
      /\ enc' = enc /\ sent' = sent /\ output' = output
    BY DEF InputEmpty
<1>3. Len(buffer \o chunk) = Len(buffer) + Len(chunk) /\ buffer \o chunk \in Seq(Nat)
    OBVIOUS
<1>4. Len(chunk) <= (BufferSize \div enc.out) - Len(buffer)
    BY <1>1 DEF InputEmpty, Decoded
<1>5. FetchTypeOK'
    BY <1>1, <1>2, <1>3, <1>4
<1>6. AllThere'
    BY <1>2, Regroup DEF AllThere
<1>7. Limited'
    <2>1. (Len(output) + Len(buffer) + Len(chunk))' = Len(output) + Len(buffer) + Len(chunk)
        BY <1>2, <1>3
    <2> QED BY <1>2, <2>1 DEF Limited, Gain
<1> QED BY <1>2, <1>5, <1>6, <1>7 DEF EmptyAt

LEMMA OutputFullInv ==
    ASSUME FetchInv, OutputFull PROVE FetchInv'
<1> USE DEF FetchInv, FetchTypeOK
<1>1. /\ BufferSize \div enc.out \in Nat /\ MaxChunk \in Nat
    BY Sizes
<1>2. PICK d : d = Decoded
    OBVIOUS
<1>3. d \in 0..Len(chunk)
    <2>1. Len(buffer) \in Nat /\ Len(chunk) \in Nat
        OBVIOUS
    <2>2. (BufferSize \div enc.out) - Len(buffer) \in Nat
        BY <1>1, <2>1
    <2> QED BY <1>2, <2>1, <2>2 DEF Decoded
<1>4. PICK x : x = SubSeq(chunk, 1, d)
    OBVIOUS
<1>5. PICK y : y = SubSeq(chunk, d + 1, Len(chunk))
    OBVIOUS
<1>6. /\ output' = output \o buffer \o x /\ buffer' = <<>> /\ chunk' = y
      /\ fpc' = "decode" /\ fpc = "decode" /\ enc' = enc /\ sent' = sent
    BY <1>2, <1>4, <1>5 DEF OutputFull
<1>7. /\ x \in Seq(Nat) /\ Len(x) = d /\ y \in Seq(Nat) /\ Len(y) = Len(chunk) - d
      /\ (output \o buffer \o x) \o <<>> \o y = output \o buffer \o chunk
    BY <1>3, <1>4, <1>5, CutChunk
<1>8. Len(output \o buffer \o x) = Len(output) + Len(buffer) + d /\ output \o buffer \o x \in Seq(Nat)
    <2>1. output \o buffer \in Seq(Nat) /\ Len(output \o buffer) = Len(output) + Len(buffer)
        OBVIOUS
    <2>2. PICK z : z = output \o buffer
        OBVIOUS
    <2>3. z \o x \in Seq(Nat) /\ Len(z \o x) = Len(z) + Len(x)
        BY <1>7, <2>1, <2>2, Assoc
    <2> QED BY <1>7, <2>1, <2>2, <2>3
<1>9. FetchTypeOK'
    BY <1>1, <1>3, <1>6, <1>7, <1>8
<1>10. AllThere'
    BY <1>6, <1>7 DEF AllThere
<1>11. Limited'
    <2>1. (Len(output) + Len(buffer) + Len(chunk))' = Len(output) + Len(buffer) + Len(chunk)
        BY <1>3, <1>6, <1>7, <1>8
    <2> QED BY <1>6, <2>1 DEF Limited, Gain
<1> QED BY <1>6, <1>9, <1>10, <1>11 DEF EmptyAt

LEMMA FlushInv ==
    ASSUME FetchInv, Flush PROVE FetchInv'
<1> USE DEF FetchInv, FetchTypeOK
<1>1. /\ BufferSize \div enc.out \in Nat /\ MaxChunk \in Nat
    BY Sizes
<1>2. /\ output' = output \o buffer /\ buffer' = <<>> /\ chunk = <<>> /\ chunk' = <<>> /\ fpc' = "done"
      /\ enc' = enc /\ sent' = sent
    BY DEF Flush, EmptyAt
<1>3. Len(output \o buffer) = Len(output) + Len(buffer) /\ output \o buffer \in Seq(Nat)
    OBVIOUS
<1>4. FetchTypeOK'
    BY <1>1, <1>2, <1>3
<1>5. AllThere'
    BY <1>2, Regroup DEF AllThere
<1>6. Limited'
    <2>1. (Len(output) + Len(buffer) + Len(chunk))' = Len(output) + Len(buffer) + Len(chunk)
        BY <1>2, <1>3
    <2> QED BY <1>2, <2>1 DEF Limited, Gain
<1> QED BY <1>2, <1>4, <1>5, <1>6 DEF EmptyAt

LEMMA FetchStep == FetchInv /\ [Next]_vars => FetchInv'
<1> SUFFICES ASSUME FetchInv, [Next]_vars PROVE FetchInv'
    OBVIOUS
<1>1. CASE UNCHANGED fetchVars
    BY <1>1 DEF fetchVars, FetchInv, FetchTypeOK, AllThere, EmptyAt, Limited, Gain
<1>2. CASE FetchReturn
    BY <1>2, FetchReturnInv
<1>3. CASE StartFetch
    BY <1>3, FetchBeginInv DEF StartFetch
<1>4. CASE \E n \in 1..MaxChunk : ReceiveChunk(n)
    BY <1>4, ReceiveChunkInv
<1>5. CASE EndOfBody
    BY <1>5 DEF EndOfBody, FetchInv, FetchTypeOK, AllThere, EmptyAt, Limited, Gain
<1>6. CASE FetchComputes
    BY <1>6, InputEmptyInv, OutputFullInv, FlushInv DEF FetchComputes
<1>7. CASE FetchFails
    BY <1>2, <1>7 DEF FetchFails, TooLarge, ReceiveFails, DecodeError
<1>8. CASE ParseAny
    BY <1>2, <1>8 DEF ParseAny, Parse
<1>9. CASE \E o \in Overrides : CreateLocal(o) \/ PutOverride(o)
    BY <1>1, <1>9 DEF CreateLocal, PutOverride
<1>10. CASE UNCHANGED vars
    BY <1>1, <1>10 DEF vars, fetchVars
<1> QED BY <1>3, <1>4, <1>5, <1>6, <1>7, <1>8, <1>9, <1>10 DEF Next, Download

LEMMA FetchSafe == Spec => []FetchInv
<1>1. Init => FetchInv
    <2>1. Init => FetchEmpty
        BY DEF Init, FetchInit, FetchEmpty
    <2> QED BY <2>1, EmptyInv
<1> QED BY <1>1, FetchStep, PTL DEF Spec

(* Whatever the sizes of the buffer and the chunks and whatever the charset,
   what fetch_mud hands to the parser is the body of the response, every
   character once and in order. *)
THEOREM DownloadsComplete == Spec => []DownloadComplete
<1>1. FetchInv => DownloadComplete
    <2> SUFFICES ASSUME FetchInv, fpc = "done" PROVE output = Characters(0, sent)
        BY DEF DownloadComplete
    <2>1. chunk = <<>> /\ buffer = <<>> /\ output \in Seq(Nat)
        BY DEF FetchInv, EmptyAt, FetchTypeOK
    <2> QED BY <2>1, ConcatEmptySeq DEF FetchInv, AllThere
<1> QED BY <1>1, FetchSafe, PTL

(* However it is cut into chunks and whatever its charset, what is received of
   a body does not outgrow the limit once it is decoded, by more than one buffer
   and what decoding adds to one chunk, although the limit is compared with the
   encoded length of a chunk and without what is buffered. *)
THEOREM DownloadsBounded == Spec => []DownloadBounded
<1>1. FetchInv => DownloadBounded
    <2> SUFFICES ASSUME FetchInv
                 PROVE  sent * enc.out < MAX_LEN + BufferSize + Gain
        BY DEF DownloadBounded, Gain
    <2>1. /\ output \in Seq(Nat) /\ buffer \in Seq(Nat) /\ chunk \in Seq(Nat) /\ sent \in Nat
          /\ output \o buffer \o chunk = Characters(0, sent)
        BY FetchAssumption DEF FetchInv, FetchTypeOK, AllThere
    <2>2. Len(output \o buffer \o chunk) = Len(output) + Len(buffer) + Len(chunk)
        BY <2>1
    <2>3. Len(Characters(0, sent)) = sent
        BY <2>1, CharactersSeq
    <2>4. (Len(output) + Len(buffer) + Len(chunk)) * enc.out < MAX_LEN + BufferSize + Gain
        BY DEF FetchInv, Limited
    <2> QED BY <2>1, <2>2, <2>3, <2>4
<1> QED BY <1>1, FetchSafe, PTL

(***************************************************************************)
(* The loops over ACLs and ACEs                                            *)
(***************************************************************************)

(* f is the loop of Filter, up to n. *)
KeptUpTo(f, s, K, n) ==
    f = [i \in 0..n |-> IF i = 0 THEN <<>> ELSE IF i \in K THEN Append(f[i - 1], s[i]) ELSE f[i - 1]]

LEMMA KeptExists ==
    ASSUME NEW s, NEW K, NEW n \in Nat PROVE \E f : KeptUpTo(f, s, K, n)
<1> DEFINE S == {k \in Nat : \E f : KeptUpTo(f, s, K, k)}
<1>1. 0 \in S
    <2> DEFINE f == [i \in 0..0 |-> <<>>]
    <2>1. KeptUpTo(f, s, K, 0)
        BY DEF KeptUpTo
    <2> QED BY <2>1
<1>2. ASSUME NEW k \in Nat, k \in S PROVE k + 1 \in S
    <2>1. PICK f : KeptUpTo(f, s, K, k)
        BY <1>2
    <2> DEFINE h == [i \in 0..(k + 1) |->
                        IF i <= k THEN f[i]
                        ELSE IF k + 1 \in K THEN Append(f[k], s[k + 1]) ELSE f[k]]
               g == [i \in 0..(k + 1) |->
                        IF i = 0 THEN <<>> ELSE IF i \in K THEN Append(h[i - 1], s[i]) ELSE h[i - 1]]
    <2>2. ASSUME NEW i \in 0..(k + 1) PROVE h[i] = g[i]
        <3>1. CASE i = 0
            BY <2>1, <3>1 DEF KeptUpTo
        <3>2. CASE i \in 1..k
            <4>1. i - 1 \in 0..k /\ i - 1 \in 0..(k + 1) /\ i \in 0..k /\ i # 0 /\ i - 1 <= k /\ i <= k
                BY <3>2
            <4>2. h[i] = f[i] /\ h[i - 1] = f[i - 1]
                BY <4>1
            <4>3. f[i] = IF i \in K THEN Append(f[i - 1], s[i]) ELSE f[i - 1]
                BY <2>1, <4>1 DEF KeptUpTo
            <4> QED BY <4>1, <4>2, <4>3
        <3>3. CASE i = k + 1
            <4>1. k \in 0..(k + 1) /\ k <= k /\ ~(k + 1 <= k) /\ (k + 1) - 1 = k /\ k + 1 # 0
                OBVIOUS
            <4>2. h[k] = f[k] /\ h[k + 1] = (IF k + 1 \in K THEN Append(f[k], s[k + 1]) ELSE f[k])
                BY <4>1
            <4> QED BY <3>3, <4>1, <4>2
        <3> QED BY <3>1, <3>2, <3>3
    <2>3. h = g
        <3> HIDE DEF h
        <3>1. h = [i \in 0..(k + 1) |-> h[i]]
            BY DEF h
        <3> QED BY <2>2, <3>1
    <2>4. KeptUpTo(h, s, K, k + 1)
        <3> HIDE DEF h
        <3> QED BY <2>3 DEF KeptUpTo
    <2> QED BY <2>4
<1>3. Nat \subseteq S
    <2> HIDE DEF S
    <2> QED BY <1>1, <1>2, NatSetInduction
<1> QED BY <1>3

LEMMA FilterRec ==
    ASSUME NEW s, NEW K, Len(s) \in Nat
    PROVE  \E f : KeptUpTo(f, s, K, Len(s)) /\ Filter(s, K) = f[Len(s)]
<1> DEFINE f == CHOOSE f : KeptUpTo(f, s, K, Len(s))
<1>1. KeptUpTo(f, s, K, Len(s))
    BY KeptExists
<1>2. Filter(s, K) = f[Len(s)]
    BY DEF Filter, KeptUpTo
<1> QED BY <1>1, <1>2

(* t is what s has at the places in K up to n, in order; the i-th of t is at
   place g[i] of s. *)
Picks(g, t, s, K, n) ==
    /\ g \in [1..Len(t) -> 1..n]
    /\ \A i, j \in 1..Len(t) : i < j => g[i] < g[j]
    /\ \A i \in 1..Len(t) : g[i] \in K /\ t[i] = s[g[i]]
    /\ \A k \in K : k \in 1..n => \E i \in 1..Len(t) : g[i] = k

LEMMA PicksOneMore ==
    ASSUME NEW S, NEW s \in Seq(S), NEW K, NEW n \in Nat, n + 1 \in 1..Len(s),
           NEW t \in Seq(S), NEW g, Picks(g, t, s, K, n), n + 1 \in K
    PROVE  Append(t, s[n + 1]) \in Seq(S) /\ \E h : Picks(h, Append(t, s[n + 1]), s, K, n + 1)
<1>1. PICK u : u = Append(t, s[n + 1])
    OBVIOUS
<1>2. PICK l : l = Len(t)
    OBVIOUS
<1>3. l \in Nat /\ u \in Seq(S) /\ Len(u) = l + 1 /\ u[l + 1] = s[n + 1] /\ \A i \in 1..l : u[i] = t[i]
    BY <1>1, <1>2
<1> DEFINE h == [i \in 1..(l + 1) |-> IF i <= l THEN g[i] ELSE n + 1]
<1>4. h[l + 1] = n + 1 /\ \A i \in 1..l : h[i] = g[i]
    BY <1>3
<1>5. \A i \in 1..l : g[i] \in 1..n
    BY <1>2 DEF Picks
<1>6. h \in [1..(l + 1) -> 1..(n + 1)]
    BY <1>3, <1>5
<1> HIDE DEF h
<1>7. ASSUME NEW i \in 1..(l + 1), NEW j \in 1..(l + 1), i < j PROVE h[i] < h[j]
    <2>1. i \in 1..l
        BY <1>3, <1>7
    <2>2. CASE j \in 1..l
        BY <1>2, <1>4, <1>7, <2>1, <2>2 DEF Picks
    <2>3. CASE j = l + 1
        BY <1>4, <1>5, <2>1, <2>3
    <2> QED BY <1>3, <2>2, <2>3
<1>8. ASSUME NEW i \in 1..(l + 1) PROVE h[i] \in K /\ u[i] = s[h[i]]
    <2>1. CASE i \in 1..l
        BY <1>2, <1>3, <1>4, <2>1 DEF Picks
    <2>2. CASE i = l + 1
        BY <1>3, <1>4, <2>2
    <2> QED BY <1>3, <2>1, <2>2
<1>9. ASSUME NEW k \in K, k \in 1..(n + 1) PROVE \E i \in 1..(l + 1) : h[i] = k
    <2>1. CASE k = n + 1
        BY <1>3, <1>4, <2>1
    <2>2. CASE k \in 1..n
        <3>1. PICK i \in 1..l : g[i] = k
            BY <1>2, <2>2 DEF Picks
        <3> QED BY <1>3, <1>4, <3>1
    <2> QED BY <1>9, <2>1, <2>2
<1>10. Picks(h, u, s, K, n + 1)
    BY <1>3, <1>6, <1>7, <1>8, <1>9 DEF Picks
<1> QED BY <1>1, <1>3, <1>10

LEMMA PicksNoMore ==
    ASSUME NEW s, NEW K, NEW n \in Nat, NEW t, NEW g, Picks(g, t, s, K, n), n + 1 \notin K
    PROVE  Picks(g, t, s, K, n + 1)
<1>1. g \in [1..Len(t) -> 1..(n + 1)]
    BY DEF Picks
<1>2. \A k \in K : k \in 1..(n + 1) => k \in 1..n
    OBVIOUS
<1> QED BY <1>1, <1>2 DEF Picks

LEMMA FilterPicks ==
    ASSUME NEW S, NEW s \in Seq(S), NEW K
    PROVE  Filter(s, K) \in Seq(S) /\ \E g : Picks(g, Filter(s, K), s, K, Len(s))
<1>1. Len(s) \in Nat
    OBVIOUS
<1>2. PICK f : KeptUpTo(f, s, K, Len(s)) /\ Filter(s, K) = f[Len(s)]
    BY <1>1, FilterRec
<1> DEFINE Good(n) == f[n] \in Seq(S) /\ \E g : Picks(g, f[n], s, K, n)
           N == {n \in Nat : n <= Len(s) => Good(n)}
<1>3. 0 \in N
    <2>1. f[0] = <<>>
        BY <1>1, <1>2 DEF KeptUpTo
    <2>2. Picks(<<>>, <<>>, s, K, 0)
        BY DEF Picks
    <2>3. <<>> \in Seq(S)
        OBVIOUS
    <2>4. Good(0)
        <3>1. \E g : Picks(g, <<>>, s, K, 0)
            BY <2>2
        <3> QED BY <2>1, <2>3, <3>1
    <2> HIDE DEF Good
    <2> QED BY <2>4
<1>4. ASSUME NEW n \in Nat, n \in N PROVE n + 1 \in N
    <2> SUFFICES ASSUME n + 1 <= Len(s) PROVE Good(n + 1)
        OBVIOUS
    <2>1. Good(n)
        BY <1>1, <1>4
    <2>2. PICK g : Picks(g, f[n], s, K, n)
        BY <2>1
    <2>3. n + 1 \in 0..Len(s) /\ n + 1 \in 1..Len(s) /\ (n + 1) - 1 = n /\ n + 1 # 0
        BY <1>1
    <2>4. f[n + 1] = IF n + 1 \in K THEN Append(f[n], s[n + 1]) ELSE f[n]
        BY <1>2, <2>3 DEF KeptUpTo
    <2>5. CASE n + 1 \in K
        <3>1. f[n + 1] = Append(f[n], s[n + 1])
            BY <2>4, <2>5
        <3>2. Append(f[n], s[n + 1]) \in Seq(S) /\ \E h : Picks(h, Append(f[n], s[n + 1]), s, K, n + 1)
            BY <2>1, <2>2, <2>3, <2>5, PicksOneMore
        <3> QED BY <3>1, <3>2
    <2>6. CASE n + 1 \notin K
        BY <2>1, <2>2, <2>4, <2>6, PicksNoMore
    <2> QED BY <2>5, <2>6
<1>5. Nat \subseteq N
    <2> HIDE DEF N
    <2> QED BY <1>3, <1>4, NatSetInduction
<1>6. Good(Len(s))
    BY <1>1, <1>5
<1> QED BY <1>2, <1>6

(* f is the loop of FlattenSeq, up to n. *)
FlattenedUpTo(f, q, n) ==
    f = [i \in 1..n |-> IF i = 1 THEN q[i] ELSE f[i - 1] \o q[i]]

LEMMA FlattenedExists ==
    ASSUME NEW q, NEW n \in Nat PROVE \E f : FlattenedUpTo(f, q, n)
<1> DEFINE S == {k \in Nat : \E f : FlattenedUpTo(f, q, k)}
<1>1. 0 \in S
    <2> DEFINE f == [i \in 1..0 |-> q[i]]
    <2>1. FlattenedUpTo(f, q, 0)
        BY DEF FlattenedUpTo
    <2> QED BY <2>1
<1>2. ASSUME NEW k \in Nat, k \in S PROVE k + 1 \in S
    <2>1. PICK f : FlattenedUpTo(f, q, k)
        BY <1>2
    <2> DEFINE h == [i \in 1..(k + 1) |->
                        IF i <= k THEN f[i] ELSE IF k = 0 THEN q[1] ELSE f[k] \o q[k + 1]]
               g == [i \in 1..(k + 1) |-> IF i = 1 THEN q[i] ELSE h[i - 1] \o q[i]]
    <2>2. ASSUME NEW i \in 1..(k + 1) PROVE h[i] = g[i]
        <3>1. CASE i \in 1..k
            <4>1. i <= k /\ (i # 1 => i - 1 \in 1..k /\ i - 1 \in 1..(k + 1) /\ i - 1 <= k)
                BY <3>1
            <4>2. h[i] = f[i] /\ (i # 1 => h[i - 1] = f[i - 1])
                BY <4>1
            <4>3. f[i] = IF i = 1 THEN q[i] ELSE f[i - 1] \o q[i]
                BY <2>1, <3>1 DEF FlattenedUpTo
            <4> QED BY <4>2, <4>3
        <3>2. CASE i = k + 1
            <4>1. k + 1 \in 1..(k + 1) /\ ~(k + 1 <= k) /\ (k + 1) - 1 = k /\ (k # 0 <=> k + 1 # 1)
                  /\ (k # 0 => k \in 1..(k + 1) /\ k <= k)
                OBVIOUS
            <4>2. h[k + 1] = (IF k = 0 THEN q[1] ELSE f[k] \o q[k + 1]) /\ (k # 0 => h[k] = f[k])
                BY <4>1
            <4> QED BY <3>2, <4>1, <4>2
        <3> QED BY <3>1, <3>2
    <2>3. h = g
        <3> HIDE DEF h
        <3>1. h = [i \in 1..(k + 1) |-> h[i]]
            BY DEF h
        <3> QED BY <2>2, <3>1
    <2>4. FlattenedUpTo(h, q, k + 1)
        <3> HIDE DEF h
        <3> QED BY <2>3 DEF FlattenedUpTo
    <2> QED BY <2>4
<1>3. Nat \subseteq S
    <2> HIDE DEF S
    <2> QED BY <1>1, <1>2, NatSetInduction
<1> QED BY <1>3

LEMMA FlattenRec ==
    ASSUME NEW q, Len(q) \in Nat, Len(q) # 0
    PROVE  \E f : FlattenedUpTo(f, q, Len(q)) /\ FlattenSeq(q) = f[Len(q)]
<1> DEFINE f == CHOOSE f : FlattenedUpTo(f, q, Len(q))
<1>1. FlattenedUpTo(f, q, Len(q))
    BY FlattenedExists
<1>2. FlattenSeq(q) = f[Len(q)]
    BY DEF FlattenSeq, FlattenedUpTo
<1> QED BY <1>1, <1>2

(* t is q[1], ..., q[n] one after the other: the i-th of t is number b[i] of
   q[a[i]]. *)
Joins(a, b, t, q, n) ==
    /\ a \in [1..Len(t) -> 1..n] /\ b \in [1..Len(t) -> Nat]
    /\ \A i \in 1..Len(t) : b[i] \in 1..Len(q[a[i]]) /\ t[i] = q[a[i]][b[i]]
    /\ \A i, j \in 1..Len(t) : i < j => a[i] < a[j] \/ (a[i] = a[j] /\ b[i] < b[j])
    /\ \A k \in 1..n : \A m \in 1..Len(q[k]) : \E i \in 1..Len(t) : a[i] = k /\ b[i] = m

LEMMA JoinsOneMore ==
    ASSUME NEW S, NEW q, NEW n \in Nat, NEW t \in Seq(S), q[n + 1] \in Seq(S),
           NEW a, NEW b, Joins(a, b, t, q, n)
    PROVE  \E c, d : Joins(c, d, t \o q[n + 1], q, n + 1)
<1>1. PICK r \in Seq(S) : r = q[n + 1]
    OBVIOUS
<1>2. PICK u : u = t \o r
    OBVIOUS
<1>3. PICK l : l = Len(t)
    OBVIOUS
<1>4. PICK z : z = Len(r)
    OBVIOUS
<1>5. /\ l \in Nat /\ z \in Nat /\ Len(u) = l + z
      /\ \A i \in 1..l : u[i] = t[i]
      /\ \A i \in 1..(l + z) : ~(i <= l) => u[i] = r[i - l]
    BY <1>2, <1>3, <1>4
<1> DEFINE c == [i \in 1..(l + z) |-> IF i <= l THEN a[i] ELSE n + 1]
           d == [i \in 1..(l + z) |-> IF i <= l THEN b[i] ELSE i - l]
<1>6. \A i \in 1..l : c[i] = a[i] /\ d[i] = b[i]
    BY <1>5
<1>7. \A i \in 1..(l + z) : ~(i <= l) => c[i] = n + 1 /\ d[i] = i - l /\ i - l \in 1..z
    BY <1>5
<1>8. \A i \in 1..l : a[i] \in 1..n /\ b[i] \in Nat
    BY <1>3 DEF Joins
<1>9. c \in [1..(l + z) -> 1..(n + 1)] /\ d \in [1..(l + z) -> Nat]
    BY <1>5, <1>8
<1> HIDE DEF c, d
<1>10. ASSUME NEW i \in 1..(l + z) PROVE d[i] \in 1..Len(q[c[i]]) /\ u[i] = q[c[i]][d[i]]
    <2>1. CASE i \in 1..l
        BY <1>3, <1>5, <1>6, <2>1 DEF Joins
    <2>2. CASE ~(i <= l)
        BY <1>1, <1>4, <1>5, <1>7, <2>2
    <2> QED BY <1>5, <2>1, <2>2
<1>11. ASSUME NEW i \in 1..(l + z), NEW j \in 1..(l + z), i < j
       PROVE  c[i] < c[j] \/ (c[i] = c[j] /\ d[i] < d[j])
    <2>1. CASE j \in 1..l
        <3>1. i \in 1..l
            BY <1>5, <1>11, <2>1
        <3>2. a[i] < a[j] \/ (a[i] = a[j] /\ b[i] < b[j])
            BY <1>3, <1>11, <2>1, <3>1 DEF Joins
        <3> QED BY <1>6, <2>1, <3>1, <3>2
    <2>2. CASE i \in 1..l /\ ~(j <= l)
        BY <1>6, <1>7, <1>8, <2>2
    <2>3. CASE ~(i <= l) /\ ~(j <= l)
        <3>1. d[i] = i - l /\ d[j] = j - l /\ c[i] = c[j]
            BY <1>7, <2>3
        <3> QED BY <1>5, <1>11, <3>1
    <2> QED BY <1>5, <1>11, <2>1, <2>2, <2>3
<1>12. ASSUME NEW k \in 1..(n + 1), NEW m \in 1..Len(q[k])
       PROVE  \E i \in 1..(l + z) : c[i] = k /\ d[i] = m
    <2>1. CASE k = n + 1
        <3>1. m \in 1..z
            BY <1>1, <1>4, <2>1
        <3>2. l + m \in 1..(l + z) /\ ~(l + m <= l) /\ (l + m) - l = m
            BY <1>5, <3>1
        <3> QED BY <1>7, <2>1, <3>2
    <2>2. CASE k \in 1..n
        <3>1. PICK i \in 1..l : a[i] = k /\ b[i] = m
            BY <1>3, <2>2 DEF Joins
        <3> QED BY <1>5, <1>6, <3>1
    <2> QED BY <2>1, <2>2
<1>13. Joins(c, d, u, q, n + 1)
    BY <1>5, <1>9, <1>10, <1>11, <1>12 DEF Joins
<1> QED BY <1>1, <1>2, <1>13

LEMMA FlattenJoins ==
    ASSUME NEW S, NEW q \in Seq(Seq(S))
    PROVE  FlattenSeq(q) \in Seq(S) /\ \E a, b : Joins(a, b, FlattenSeq(q), q, Len(q))
<1>1. Len(q) \in Nat /\ \A k \in 1..Len(q) : q[k] \in Seq(S)
    OBVIOUS
<1>2. Joins(<<>>, <<>>, <<>>, q, 0) /\ <<>> \in Seq(S)
    BY DEF Joins
<1>3. CASE Len(q) = 0
    <2>1. q = <<>> /\ FlattenSeq(q) = q
        BY <1>3 DEF FlattenSeq
    <2>2. \E a, b : Joins(a, b, <<>>, q, 0)
        BY <1>2
    <2> QED BY <1>2, <1>3, <2>1, <2>2
<1>4. CASE Len(q) # 0
    <2>1. PICK f : FlattenedUpTo(f, q, Len(q)) /\ FlattenSeq(q) = f[Len(q)]
        BY <1>1, <1>4, FlattenRec
    <2> DEFINE Good(n) == f[n] \in Seq(S) /\ \E a, b : Joins(a, b, f[n], q, n)
               N == {n \in Nat : n + 1 <= Len(q) => Good(n + 1)}
    <2>2. 0 \in N
        <3>1. f[1] = q[1] /\ q[1] \in Seq(S)
            BY <1>1, <1>4, <2>1 DEF FlattenedUpTo
        <3>2. <<>> \o q[1] = q[1]
            BY <3>1, ConcatEmptySeq
        <3>3. \E a, b : Joins(a, b, <<>> \o q[0 + 1], q, 0 + 1)
            <4>1. 0 \in Nat /\ q[0 + 1] \in Seq(S)
                BY <3>1
            <4> QED BY <1>2, <4>1, JoinsOneMore
        <3>4. 0 + 1 = 1
            OBVIOUS
        <3>5. Good(0 + 1)
            BY <3>1, <3>2, <3>3, <3>4
        <3> HIDE DEF Good
        <3> QED BY <3>5
    <2>3. ASSUME NEW n \in Nat, n \in N PROVE n + 1 \in N
        <3> SUFFICES ASSUME (n + 1) + 1 <= Len(q) PROVE Good((n + 1) + 1)
            OBVIOUS
        <3>1. Good(n + 1)
            BY <1>1, <2>3
        <3>2. PICK a, b : Joins(a, b, f[n + 1], q, n + 1)
            BY <3>1
        <3>3. (n + 1) + 1 \in 1..Len(q) /\ ((n + 1) + 1) - 1 = n + 1 /\ (n + 1) + 1 # 1 /\ n + 1 \in Nat
            BY <1>1
        <3>4. f[(n + 1) + 1] = f[n + 1] \o q[(n + 1) + 1] /\ q[(n + 1) + 1] \in Seq(S)
            BY <1>1, <2>1, <3>3 DEF FlattenedUpTo
        <3>5. \E c, d : Joins(c, d, f[n + 1] \o q[(n + 1) + 1], q, (n + 1) + 1)
            BY <3>1, <3>2, <3>3, <3>4, JoinsOneMore
        <3>6. f[n + 1] \o q[(n + 1) + 1] \in Seq(S)
            BY <3>1, <3>4
        <3> QED BY <3>4, <3>5, <3>6
    <2>4. Nat \subseteq N
        <3> HIDE DEF N
        <3> QED BY <2>2, <2>3, NatSetInduction
    <2>5. Len(q) - 1 \in Nat /\ (Len(q) - 1) + 1 = Len(q) /\ Len(q) <= Len(q)
        BY <1>1, <1>4
    <2>6. Good(Len(q))
        <3> HIDE DEF Good
        <3> QED BY <2>4, <2>5
    <2> QED BY <2>1, <2>6
<1> QED BY <1>3, <1>4

(***************************************************************************)
(* From ACEs to rules                                                      *)
(***************************************************************************)

(* The ACE number n of the loops is at place <<a[n], b[n]>> of acls. *)
AcesAt(a, b, acls) ==
    LET t == Aces(acls)
    IN  /\ a \in [1..Len(t) -> 1..Len(acls)] /\ b \in [1..Len(t) -> Nat]
        /\ \A i \in 1..Len(t) : /\ b[i] \in 1..Len(acls[a[i]].ace)
                                /\ t[i].ace = acls[a[i]].ace[b[i]]
                                /\ t[i].dir = acls[a[i]].packet_direction
        /\ \A i, j \in 1..Len(t) : i < j => a[i] < a[j] \/ (a[i] = a[j] /\ b[i] < b[j])
        /\ \A k \in 1..Len(acls) : \A m \in 1..Len(acls[k].ace) :
              \E i \in 1..Len(t) : a[i] = k /\ b[i] = m

LEMMA AclFields ==
    ASSUME NEW acls, AclsOK(acls)
    PROVE  /\ acls \in Seq(ToSet(acls)) /\ Len(acls) \in Nat /\ DOMAIN acls = 1..Len(acls)
           /\ \A i \in 1..Len(acls) :
                 /\ acls[i].packet_direction \in Directions
                 /\ DOMAIN acls[i].ace = 1..Len(acls[i].ace) /\ Len(acls[i].ace) \in Nat
                 /\ \A j \in 1..Len(acls[i].ace) : AceOK(acls[i].ace[j])
<1>1. acls \in Seq(ToSet(acls)) /\ Len(acls) \in Nat /\ DOMAIN acls = 1..Len(acls)
    BY DEF AclsOK
<1>2. ASSUME NEW i \in 1..Len(acls)
      PROVE  /\ acls[i].packet_direction \in Directions
             /\ DOMAIN acls[i].ace = 1..Len(acls[i].ace) /\ Len(acls[i].ace) \in Nat
             /\ \A j \in 1..Len(acls[i].ace) : AceOK(acls[i].ace[j])
    <2>1. acls[i].ace \in Seq(ToSet(acls[i].ace)) /\ acls[i].packet_direction \in Directions
          /\ \A j \in DOMAIN acls[i].ace : AceOK(acls[i].ace[j])
        BY <1>1 DEF AclsOK, AclOK
    <2>2. PICK s : s = acls[i].ace
        OBVIOUS
    <2>3. DOMAIN s = 1..Len(s) /\ Len(s) \in Nat
        BY <2>1, <2>2
    <2> QED BY <2>1, <2>2, <2>3
<1> QED BY <1>1, <1>2

LEMMA AcesPlaces ==
    ASSUME NEW acls, AclsOK(acls)
    PROVE  /\ Len(Aces(acls)) \in Nat /\ DOMAIN Aces(acls) = 1..Len(Aces(acls))
           /\ \E a, b : AcesAt(a, b, acls)
<1> DEFINE tagged(i) == [j \in DOMAIN acls[i].ace |->
                            [ace |-> acls[i].ace[j], dir |-> acls[i].packet_direction]]
           q == [i \in DOMAIN acls |-> tagged(i)]
           S == {tagged(i)[j] : i \in DOMAIN acls, j \in Nat}
<1>1. /\ Len(acls) \in Nat /\ DOMAIN acls = 1..Len(acls)
      /\ \A i \in 1..Len(acls) : DOMAIN acls[i].ace = 1..Len(acls[i].ace) /\ Len(acls[i].ace) \in Nat
    BY AclFields
<1>2. ASSUME NEW i \in 1..Len(acls)
      PROVE  /\ q[i] \in Seq(S) /\ Len(q[i]) = Len(acls[i].ace)
             /\ \A j \in 1..Len(acls[i].ace) : q[i][j].ace = acls[i].ace[j]
                                               /\ q[i][j].dir = acls[i].packet_direction
    <2>1. q[i] = tagged(i)
        BY <1>1
    <2>2. DOMAIN tagged(i) = 1..Len(acls[i].ace) /\ Len(acls[i].ace) \in Nat
        BY <1>1
    <2>3. \A j \in 1..Len(acls[i].ace) :
              tagged(i)[j].ace = acls[i].ace[j] /\ tagged(i)[j].dir = acls[i].packet_direction
        BY <1>1
    <2>4. \A j \in 1..Len(acls[i].ace) : tagged(i)[j] \in S
        <3> HIDE DEF tagged
        <3>1. \A j \in 1..Len(acls[i].ace) : j \in Nat
            BY <1>1
        <3> QED BY <1>1, <3>1
    <2>5. tagged(i) \in Seq(S) /\ Len(tagged(i)) = Len(acls[i].ace)
        <3>1. tagged(i) = [j \in 1..Len(acls[i].ace) |-> tagged(i)[j]]
            BY <1>1
        <3> HIDE DEF tagged, S
        <3> QED BY <2>2, <2>4, <3>1
    <2> HIDE DEF tagged, S, q
    <2> QED BY <2>1, <2>3, <2>5
<1>3. q \in Seq(Seq(S)) /\ Len(q) = Len(acls)
    <2>1. q = [i \in 1..Len(acls) |-> q[i]]
        BY <1>1
    <2> HIDE DEF q, S
    <2> QED BY <1>1, <1>2, <2>1
<1>4. Aces(acls) = FlattenSeq(q)
    BY DEF Aces
<1> HIDE DEF q, S
<1>5. PICK t : t = Aces(acls)
    OBVIOUS
<1>6. t \in Seq(S)
    BY <1>3, <1>4, <1>5, FlattenJoins
<1>7. PICK a, b : Joins(a, b, t, q, Len(acls))
    BY <1>3, <1>4, <1>5, FlattenJoins
<1>8. Len(t) \in Nat /\ DOMAIN t = 1..Len(t)
    BY <1>6
<1>9. a \in [1..Len(t) -> 1..Len(acls)] /\ b \in [1..Len(t) -> Nat]
    BY <1>7 DEF Joins
<1>10. ASSUME NEW i \in 1..Len(t)
       PROVE  /\ b[i] \in 1..Len(acls[a[i]].ace)
              /\ t[i].ace = acls[a[i]].ace[b[i]] /\ t[i].dir = acls[a[i]].packet_direction
    <2>1. a[i] \in 1..Len(acls) /\ b[i] \in 1..Len(q[a[i]]) /\ t[i] = q[a[i]][b[i]]
        BY <1>7, <1>9 DEF Joins
    <2> QED BY <1>2, <2>1
<1>11. ASSUME NEW k \in 1..Len(acls), NEW m \in 1..Len(acls[k].ace)
       PROVE  \E i \in 1..Len(t) : a[i] = k /\ b[i] = m
    <2>1. m \in 1..Len(q[k])
        BY <1>2
    <2> QED BY <1>7, <2>1 DEF Joins
<1>12. \A i, j \in 1..Len(t) : i < j => a[i] < a[j] \/ (a[i] = a[j] /\ b[i] < b[j])
    BY <1>7 DEF Joins
<1>13. AcesAt(a, b, acls)
    BY <1>5, <1>9, <1>10, <1>11, <1>12 DEF AcesAt
<1> QED BY <1>5, <1>8, <1>13

(* The rule of an ACE matches the packets the ACE applies to. *)
LEMMA MatchesIfApplies ==
    ASSUME NEW ace, AceOK(ace), ace.dnsname # None, NEW dir \in Directions, NEW index,
           NEW pkt \in Packets
    PROVE  Matches(AceRule(index, dir, ace), pkt)
              <=> /\ dir = pkt.dir /\ ace.dnsname = pkt.host
                  /\ ace.protocol \in {None, "Protocol", pkt.protocol}
<1>1. /\ pkt.dir \in Directions /\ pkt.host \in Hosts /\ pkt.protocol \in {"Tcp", "Udp", "other"}
    BY DEF Packets
<1>2. ace.dnsname \in Hosts /\ ace.protocol \in {"Tcp", "Udp", "Protocol", None}
    BY DEF AceOK, AceProtocols
<1>3. ace.dnsname # Device /\ ace.dnsname # Anybody /\ pkt.host # Device /\ pkt.host # Anybody
    BY <1>1, <1>2, HostAssumption
<1>4. None \notin {"Tcp", "Udp", "Protocol"} /\ Device # Anybody
    BY HostAssumption DEF AceProtocols, Device, Anybody
<1> DEFINE rule == AceRule(index, dir, ace)
<1>5. /\ rule.src = IF dir = "FromDevice" THEN Device ELSE ace.dnsname
      /\ rule.dst = IF dir = "FromDevice" THEN ace.dnsname ELSE Device
      /\ rule.protocol = RuleProtocol(ace.protocol)
    BY DEF AceRule
<1> HIDE DEF rule
<1>6. rule.protocol \in {"All", pkt.protocol} <=> ace.protocol \in {None, "Protocol", pkt.protocol}
    <2>1. CASE ace.protocol \in {"Tcp", "Udp"}
        BY <1>1, <1>4, <1>5, <2>1 DEF RuleProtocol
    <2>2. CASE ace.protocol \in {"Protocol", None}
        BY <1>1, <1>4, <1>5, <2>2 DEF RuleProtocol
    <2> QED BY <1>2, <2>1, <2>2
<1>7. (IF pkt.dir = "FromDevice"
       THEN rule.src = Device /\ Covers(rule.dst, pkt.host)
       ELSE rule.dst = Device /\ Covers(rule.src, pkt.host))
          <=> dir = pkt.dir /\ ace.dnsname = pkt.host
    BY <1>1, <1>3, <1>4, <1>5 DEF Covers, Directions
<1>8. Matches(rule, pkt) <=> dir = pkt.dir /\ ace.dnsname = pkt.host
                                /\ ace.protocol \in {None, "Protocol", pkt.protocol}
    BY <1>6, <1>7 DEF Matches
<1> QED BY <1>8 DEF rule

(* The enforcer takes the first rule that matches. *)
LEMMA FirstDecides ==
    ASSUME NEW rules, Len(rules) \in Nat, NEW pkt, NEW n \in 1..Len(rules), Matches(rules[n], pkt)
    PROVE  \E m \in 1..Len(rules) :
              /\ Matches(rules[m], pkt) /\ Decide(rules, pkt) = rules[m].verdict
              /\ \A k \in 1..Len(rules) : Matches(rules[k], pkt) => m <= k
<1> DEFINE I == {i \in 1..Len(rules) : Matches(rules[i], pkt)}
<1>1. I # {} /\ I \subseteq Nat
    OBVIOUS
<1>2. \E m \in I : \A k \in I : m <= k
    <2> HIDE DEF I
    <2> QED BY <1>1, NatMin
<1>3. PICK m : m = Min(I)
    OBVIOUS
<1>4. m \in I /\ \A k \in I : m <= k
    <2> HIDE DEF I
    <2> QED BY <1>2, <1>3 DEF Min
<1>5. m # 0
    BY <1>4
<1>6. SelectInSeq(rules, LAMBDA r : Matches(r, pkt)) = m
    BY <1>1, <1>3 DEF SelectInSeq
<1>7. Decide(rules, pkt) = rules[m].verdict
    BY <1>5, <1>6 DEF Decide
<1> QED BY <1>4, <1>7

(* Rule number n is the rule of ACE number h[n]. *)
RulesAt(h, aces, rules) ==
    /\ h \in [1..Len(rules) -> 1..Len(aces)]
    /\ \A i, j \in 1..Len(rules) : i < j => h[i] < h[j]
    /\ \A i \in 1..Len(rules) :
          /\ aces[h[i]].ace.dnsname # None
          /\ rules[i] = AceRule(h[i] - 1, aces[h[i]].dir, aces[h[i]].ace)
    /\ \A k \in 1..Len(aces) : aces[k].ace.dnsname # None => \E i \in 1..Len(rules) : h[i] = k

LEMMA AceRulesPlaces ==
    ASSUME NEW aces, Len(aces) \in Nat, DOMAIN aces = 1..Len(aces)
    PROVE  \E S : AceRules(aces) \in Seq(S) /\ \E h : RulesAt(h, aces, AceRules(aces))
<1> DEFINE s == [i \in DOMAIN aces |-> AceRule(i - 1, aces[i].dir, aces[i].ace)]
           K == {i \in DOMAIN aces : aces[i].ace.dnsname # None}
           S == {AceRule(i - 1, aces[i].dir, aces[i].ace) : i \in DOMAIN aces}
<1>1. AceRules(aces) = Filter(s, K)
    BY DEF AceRules
<1>2. s \in Seq(S) /\ Len(s) = Len(aces)
    <2>1. s = [i \in 1..Len(aces) |-> AceRule(i - 1, aces[i].dir, aces[i].ace)]
        OBVIOUS
    <2>2. \A i \in 1..Len(aces) : AceRule(i - 1, aces[i].dir, aces[i].ace) \in S
        OBVIOUS
    <2> HIDE DEF S, s
    <2> QED BY <2>1, <2>2
<1>3. \A i \in 1..Len(aces) : s[i] = AceRule(i - 1, aces[i].dir, aces[i].ace)
    OBVIOUS
<1>4. PICK rules : rules = AceRules(aces)
    OBVIOUS
<1>5. \A i \in 1..Len(aces) : i \in K <=> aces[i].ace.dnsname # None
    OBVIOUS
<1> HIDE DEF s, K, S
<1>6. rules \in Seq(S)
    BY <1>1, <1>2, <1>4, FilterPicks
<1>7. PICK h : Picks(h, rules, s, K, Len(aces))
    BY <1>1, <1>2, <1>4, FilterPicks
<1>8. h \in [1..Len(rules) -> 1..Len(aces)]
    BY <1>7 DEF Picks
<1>9. ASSUME NEW i \in 1..Len(rules)
      PROVE  /\ aces[h[i]].ace.dnsname # None
             /\ rules[i] = AceRule(h[i] - 1, aces[h[i]].dir, aces[h[i]].ace)
    <2>1. h[i] \in K /\ rules[i] = s[h[i]] /\ h[i] \in 1..Len(aces)
        BY <1>7, <1>8 DEF Picks
    <2> QED BY <1>3, <1>5, <2>1
<1>10. ASSUME NEW k \in 1..Len(aces), aces[k].ace.dnsname # None
       PROVE  \E i \in 1..Len(rules) : h[i] = k
    BY <1>5, <1>7, <1>10 DEF Picks
<1>11. \A i, j \in 1..Len(rules) : i < j => h[i] < h[j]
    BY <1>7 DEF Picks
<1>12. RulesAt(h, aces, rules)
    BY <1>8, <1>9, <1>10, <1>11 DEF RulesAt
<1> QED BY <1>4, <1>6, <1>12

RulesOf(acls) == AceRules(Aces(acls)) \o DefaultRules(Len(Aces(acls)))

(* The ACE at place <<k, m>> of acls is the first that applies to pkt. *)
FirstToApply(acls, k, m, pkt) ==
    /\ Applies(acls[k], m, pkt)
    /\ \A i \in 1..Len(acls) : \A j \in 1..Len(acls[i].ace) :
          Applies(acls[i], j, pkt) => ~(i < k \/ (i = k /\ j < m))

LEMMA DefaultRuleMatches ==
    ASSUME NEW pkt \in Packets, NEW n \in Nat
    PROVE  /\ Matches(DefaultRules(n)[1], pkt) \/ Matches(DefaultRules(n)[2], pkt)
           /\ \A i \in 1..2 : DefaultRules(n)[i].verdict = "Reject"
BY DEF DefaultRules, DefaultRule, Matches, Covers

LEMMA Joined ==
    ASSUME NEW T, NEW r \in Seq(T), NEW d \in Seq(T)
    PROVE  /\ Len(r) \in Nat /\ Len(d) \in Nat /\ r \o d \in Seq(T) /\ Len(r \o d) = Len(r) + Len(d)
           /\ \A i \in 1..(Len(r) + Len(d)) : (r \o d)[i] = IF i <= Len(r) THEN r[i] ELSE d[i - Len(r)]
OBVIOUS

LEMMA TwoMore ==
    ASSUME NEW T, NEW r \in Seq(T), NEW d \in Seq(T), Len(d) = 2
    PROVE  /\ Len(r) \in Nat /\ Len(r \o d) = Len(r) + 2 /\ \A i \in 1..Len(r) : (r \o d)[i] = r[i]
           /\ (r \o d)[Len(r) + 1] = d[1] /\ (r \o d)[Len(r) + 2] = d[2]
<1>1. /\ Len(r) \in Nat /\ Len(r \o d) = Len(r) + 2
      /\ \A i \in 1..(Len(r) + 2) : (r \o d)[i] = IF i <= Len(r) THEN r[i] ELSE d[i - Len(r)]
    <2>1. /\ Len(r) \in Nat /\ Len(r \o d) = Len(r) + Len(d)
          /\ \A i \in 1..(Len(r) + Len(d)) : (r \o d)[i] = IF i <= Len(r) THEN r[i] ELSE d[i - Len(r)]
        BY Joined
    <2> QED BY <2>1
<1>2. \A i \in 1..Len(r) : i \in 1..(Len(r) + 2) /\ i <= Len(r)
    BY <1>1
<1>3. /\ Len(r) + 1 \in 1..(Len(r) + 2) /\ ~(Len(r) + 1 <= Len(r)) /\ (Len(r) + 1) - Len(r) = 1
      /\ Len(r) + 2 \in 1..(Len(r) + 2) /\ ~(Len(r) + 2 <= Len(r)) /\ (Len(r) + 2) - Len(r) = 2
    BY <1>1
<1> QED BY <1>1, <1>2, <1>3

LEMMA FirstAceDecides ==
    ASSUME NEW acls, AclsOK(acls), NEW pkt \in Packets
    PROVE  Decide(RulesOf(acls), pkt) = "Accept" <=>
              \E k \in 1..Len(acls) : \E m \in 1..Len(acls[k].ace) :
                 FirstToApply(acls, k, m, pkt) /\ acls[k].ace[m].action = "Accept"
<1>1. PICK t : t = Aces(acls)
    OBVIOUS
<1>2. Len(t) \in Nat /\ DOMAIN t = 1..Len(t)
    BY <1>1, AcesPlaces
<1>3. PICK a, b : AcesAt(a, b, acls)
    BY AcesPlaces
<1>4. PICK r : r = AceRules(t)
    OBVIOUS
<1>5. PICK S : r \in Seq(S)
    BY <1>2, <1>4, AceRulesPlaces
<1>6. PICK h : RulesAt(h, t, r)
    BY <1>2, <1>4, AceRulesPlaces
<1>7. PICK n : n = Len(r)
    OBVIOUS
<1>8. PICK d : d = DefaultRules(Len(t))
    OBVIOUS
<1>9. PICK u : u = r \o d
    OBVIOUS
<1>10. /\ n \in Nat /\ Len(u) = n + 2 /\ u[n + 1] = d[1] /\ u[n + 2] = d[2]
       /\ \A i \in 1..n : u[i] = r[i]
    <2>1. PICK x, y : d = <<x, y>>
        BY <1>8 DEF DefaultRules
    <2>2. PICK T : T = S \cup {x, y}
        OBVIOUS
    <2>3. d \in Seq(T) /\ Len(d) = 2
        BY <2>1, <2>2
    <2>4. r \in Seq(T)
        <3>1. \A i \in 1..Len(r) : r[i] \in T
            BY <1>5, <2>2
        <3> QED BY <1>5, <3>1
    <2> QED BY <1>7, <1>9, <2>3, <2>4, TwoMore
<1> DEFINE k(i) == a[h[i]]
           m(i) == b[h[i]]
<1>11. ASSUME NEW i \in 1..n
       PROVE  /\ h[i] \in 1..Len(t) /\ k(i) \in 1..Len(acls) /\ m(i) \in 1..Len(acls[k(i)].ace)
              /\ t[h[i]].ace = acls[k(i)].ace[m(i)] /\ t[h[i]].dir = acls[k(i)].packet_direction
              /\ t[h[i]].ace.dnsname # None
              /\ u[i] = AceRule(h[i] - 1, t[h[i]].dir, t[h[i]].ace)
    <2>1. /\ h[i] \in 1..Len(t) /\ t[h[i]].ace.dnsname # None
          /\ r[i] = AceRule(h[i] - 1, t[h[i]].dir, t[h[i]].ace)
        BY <1>6, <1>7 DEF RulesAt
    <2>2. /\ k(i) \in 1..Len(acls) /\ m(i) \in 1..Len(acls[k(i)].ace)
          /\ t[h[i]].ace = acls[k(i)].ace[m(i)] /\ t[h[i]].dir = acls[k(i)].packet_direction
        BY <1>1, <1>3, <2>1 DEF AcesAt
    <2> QED BY <1>10, <2>1, <2>2
<1>12. ASSUME NEW i \in 1..n
       PROVE  /\ Matches(u[i], pkt) <=> Applies(acls[k(i)], m(i), pkt)
              /\ u[i].verdict = Verdict(acls[k(i)].ace[m(i)].action)
    <2>1. PICK ace : ace = t[h[i]].ace
        OBVIOUS
    <2>2. PICK dir : dir = t[h[i]].dir
        OBVIOUS
    <2>3. AceOK(ace) /\ dir \in Directions /\ ace.dnsname # None
        BY <1>11, <2>1, <2>2, AclFields
    <2>4. u[i] = AceRule(h[i] - 1, dir, ace)
        BY <1>11, <2>1, <2>2
    <2>5. Matches(u[i], pkt) <=> /\ dir = pkt.dir /\ ace.dnsname = pkt.host
                                 /\ ace.protocol \in {None, "Protocol", pkt.protocol}
        BY <2>3, <2>4, MatchesIfApplies
    <2>6. ace = acls[k(i)].ace[m(i)] /\ dir = acls[k(i)].packet_direction
        BY <1>11, <2>1, <2>2
    <2>7. u[i].verdict = Verdict(ace.action)
        BY <2>4 DEF AceRule
    <2> QED BY <2>5, <2>6, <2>7 DEF Applies
<1>13. ASSUME NEW x \in 1..Len(acls), NEW y \in 1..Len(acls[x].ace), Applies(acls[x], y, pkt)
       PROVE  \E i \in 1..n : k(i) = x /\ m(i) = y
    <2>1. PICK c \in 1..Len(t) : a[c] = x /\ b[c] = y
        BY <1>1, <1>3 DEF AcesAt
    <2>2. t[c].ace = acls[x].ace[y]
        BY <1>1, <1>3, <2>1 DEF AcesAt
    <2>3. t[c].ace.dnsname # None
        BY <1>13, <2>2, HostAssumption DEF Applies, Packets
    <2>4. PICK i \in 1..n : h[i] = c
        BY <1>6, <1>7, <2>3 DEF RulesAt
    <2> QED BY <2>1, <2>4
<1>14. ASSUME NEW i \in 1..n, NEW j \in 1..n, i < j
       PROVE  k(i) < k(j) \/ (k(i) = k(j) /\ m(i) < m(j))
    <2>1. h[i] \in 1..Len(t) /\ h[j] \in 1..Len(t) /\ h[i] < h[j]
        BY <1>6, <1>7, <1>14 DEF RulesAt
    <2> QED BY <1>1, <1>3, <2>1 DEF AcesAt
<1>15. \A i \in 1..n : k(i) \in Nat /\ m(i) \in Nat
    <2>1. \A x \in 1..Len(acls) : x \in Nat /\ Len(acls[x].ace) \in Nat
        BY AclFields
    <2> QED BY <1>11, <2>1
<1> HIDE DEF k, m
<1>16. PICK f \in 1..(n + 2) : /\ Matches(u[f], pkt) /\ Decide(u, pkt) = u[f].verdict
                               /\ \A i \in 1..(n + 2) : Matches(u[i], pkt) => f <= i
    <2>1. \E i \in 1..(n + 2) : Matches(u[i], pkt)
        <3>1. n + 1 \in 1..(n + 2) /\ n + 2 \in 1..(n + 2)
            BY <1>10
        <3> QED BY <1>2, <1>8, <1>10, <3>1, DefaultRuleMatches
    <2>2. Len(u) \in Nat
        BY <1>10
    <2> QED BY <1>10, <2>1, <2>2, FirstDecides
<1>17. f \notin 1..n => u[f].verdict = "Reject"
    <2>1. f \notin 1..n => f = n + 1 \/ f = n + 2
        BY <1>10
    <2> QED BY <1>2, <1>8, <1>10, <2>1, DefaultRuleMatches
<1>18. ASSUME NEW i \in 1..n, Matches(u[i], pkt) PROVE f \in 1..n /\ f <= i
    BY <1>10, <1>16, <1>18
<1>19. f \in 1..n => FirstToApply(acls, k(f), m(f), pkt)
    <2> SUFFICES ASSUME f \in 1..n, NEW x \in 1..Len(acls), NEW y \in 1..Len(acls[x].ace),
                        Applies(acls[x], y, pkt)
                 PROVE  ~(x < k(f) \/ (x = k(f) /\ y < m(f)))
        BY <1>12, <1>16 DEF FirstToApply
    <2>1. PICK i \in 1..n : k(i) = x /\ m(i) = y
        BY <1>13
    <2>2. f <= i
        BY <1>12, <1>18, <2>1
    <2>3. f = i \/ k(f) < k(i) \/ (k(f) = k(i) /\ m(f) < m(i))
        <3>1. f < i \/ f = i
            BY <1>10, <2>2
        <3> QED BY <1>14, <3>1
    <2>4. k(f) \in Nat /\ m(f) \in Nat /\ k(i) \in Nat /\ m(i) \in Nat
        BY <1>15
    <2> QED BY <2>1, <2>3, <2>4
<1>20. ASSUME NEW x \in 1..Len(acls), NEW y \in 1..Len(acls[x].ace), FirstToApply(acls, x, y, pkt)
       PROVE  f \in 1..n /\ k(f) = x /\ m(f) = y
    <2>1. PICK i \in 1..n : k(i) = x /\ m(i) = y
        BY <1>13, <1>20 DEF FirstToApply
    <2>2. f \in 1..n /\ f <= i
        BY <1>12, <1>18, <1>20, <2>1 DEF FirstToApply
    <2>3. Applies(acls[k(f)], m(f), pkt) /\ k(f) \in 1..Len(acls) /\ m(f) \in 1..Len(acls[k(f)].ace)
        BY <1>11, <1>12, <1>16, <2>2 DEF k, m
    <2>4. ~(k(f) < x \/ (k(f) = x /\ m(f) < y))
        BY <1>20, <2>3 DEF FirstToApply
    <2>5. f < i => k(f) < x \/ (k(f) = x /\ m(f) < y)
        BY <1>14, <2>1, <2>2
    <2>6. f < i \/ f = i
        BY <1>10, <2>2
    <2> QED BY <2>1, <2>2, <2>4, <2>5, <2>6
<1>21. RulesOf(acls) = u
    BY <1>1, <1>4, <1>8, <1>9 DEF RulesOf
<1>22. f \in 1..n => u[f].verdict = Verdict(acls[k(f)].ace[m(f)].action)
                     /\ k(f) \in 1..Len(acls) /\ m(f) \in 1..Len(acls[k(f)].ace)
    BY <1>11, <1>12 DEF k, m
<1>23. ASSUME Decide(u, pkt) = "Accept"
       PROVE  \E x \in 1..Len(acls) : \E y \in 1..Len(acls[x].ace) :
                 FirstToApply(acls, x, y, pkt) /\ acls[x].ace[y].action = "Accept"
    <2>1. f \in 1..n
        BY <1>16, <1>17, <1>23
    <2>2. acls[k(f)].ace[m(f)].action = "Accept"
        BY <1>16, <1>22, <1>23, <2>1 DEF Verdict
    <2> QED BY <1>19, <1>22, <2>1, <2>2
<1>24. ASSUME NEW x \in 1..Len(acls), NEW y \in 1..Len(acls[x].ace),
              FirstToApply(acls, x, y, pkt), acls[x].ace[y].action = "Accept"
       PROVE  Decide(u, pkt) = "Accept"
    BY <1>16, <1>20, <1>22, <1>24 DEF Verdict
<1> QED BY <1>21, <1>23, <1>24

(***************************************************************************)
(* The parser and the override                                             *)
(***************************************************************************)

LEMMA SeqOfItsElements ==
    ASSUME NEW S, NEW s \in Seq(S) PROVE s \in Seq(ToSet(s)) /\ DOMAIN s = 1..Len(s) /\ Len(s) \in Nat
<1>1. DOMAIN s = 1..Len(s) /\ Len(s) \in Nat /\ s = [i \in 1..Len(s) |-> s[i]]
    OBVIOUS
<1>2. \A i \in 1..Len(s) : s[i] \in ToSet(s)
    BY <1>1 DEF ToSet
<1> QED BY <1>1, <1>2

LEMMA AclsFromElements ==
    ASSUME NEW S, NEW s \in Seq(S), \A i \in 1..Len(s) : AclOK(s[i]) PROVE AclsOK(s)
BY SeqOfItsElements DEF AclsOK

LEMMA NoAcls == AclsOK(<<>>)
<1>1. <<>> \in Seq({}) /\ \A i \in 1..Len(<<>>) : AclOK(<<>>[i])
    OBVIOUS
<1> QED BY <1>1, AclsFromElements

(* Two lists of ACLs, one after the other. *)
LEMMA AclsJoined ==
    ASSUME NEW s, AclsOK(s), NEW t, AclsOK(t)
    PROVE  /\ AclsOK(s \o t) /\ Len(s \o t) = Len(s) + Len(t) /\ Len(s) \in Nat /\ Len(t) \in Nat
           /\ \A i \in 1..Len(s \o t) :
                 \/ i \in 1..Len(s) /\ (s \o t)[i] = s[i]
                 \/ i - Len(s) \in 1..Len(t) /\ (s \o t)[i] = t[i - Len(s)]
<1>1. PICK T : T = ToSet(s) \cup ToSet(t)
    OBVIOUS
<1>2. /\ s \in Seq(ToSet(s)) /\ t \in Seq(ToSet(t)) /\ DOMAIN s = 1..Len(s) /\ DOMAIN t = 1..Len(t)
    BY DEF AclsOK
<1>3. s \in Seq(T)
    <2>1. \A i \in 1..Len(s) : s[i] \in T
        BY <1>1, <1>2
    <2> QED BY <1>2, <2>1
<1>4. t \in Seq(T)
    <2>1. \A i \in 1..Len(t) : t[i] \in T
        BY <1>1, <1>2
    <2> QED BY <1>2, <2>1
<1>5. /\ Len(s) \in Nat /\ Len(t) \in Nat /\ s \o t \in Seq(T) /\ Len(s \o t) = Len(s) + Len(t)
      /\ \A i \in 1..(Len(s) + Len(t)) : (s \o t)[i] = IF i <= Len(s) THEN s[i] ELSE t[i - Len(s)]
    BY <1>3, <1>4, Joined
<1>6. ASSUME NEW i \in 1..Len(s \o t)
      PROVE  \/ i \in 1..Len(s) /\ (s \o t)[i] = s[i]
             \/ i - Len(s) \in 1..Len(t) /\ (s \o t)[i] = t[i - Len(s)]
    <2>1. i \in 1..(Len(s) + Len(t))
        BY <1>5
    <2>2. CASE i <= Len(s)
        BY <1>5, <2>1, <2>2
    <2>3. CASE ~(i <= Len(s))
        <3>1. i - Len(s) \in 1..Len(t)
            BY <1>5, <2>1, <2>3
        <3> QED BY <1>5, <2>1, <2>3, <3>1
    <2> QED BY <2>2, <2>3
<1>7. \A i \in 1..Len(s \o t) : AclOK((s \o t)[i])
    BY <1>2, <1>6 DEF AclsOK
<1>8. AclsOK(s \o t)
    <2> HIDE DEF AclsOK
    <2> QED BY <1>5, <1>7, AclsFromElements
<1> QED BY <1>5, <1>6, <1>8

LEMMA AclsKept ==
    ASSUME NEW s, AclsOK(s), NEW K
    PROVE  /\ AclsOK(Filter(s, K))
           /\ \A i \in 1..Len(Filter(s, K)) : \E k \in K : k \in 1..Len(s) /\ Filter(s, K)[i] = s[k]
<1>1. s \in Seq(ToSet(s)) /\ DOMAIN s = 1..Len(s)
    BY DEF AclsOK
<1>2. PICK t : t = Filter(s, K)
    OBVIOUS
<1>3. PICK g : Picks(g, t, s, K, Len(s))
    BY <1>1, <1>2, FilterPicks
<1>4. t \in Seq(ToSet(s))
    BY <1>1, <1>2, FilterPicks
<1>5. \A i \in 1..Len(t) : g[i] \in K /\ g[i] \in 1..Len(s) /\ t[i] = s[g[i]]
    BY <1>3 DEF Picks
<1>6. \A i \in 1..Len(t) : AclOK(t[i])
    BY <1>1, <1>5 DEF AclsOK
<1>7. AclsOK(t)
    BY <1>4, <1>6, AclsFromElements
<1> QED BY <1>2, <1>5, <1>7

(* An ACL in force is one of the user's, or one of the file that the user did
   not replace. *)
LEMMA MergedAcls ==
    ASSUME NEW m, AclsOK(m.acllist), AclsOK(m.acl_override)
    PROVE  /\ AclsOK(merged_acls(m))
           /\ \A i \in 1..Len(merged_acls(m)) :
                 \/ \E k \in 1..Len(m.acl_override) : merged_acls(m)[i] = m.acl_override[k]
                 \/ \E k \in 1..Len(m.acllist) :
                       /\ merged_acls(m)[i] = m.acllist[k]
                       /\ m.acllist[k].name \notin {m.acl_override[j].name : j \in DOMAIN m.acl_override}
<1>1. CASE m.acl_override = <<>>
    <2>1. merged_acls(m) = m.acllist /\ DOMAIN m.acl_override = {}
        BY <1>1 DEF merged_acls
    <2> QED BY <2>1
<1>2. CASE m.acl_override # <<>>
    <2>1. PICK o : o = m.acl_override
        OBVIOUS
    <2>2. PICK s : s = m.acllist
        OBVIOUS
    <2> DEFINE K == {k \in DOMAIN s : \A i \in DOMAIN o : o[i].name # s[k].name}
    <2>3. merged_acls(m) = Filter(s, K) \o o
        BY <1>2, <2>1, <2>2 DEF merged_acls, merge_acls
    <2>4. PICK t : t = Filter(s, K)
        OBVIOUS
    <2>5. AclsOK(s) /\ AclsOK(o)
        BY <2>1, <2>2
    <2>6. \A k \in K : s[k].name \notin {o[j].name : j \in DOMAIN o}
        OBVIOUS
    <2> HIDE DEF K
    <2>7. AclsOK(t) /\ \A i \in 1..Len(t) : \E k \in K : k \in 1..Len(s) /\ t[i] = s[k]
        BY <2>4, <2>5, AclsKept
    <2>8. PICK u : u = t \o o
        OBVIOUS
    <2>9. /\ AclsOK(u)
          /\ \A i \in 1..Len(u) : \/ i \in 1..Len(t) /\ u[i] = t[i]
                                  \/ i - Len(t) \in 1..Len(o) /\ u[i] = o[i - Len(t)]
        BY <2>5, <2>7, <2>8, AclsJoined
    <2>10. ASSUME NEW i \in 1..Len(u)
           PROVE  \/ \E k \in 1..Len(o) : u[i] = o[k]
                  \/ \E k \in 1..Len(s) : u[i] = s[k] /\ s[k].name \notin {o[j].name : j \in DOMAIN o}
        BY <2>6, <2>7, <2>9
    <2>11. merged_acls(m) = u
        BY <2>3, <2>4, <2>8
    <2> QED BY <2>1, <2>2, <2>9, <2>10, <2>11
<1> QED BY <1>1, <1>2

LEMMA FoundAcl ==
    ASSUME NEW f, FileOK(f), NEW name, FindAcl(f, name) # 0
    PROVE  /\ FindAcl(f, name) \in DOMAIN f.acl /\ f.acl[FindAcl(f, name)].name = name
           /\ \A l \in 1..(FindAcl(f, name) - 1) : f.acl[l].name # name
<1> DEFINE I == {i \in 1..Len(f.acl) : f.acl[i].name = name}
<1>1. Len(f.acl) \in Nat /\ DOMAIN f.acl = 1..Len(f.acl)
    <2>1. f.acl \in Seq(ToSet(f.acl))
        BY DEF FileOK
    <2> QED BY <2>1, SeqOfItsElements
<1>2. FindAcl(f, name) = IF I # {} THEN Min(I) ELSE 0
    BY DEF FindAcl, SelectInSeq
<1>3. I # {} /\ I \subseteq Nat
    BY <1>1, <1>2
<1>4. PICK m : m = Min(I)
    OBVIOUS
<1>5. m \in I /\ \A k \in I : m <= k
    <2> HIDE DEF I
    <2>1. \E x \in I : \A k \in I : x <= k
        BY <1>3, NatMin
    <2> QED BY <1>4, <2>1 DEF Min
<1>6. ASSUME NEW l \in 1..(m - 1) PROVE f.acl[l].name # name
    <2>1. l \in 1..Len(f.acl) /\ ~(m <= l)
        BY <1>1, <1>5
    <2> QED BY <1>5, <2>1
<1> QED BY <1>1, <1>2, <1>3, <1>4, <1>5, <1>6

LEMMA ParsedAce ==
    ASSUME NEW a,
           \A ip \in {a.ipv4, a.ipv6} \ {None} : {ip.dst_dnsname, ip.src_dnsname} \subseteq Hosts \cup {None}
    PROVE  /\ AceOK(parse_ace(a))
           /\ parse_ace(a).action = "Accept" => a.forwarding = "accept"
           /\ parse_ace(a).dnsname # None =>
                 Block(a) # None /\ parse_ace(a).dnsname \in {Block(a).dst_dnsname, Block(a).src_dnsname}
<1>1. PICK p : p = parse_ace(a)
    OBVIOUS
<1>2. p.action = ActionOf(a.forwarding)
    BY <1>1 DEF parse_ace
<1>3. p.protocol \in {None, "Protocol", "Udp", "Tcp"}
    BY <1>1 DEF parse_ace
<1>4. p.direction_initiated \in Directions \cup {None}
    <2>1. DirectionOf(a.direction_initiated) \in Directions \cup {None}
        BY DEF DirectionOf, Directions
    <2> QED BY <1>1, <2>1 DEF parse_ace
<1>5. PICK ip : ip = Block(a)
    OBVIOUS
<1>6. p.dnsname = IF ip = None THEN None ELSE IF ip.dst_dnsname # None THEN ip.dst_dnsname ELSE ip.src_dnsname
    BY <1>1, <1>5 DEF parse_ace, Block
<1>7. ip # None => {ip.dst_dnsname, ip.src_dnsname} \subseteq Hosts \cup {None}
    BY <1>5 DEF Block
<1>8. AceOK(p)
    <2>1. p.action \in {"Accept", "Deny"}
        BY <1>2 DEF ActionOf
    <2>2. p.dnsname \in Hosts \cup {None}
        BY <1>6, <1>7
    <2> QED BY <1>3, <1>4, <2>1, <2>2 DEF AceOK, AceProtocols
<1>9. p.action = "Accept" => a.forwarding = "accept"
    BY <1>2 DEF ActionOf
<1> QED BY <1>1, <1>5, <1>6, <1>8, <1>9

(* ACL number i of a policy is the first ACL of the file with that name. *)
PolicyAcl(acl, f, name, dir) ==
    /\ acl.name = name /\ acl.packet_direction = dir
    /\ \E k \in DOMAIN f.acl :
          /\ f.acl[k].name = name /\ \A l \in 1..(k - 1) : f.acl[l].name # name
          /\ DOMAIN acl.ace = DOMAIN f.acl[k].ace
          /\ \A j \in DOMAIN acl.ace : acl.ace[j] = parse_ace(f.acl[k].ace[j])

LEMMA ParsedAcl ==
    ASSUME NEW f, FileOK(f), NEW name \in AclNames, FindAcl(f, name) # 0, NEW dir \in Directions,
           NEW acl, acl.name = name, acl.packet_direction = dir,
           acl.ace = [j \in DOMAIN f.acl[FindAcl(f, name)].ace |->
                         parse_ace(f.acl[FindAcl(f, name)].ace[j])]
    PROVE  AclOK(acl) /\ PolicyAcl(acl, f, name, dir)
<1>1. PICK k : k = FindAcl(f, name)
    OBVIOUS
<1>2. k \in DOMAIN f.acl /\ f.acl[k].name = name /\ \A l \in 1..(k - 1) : f.acl[l].name # name
    BY <1>1, FoundAcl
<1>3. PICK s : s = f.acl[k].ace
    OBVIOUS
<1>4. s \in Seq(ToSet(s))
      /\ \A j \in DOMAIN s : \A ip \in {s[j].ipv4, s[j].ipv6} \ {None} :
            {ip.dst_dnsname, ip.src_dnsname} \subseteq Hosts \cup {None}
    BY <1>2, <1>3 DEF FileOK
<1>5. DOMAIN s = 1..Len(s) /\ Len(s) \in Nat
    BY <1>4, SeqOfItsElements
<1>6. acl.ace = [j \in DOMAIN s |-> parse_ace(s[j])]
    BY <1>1, <1>3
<1>7. \A j \in DOMAIN s : AceOK(parse_ace(s[j]))
    BY <1>4, ParsedAce
<1>8. PICK t : t = acl.ace
    OBVIOUS
<1>9. t \in Seq({parse_ace(s[j]) : j \in DOMAIN s})
    <2>1. t = [j \in 1..Len(s) |-> parse_ace(s[j])]
        BY <1>5, <1>6, <1>8
    <2>2. PICK T : T = {parse_ace(s[j]) : j \in DOMAIN s}
        OBVIOUS
    <2>3. \A j \in 1..Len(s) : parse_ace(s[j]) \in T
        BY <1>5, <2>2
    <2>4. t \in Seq(T)
        BY <1>5, <2>1, <2>3
    <2> QED BY <2>2, <2>4
<1>10. t \in Seq(ToSet(t))
    BY <1>9, SeqOfItsElements
<1>11. DOMAIN t = DOMAIN s /\ \A j \in DOMAIN t : t[j] = parse_ace(s[j]) /\ AceOK(t[j])
    BY <1>6, <1>7, <1>8
<1>12. AclOK(acl)
    BY <1>8, <1>10, <1>11 DEF AclOK
<1>13. PolicyAcl(acl, f, name, dir)
    BY <1>2, <1>3, <1>8, <1>11 DEF PolicyAcl
<1> QED BY <1>12, <1>13

LEMMA ParsedPolicy ==
    ASSUME NEW f, FileOK(f), NEW names \in Seq(AclNames), ~PolicyInvalid(f, names), NEW dir \in Directions
    PROVE  /\ AclsOK(parse_device_policy(f, names, dir))
           /\ Len(parse_device_policy(f, names, dir)) = Len(names)
           /\ \A i \in 1..Len(names) : PolicyAcl(parse_device_policy(f, names, dir)[i], f, names[i], dir)
<1> DEFINE acl(i) == [name |-> names[i], packet_direction |-> dir,
                      acl_type |-> AclTypeOf(f.acl[FindAcl(f, names[i])]),
                      ace |-> [j \in DOMAIN f.acl[FindAcl(f, names[i])].ace |->
                                  parse_ace(f.acl[FindAcl(f, names[i])].ace[j])]]
<1>1. DOMAIN names = 1..Len(names) /\ Len(names) \in Nat /\ \A i \in 1..Len(names) : names[i] \in AclNames
    OBVIOUS
<1>2. ASSUME NEW i \in 1..Len(names) PROVE AclOK(acl(i)) /\ PolicyAcl(acl(i), f, names[i], dir)
    <2>1. FindAcl(f, names[i]) # 0
        BY <1>1 DEF PolicyInvalid
    <2>2. PICK x : x = acl(i)
        OBVIOUS
    <2>3. /\ x.name = names[i] /\ x.packet_direction = dir
          /\ x.ace = [j \in DOMAIN f.acl[FindAcl(f, names[i])].ace |->
                         parse_ace(f.acl[FindAcl(f, names[i])].ace[j])]
        BY <2>2
    <2>4. AclOK(x) /\ PolicyAcl(x, f, names[i], dir)
        BY <1>1, <2>1, <2>3, ParsedAcl
    <2> QED BY <2>2, <2>4
<1>3. parse_device_policy(f, names, dir) = [i \in 1..Len(names) |-> acl(i)]
    BY <1>1 DEF parse_device_policy
<1> HIDE DEF acl
<1>4. PICK s : s = parse_device_policy(f, names, dir)
    OBVIOUS
<1>5. PICK T : T = {acl(i) : i \in 1..Len(names)}
    OBVIOUS
<1>6. \A i \in 1..Len(names) : acl(i) \in T
    BY <1>5
<1>7. s \in Seq(T) /\ Len(s) = Len(names) /\ \A i \in 1..Len(names) : s[i] = acl(i)
    BY <1>1, <1>3, <1>4, <1>6
<1>8. AclsOK(s)
    BY <1>2, <1>7, AclsFromElements
<1> QED BY <1>2, <1>4, <1>7, <1>8

(* parse_mud of a file that is not refused. *)
LEMMA ParsedFile ==
    ASSUME NEW f, FileOK(f), Parsable(f)
    PROVE  /\ AclsOK(parse_mud(f).acllist)
           /\ \A k \in 1..Len(parse_mud(f).acllist) :
                 \/ \E i \in DOMAIN f.from_device_policy :
                       PolicyAcl(parse_mud(f).acllist[k], f, f.from_device_policy[i], "FromDevice")
                 \/ \E i \in DOMAIN f.to_device_policy :
                       PolicyAcl(parse_mud(f).acllist[k], f, f.to_device_policy[i], "ToDevice")
<1>1. PICK x \in Seq(AclNames) : x = f.from_device_policy
    BY DEF FileOK
<1>2. PICK y \in Seq(AclNames) : y = f.to_device_policy
    BY DEF FileOK
<1>3. "FromDevice" \in Directions /\ "ToDevice" \in Directions
    BY DEF Directions
<1>4. PICK s : s = parse_device_policy(f, x, "FromDevice")
    OBVIOUS
<1>5. PICK t : t = parse_device_policy(f, y, "ToDevice")
    OBVIOUS
<1>6. AclsOK(s) /\ Len(s) = Len(x) /\ \A i \in 1..Len(x) : PolicyAcl(s[i], f, x[i], "FromDevice")
    BY <1>1, <1>3, <1>4, ParsedPolicy DEF Parsable
<1>7. AclsOK(t) /\ Len(t) = Len(y) /\ \A i \in 1..Len(y) : PolicyAcl(t[i], f, y[i], "ToDevice")
    BY <1>2, <1>3, <1>5, ParsedPolicy DEF Parsable
<1>8. parse_mud(f).acllist = s \o t
    BY <1>1, <1>2, <1>4, <1>5 DEF parse_mud
<1>9. PICK u : u = s \o t
    OBVIOUS
<1>10. /\ AclsOK(u)
       /\ \A k \in 1..Len(u) : \/ k \in 1..Len(s) /\ u[k] = s[k]
                               \/ k - Len(s) \in 1..Len(t) /\ u[k] = t[k - Len(s)]
    BY <1>6, <1>7, <1>9, AclsJoined
<1>11. ASSUME NEW k \in 1..Len(u)
       PROVE  \/ \E i \in DOMAIN x : PolicyAcl(u[k], f, x[i], "FromDevice")
              \/ \E i \in DOMAIN y : PolicyAcl(u[k], f, y[i], "ToDevice")
    <2>1. CASE k \in 1..Len(s) /\ u[k] = s[k]
        <3>1. k \in DOMAIN x
            BY <1>6, <2>1
        <3> QED BY <1>6, <2>1, <3>1
    <2>2. CASE k - Len(s) \in 1..Len(t) /\ u[k] = t[k - Len(s)]
        <3>1. k - Len(s) \in DOMAIN y
            BY <1>7, <2>2
        <3> QED BY <1>7, <2>2, <3>1
    <2> QED BY <1>10, <2>1, <2>2
<1> QED BY <1>1, <1>2, <1>8, <1>9, <1>10, <1>11

(* An accepting ACE of the stored profile is an accepting ACE of the file. *)
LEMMA FileAcceptsIt ==
    ASSUME NEW f, FileOK(f), Parsable(f), NEW pkt \in Packets, NEW overridden,
           NEW k \in 1..Len(parse_mud(f).acllist), NEW acl, acl = parse_mud(f).acllist[k],
           acl.name \notin overridden, NEW j \in DOMAIN acl.ace, Applies(acl, j, pkt),
           acl.ace[j].action = "Accept"
    PROVE  FileAccepts(f, overridden, pkt)
<1> DEFINE policy(dir) == IF dir = "FromDevice" THEN f.from_device_policy ELSE f.to_device_policy
<1>1. PICK i \in DOMAIN policy(pkt.dir) : PolicyAcl(acl, f, policy(pkt.dir)[i], pkt.dir)
    <2>1. CASE \E i \in DOMAIN f.from_device_policy :
                  PolicyAcl(acl, f, f.from_device_policy[i], "FromDevice")
        BY <2>1 DEF PolicyAcl, Applies
    <2>2. CASE \E i \in DOMAIN f.to_device_policy : PolicyAcl(acl, f, f.to_device_policy[i], "ToDevice")
        BY <2>2 DEF PolicyAcl, Applies
    <2> QED BY <2>1, <2>2, ParsedFile
<1>2. PICK name : name = policy(pkt.dir)[i]
    OBVIOUS
<1>3. PICK l \in DOMAIN f.acl :
         /\ f.acl[l].name = name /\ \A n \in 1..(l - 1) : f.acl[n].name # name
         /\ DOMAIN acl.ace = DOMAIN f.acl[l].ace
         /\ \A n \in DOMAIN acl.ace : acl.ace[n] = parse_ace(f.acl[l].ace[n])
    BY <1>1, <1>2 DEF PolicyAcl
<1>4. PICK a : a = f.acl[l].ace[j]
    OBVIOUS
<1>5. acl.ace[j] = parse_ace(a) /\ j \in DOMAIN f.acl[l].ace
    BY <1>3, <1>4
<1>6. \A ip \in {a.ipv4, a.ipv6} \ {None} : {ip.dst_dnsname, ip.src_dnsname} \subseteq Hosts \cup {None}
    BY <1>4, <1>5 DEF FileOK
<1>7. parse_ace(a).dnsname = pkt.host /\ pkt.host # None /\ parse_ace(a).action = "Accept"
    BY <1>5, HostAssumption DEF Applies, Packets
<1>8. a.forwarding = "accept" /\ Block(a) # None /\ pkt.host \in {Block(a).dst_dnsname, Block(a).src_dnsname}
    BY <1>6, <1>7, ParsedAce
<1>9. name \notin overridden
    BY <1>1, <1>2 DEF PolicyAcl
<1> QED BY <1>1, <1>2, <1>3, <1>4, <1>5, <1>8, <1>9 DEF FileAccepts

(* The configuration of the device with the profile. *)
LEMMA ConfiguredRules == Configuration[1].rules = convert_device_to_fw_rules(mud)
<1> DEFINE device(id, addr, x) == [id |-> id, ipv4_addr |-> addr, ipv6_addr |-> None, mud_data |-> x]
<1>1. PICK s : s = <<device(1, None, mud), device(2, Address, mud), device(3, Address, None)>>
    OBVIOUS
<1>2. /\ Len(s) = 3 /\ DOMAIN s = 1..3
      /\ s[1].ipv4_addr = None /\ s[1].ipv6_addr = None
      /\ s[2].ipv4_addr = Address /\ s[2].mud_data = mud
    BY <1>1
<1>3. s \in Seq({s[1], s[2], s[3]})
    BY <1>1
<1>4. PICK K : K = {i \in DOMAIN s : s[i].ipv4_addr # None \/ s[i].ipv6_addr # None}
    OBVIOUS
<1>5. 1 \notin K /\ 2 \in K
    BY <1>2, <1>4, PipelineAssumption
<1>6. PICK t : t = Filter(s, K)
    OBVIOUS
<1>7. t \in Seq({s[1], s[2], s[3]})
    BY <1>3, <1>6, FilterPicks
<1>8. PICK g : Picks(g, t, s, K, 3)
    BY <1>2, <1>3, <1>6, FilterPicks
<1>9. PICK i \in 1..Len(t) : g[i] = 2
    BY <1>5, <1>8 DEF Picks
<1>10. 1 \in 1..Len(t) /\ Len(t) \in Nat
    BY <1>7, <1>9
<1>11. g[1] \in 1..3 /\ g[1] \in K /\ t[1] = s[g[1]]
    BY <1>8, <1>10 DEF Picks
<1>12. g[1] = 2
    <2>1. CASE i = 1
        BY <1>9, <2>1
    <2>2. CASE 1 < i
        <3>1. g[1] < g[i]
            BY <1>8, <1>10, <2>2 DEF Picks
        <3> QED BY <1>5, <1>9, <1>11, <3>1
    <2> QED BY <1>10, <2>1, <2>2
<1>13. t[1].mud_data = mud /\ DOMAIN t = 1..Len(t)
    BY <1>2, <1>7, <1>11, <1>12
<1>14. Configuration = [n \in DOMAIN t |-> [id |-> t[n].id,
                                            rules |-> convert_device_to_fw_rules(t[n].mud_data)]]
    BY <1>1, <1>4, <1>6 DEF Configuration, create_configuration
<1> QED BY <1>10, <1>13, <1>14

(* The inductive invariant of the stored profile: it is the one parsed from
   the file it is said to come from, with some override of the user, or a
   local one. *)
MudInv ==
    \/ mud = None /\ file = None
    \/ /\ file = None
       /\ \E o \in Overrides \cup {<<>>} :
             mud = [expiration |-> Forever, acllist |-> <<>>, acl_override |-> o]
    \/ /\ file \in Files \cup Revisions /\ Parsable(file)
       /\ \E o \in Overrides \cup {<<>>} : mud = [parse_mud(file) EXCEPT !.acl_override = o]

LEMMA ParsedProfile ==
    ASSUME NEW f, NEW o
    PROVE  /\ parse_mud(f).acl_override = <<>>
           /\ [parse_mud(f) EXCEPT !.acl_override = o].expiration = cache_validity(f)
           /\ [parse_mud(f) EXCEPT !.acl_override = o].acllist = parse_mud(f).acllist
           /\ [parse_mud(f) EXCEPT !.acl_override = o].acl_override = o
           /\ \A p : [[parse_mud(f) EXCEPT !.acl_override = o] EXCEPT !.acl_override = p]
                        = [parse_mud(f) EXCEPT !.acl_override = p]
BY DEF parse_mud

LEMMA ValidHours ==
    ASSUME NEW f, FileOK(f), Parsable(f) PROVE cache_validity(f) \in 1..MaxValidity
<1>1. f.cache_validity \in Int \cup {None} /\ ValidityOK(cache_validity(f))
    BY DEF FileOK, Parsable
<1>2. cache_validity(f) \in Int
    BY <1>1 DEF cache_validity, DefaultValidity
<1> QED BY <1>1, <1>2 DEF ValidityOK, MaxValidity

LEMMA StoredProfile ==
    ASSUME MudInv, mud # None
    PROVE  /\ mud.expiration \in IF file = None THEN {Forever} ELSE 1..MaxValidity
           /\ mud.acl_override \in Overrides \cup {<<>>}
           /\ AclsOK(mud.acllist) /\ AclsOK(mud.acl_override)
           /\ file = None => mud.acllist = <<>>
           /\ file # None => /\ FileOK(file) /\ Parsable(file)
                             /\ mud.acllist = parse_mud(file).acllist
<1>1. \A o \in Overrides \cup {<<>>} : AclsOK(o)
    BY PipelineAssumption, NoAcls
<1>2. CASE /\ file = None
           /\ \E o \in Overrides \cup {<<>>} :
                 mud = [expiration |-> Forever, acllist |-> <<>>, acl_override |-> o]
    BY <1>1, <1>2, NoAcls
<1>3. CASE /\ file \in Files \cup Revisions /\ Parsable(file)
           /\ \E o \in Overrides \cup {<<>>} : mud = [parse_mud(file) EXCEPT !.acl_override = o]
    <2>1. PICK o \in Overrides \cup {<<>>} : mud = [parse_mud(file) EXCEPT !.acl_override = o]
        BY <1>3
    <2>2. FileOK(file) /\ Parsable(file) /\ file # None
        BY <1>3, PipelineAssumption
    <2>3. mud.expiration = cache_validity(file) /\ mud.acllist = parse_mud(file).acllist
          /\ mud.acl_override = o
        BY <2>1, ParsedProfile
    <2>4. cache_validity(file) \in 1..MaxValidity
        BY <2>2, ValidHours
    <2>5. AclsOK(parse_mud(file).acllist)
        BY <2>2, ParsedFile
    <2> QED BY <1>1, <2>2, <2>3, <2>4, <2>5
<1> QED BY <1>2, <1>3 DEF MudInv

LEMMA NoProfileNoFile == MudInv /\ mud = None => file = None
<1> SUFFICES ASSUME MudInv, mud = None, file # None PROVE FALSE
    OBVIOUS
<1>1. PICK o \in Overrides \cup {<<>>} : mud = [parse_mud(file) EXCEPT !.acl_override = o]
    BY DEF MudInv
<1>2. file \in Files \cup Revisions /\ Parsable(file)
    BY DEF MudInv
<1>3. mud \in Profiles
    BY <1>1, <1>2 DEF Profiles
<1> QED BY <1>3, PipelineAssumption

LEMMA MudStep == MudInv /\ [Next]_vars => MudInv'
<1> SUFFICES ASSUME MudInv, [Next]_vars PROVE MudInv'
    OBVIOUS
<1>1. CASE UNCHANGED <<mud, file>>
    BY <1>1 DEF MudInv
<1>2. ASSUME NEW f \in Files \cup Revisions, Parse(f) PROVE MudInv'
    <2>1. CASE ~Parsable(f)
        BY <1>1, <1>2, <2>1 DEF Parse
    <2>2. CASE Parsable(f)
        <3>1. PICK o : o = IF mud = None THEN parse_mud(f).acl_override ELSE mud.acl_override
            OBVIOUS
        <3>2. o \in Overrides \cup {<<>>}
            BY <3>1, ParsedProfile, StoredProfile
        <3>3. mud' = [parse_mud(f) EXCEPT !.acl_override = o] /\ file' = f
            BY <1>2, <2>2, <3>1 DEF Parse, Refreshed
        <3> QED BY <2>2, <3>2, <3>3 DEF MudInv
    <2> QED BY <2>1, <2>2
<1>3. CASE ParseAny
    BY <1>2, <1>3 DEF ParseAny
<1>4. ASSUME NEW o \in Overrides, CreateLocal(o) PROVE MudInv'
    <2>1. file' = None /\ mud' = [expiration |-> Forever, acllist |-> <<>>, acl_override |-> o]
        BY <1>4, NoProfileNoFile DEF CreateLocal
    <2> QED BY <2>1 DEF MudInv
<1>5. ASSUME NEW o \in Overrides, PutOverride(o) PROVE MudInv'
    <2>1. mud # None /\ mud' = [mud EXCEPT !.acl_override = o] /\ file' = file
        BY <1>5 DEF PutOverride
    <2>2. CASE /\ file = None
               /\ \E p \in Overrides \cup {<<>>} :
                     mud = [expiration |-> Forever, acllist |-> <<>>, acl_override |-> p]
        <3>1. mud' = [expiration |-> Forever, acllist |-> <<>>, acl_override |-> o]
            BY <2>1, <2>2
        <3> QED BY <2>1, <2>2, <3>1 DEF MudInv
    <2>3. CASE /\ file \in Files \cup Revisions /\ Parsable(file)
               /\ \E p \in Overrides \cup {<<>>} : mud = [parse_mud(file) EXCEPT !.acl_override = p]
        <3>1. mud' = [parse_mud(file) EXCEPT !.acl_override = o]
            BY <2>1, <2>3, ParsedProfile
        <3> QED BY <2>1, <2>3, <3>1 DEF MudInv
    <2> QED BY <2>1, <2>2, <2>3 DEF MudInv
<1> QED BY <1>1, <1>3, <1>4, <1>5 DEF Next, StartFetch, vars

LEMMA ProfileSafe == Spec => []MudInv
<1>1. Init => MudInv
    BY DEF Init, MudInv
<1> QED BY <1>1, MudStep, PTL DEF Spec

(* Every variable keeps its kind; the profile parse_mud stores is valid for an
   hour at least and a week at most. *)
THEOREM PipelineTypeCorrect == Spec => []PipelineTypeOK
<1>1. FetchInv /\ MudInv => PipelineTypeOK
    <2> SUFFICES ASSUME FetchInv, MudInv PROVE PipelineTypeOK
        OBVIOUS
    <2>1. Len(buffer) * enc.out <= BufferSize
        <3>1. enc.out \in 1..BufferSize /\ BufferSize \in Nat
            BY Sizes DEF FetchInv, FetchTypeOK
        <3>2. Len(buffer) \in Nat /\ Len(buffer) <= BufferSize \div enc.out
            BY DEF FetchInv, FetchTypeOK
        <3> QED BY <3>1, <3>2, FitsBuffer
    <2>2. mud = None \/ /\ mud.expiration \in IF file = None THEN {Forever} ELSE 1..MaxValidity
                        /\ mud.acl_override \in Overrides \cup {<<>>}
                        /\ AclsOK(mud.acllist)
        BY StoredProfile
    <2> QED BY <2>1, <2>2 DEF PipelineTypeOK, FetchInv, FetchTypeOK
<1> QED BY <1>1, FetchSafe, ProfileSafe, PTL

LEMMA DecisionOfProfile ==
    ASSUME MudInv, mud # None, NEW pkt \in Packets
    PROVE  /\ AclsOK(merged_acls(mud))
           /\ Decision(pkt) = "Accept" <=>
                 \E k \in 1..Len(merged_acls(mud)) : \E m \in 1..Len(merged_acls(mud)[k].ace) :
                    /\ FirstToApply(merged_acls(mud), k, m, pkt)
                    /\ merged_acls(mud)[k].ace[m].action = "Accept"
<1>1. AclsOK(mud.acllist) /\ AclsOK(mud.acl_override)
    BY StoredProfile
<1>2. PICK acls : acls = merged_acls(mud)
    OBVIOUS
<1>3. AclsOK(acls)
    BY <1>1, <1>2, MergedAcls
<1>4. convert_device_to_fw_rules(mud) = RulesOf(acls)
    BY <1>2 DEF convert_device_to_fw_rules, RulesOf
<1>5. Decision(pkt) = Decide(RulesOf(acls), pkt)
    BY <1>4, ConfiguredRules DEF Decision
<1> QED BY <1>2, <1>3, <1>5, FirstAceDecides

LEMMA DecisionWithoutProfile ==
    ASSUME mud = None, NEW pkt PROVE Decision(pkt) = "Accept"
<1>1. convert_device_to_fw_rules(mud) = <<>>
    BY DEF convert_device_to_fw_rules
<1>2. Decision(pkt) = Decide(<<>>, pkt)
    BY <1>1, ConfiguredRules DEF Decision
<1>3. SelectInSeq(<<>>, LAMBDA r : Matches(r, pkt)) = 0
    <2>1. {i \in 1..Len(<<>>) : Matches(<<>>[i], pkt)} = {}
        OBVIOUS
    <2> QED BY <2>1 DEF SelectInSeq
<1> QED BY <1>2, <1>3 DEF Decide

(* The rules an enforcer gets decide like the profile: of all ACEs, in the
   order of merge_acls, the first that applies to a packet decides, a packet
   no ACE applies to is rejected, and a device without a profile is not
   restricted; for files and overrides of any length. *)
THEOREM FirstAcesDecide == Spec => []DecidedByFirstAce
<1>1. MudInv => DecidedByFirstAce
    <2> SUFFICES ASSUME MudInv PROVE DecidedByFirstAce
        OBVIOUS
    <2>1. CASE mud = None
        BY <2>1, DecisionWithoutProfile DEF DecidedByFirstAce
    <2>2. CASE mud # None
        <3>1. PICK acls : acls = merged_acls(mud)
            OBVIOUS
        <3>2. /\ DOMAIN acls = 1..Len(acls)
              /\ \A i \in 1..Len(acls) : DOMAIN acls[i].ace = 1..Len(acls[i].ace)
            <4>1. AclsOK(acls)
                <5>1. AclsOK(mud.acllist) /\ AclsOK(mud.acl_override)
                    BY <2>2, StoredProfile
                <5> QED BY <3>1, <5>1, MergedAcls
            <4> QED BY <4>1, AclFields
        <3> DEFINE places == UNION {{<<i, j>> : j \in DOMAIN acls[i].ace} : i \in DOMAIN acls}
                   before(p, q) == p[1] < q[1] \/ (p[1] = q[1] /\ p[2] < q[2])
                   applies(p, pkt) == Applies(acls[p[1]], p[2], pkt)
                   action(p) == acls[p[1]].ace[p[2]].action
                   first(pkt) == \E p \in places : /\ applies(p, pkt) /\ action(p) = "Accept"
                                                   /\ \A q \in places : applies(q, pkt) => ~before(q, p)
        <3>3. ASSUME NEW pkt \in Packets
              PROVE  first(pkt) <=> \E k \in 1..Len(acls) : \E m \in 1..Len(acls[k].ace) :
                                       FirstToApply(acls, k, m, pkt) /\ acls[k].ace[m].action = "Accept"
            <4>1. ASSUME NEW k \in 1..Len(acls), NEW m \in 1..Len(acls[k].ace),
                         FirstToApply(acls, k, m, pkt), acls[k].ace[m].action = "Accept"
                  PROVE  first(pkt)
                <5>1. <<k, m>> \in places
                    BY <3>2
                <5>2. ASSUME NEW q \in places, applies(q, pkt) PROVE ~before(q, <<k, m>>)
                    <6>1. q[1] \in 1..Len(acls) /\ q[2] \in 1..Len(acls[q[1]].ace)
                        BY <3>2
                    <6> QED BY <4>1, <5>2, <6>1 DEF FirstToApply
                <5>3. applies(<<k, m>>, pkt) /\ action(<<k, m>>) = "Accept"
                    BY <4>1 DEF FirstToApply
                <5> HIDE DEF places, before, applies, action
                <5> QED BY <5>1, <5>2, <5>3
            <4>2. ASSUME first(pkt)
                  PROVE  \E k \in 1..Len(acls) : \E m \in 1..Len(acls[k].ace) :
                            FirstToApply(acls, k, m, pkt) /\ acls[k].ace[m].action = "Accept"
                <5>1. PICK p \in places : /\ applies(p, pkt) /\ action(p) = "Accept"
                                          /\ \A q \in places : applies(q, pkt) => ~before(q, p)
                    <6> HIDE DEF places, before, applies, action
                    <6> QED BY <4>2
                <5>2. p[1] \in 1..Len(acls) /\ p[2] \in 1..Len(acls[p[1]].ace)
                    BY <3>2
                <5>3. ASSUME NEW i \in 1..Len(acls), NEW j \in 1..Len(acls[i].ace), Applies(acls[i], j, pkt)
                      PROVE  ~(i < p[1] \/ (i = p[1] /\ j < p[2]))
                    <6>1. <<i, j>> \in places /\ applies(<<i, j>>, pkt)
                        BY <3>2, <5>3
                    <6>2. ~before(<<i, j>>, p)
                        <7> HIDE DEF places, before, applies
                        <7> QED BY <5>1, <6>1
                    <6> QED BY <6>2
                <5>4. FirstToApply(acls, p[1], p[2], pkt) /\ acls[p[1]].ace[p[2]].action = "Accept"
                    BY <5>1, <5>3 DEF FirstToApply
                <5> QED BY <5>2, <5>4
            <4> HIDE DEF first
            <4> QED BY <4>1, <4>2
        <3>4. \A pkt \in Packets : Decision(pkt) = "Accept" <=> first(pkt)
            <4> HIDE DEF first
            <4> QED BY <2>2, <3>1, <3>3, DecisionOfProfile
        <3> QED BY <2>2, <3>1, <3>4 DEF DecidedByFirstAce
    <2> QED BY <2>1, <2>2
<1> QED BY <1>1, ProfileSafe, PTL

(* Through download, parser, override and translation nothing becomes
   accepted: what an enforcer lets pass, the user's override or an ACE of the
   file the profile was parsed from accepts, and the latter only in an ACL the
   user did not replace. *)
THEOREM OnlyPermittedPasses == Spec => []AcceptedIsPermitted
<1>1. MudInv => AcceptedIsPermitted
    <2> SUFFICES ASSUME MudInv, mud # None, NEW pkt \in Packets, Decision(pkt) = "Accept",
                        NEW o, o = mud.acl_override, NEW overridden,
                        overridden = {o[i].name : i \in DOMAIN o}
                 PROVE  \/ \E i \in DOMAIN o : \E j \in DOMAIN o[i].ace :
                              o[i].ace[j].action = "Accept" /\ Applies(o[i], j, pkt)
                        \/ file # None /\ FileAccepts(file, overridden, pkt)
        BY DEF AcceptedIsPermitted
    <2>1. PICK acls : acls = merged_acls(mud)
        OBVIOUS
    <2>2. AclsOK(mud.acllist) /\ AclsOK(o)
        BY StoredProfile
    <2>3. PICK k \in 1..Len(acls) : \E m \in 1..Len(acls[k].ace) :
              FirstToApply(acls, k, m, pkt) /\ acls[k].ace[m].action = "Accept"
        BY <2>1, DecisionOfProfile
    <2>4. PICK m \in 1..Len(acls[k].ace) :
              FirstToApply(acls, k, m, pkt) /\ acls[k].ace[m].action = "Accept"
        BY <2>3
    <2>5. PICK acl : acl = acls[k]
        OBVIOUS
    <2>6. m \in DOMAIN acl.ace /\ Applies(acl, m, pkt) /\ acl.ace[m].action = "Accept"
        <3>1. AclsOK(acls)
            BY <2>1, <2>2, MergedAcls
        <3>2. DOMAIN acl.ace = 1..Len(acl.ace)
            BY <2>5, <3>1, AclFields
        <3> QED BY <2>4, <2>5, <3>2 DEF FirstToApply
    <2>7. CASE \E i \in 1..Len(o) : acl = o[i]
        <3>1. DOMAIN o = 1..Len(o)
            BY <2>2, AclFields
        <3> QED BY <2>6, <2>7, <3>1
    <2>8. CASE \E i \in 1..Len(mud.acllist) : acl = mud.acllist[i] /\ mud.acllist[i].name \notin overridden
        <3>1. file # None
            <4>1. Len(<<>>) = 0 /\ 1..0 = {}
                OBVIOUS
            <4> QED BY <2>8, <4>1, StoredProfile
        <3>2. FileOK(file) /\ Parsable(file) /\ mud.acllist = parse_mud(file).acllist
            BY <3>1, StoredProfile
        <3>3. FileAccepts(file, overridden, pkt)
            BY <2>6, <2>8, <3>2, FileAcceptsIt
        <3> QED BY <3>1, <3>3
    <2>9. /\ AclsOK(merged_acls(mud))
          /\ \A i \in 1..Len(merged_acls(mud)) :
                \/ \E n \in 1..Len(mud.acl_override) : merged_acls(mud)[i] = mud.acl_override[n]
                \/ \E n \in 1..Len(mud.acllist) :
                      /\ merged_acls(mud)[i] = mud.acllist[n]
                      /\ mud.acllist[n].name
                            \notin {mud.acl_override[j].name : j \in DOMAIN mud.acl_override}
        BY <2>2, MergedAcls
    <2>10. \/ \E n \in 1..Len(o) : acl = o[n]
           \/ \E n \in 1..Len(mud.acllist) : acl = mud.acllist[n] /\ mud.acllist[n].name \notin overridden
        BY <2>1, <2>5, <2>9
    <2> QED BY <2>7, <2>8, <2>10
<1> QED BY <1>1, ProfileSafe, PTL
=============================================================================
