------------------------- MODULE TransferFileProofs -------------------------
(***************************************************************************)
(* Facts about files, byte sequences and the number of chunks of a file,   *)
(* on which the proofs about both transports rest.                         *)
(***************************************************************************)
EXTENDS TransferFiles, SequenceTheorems, TLAPS

-----------------------------------------------------------------------------
(* Files.                                                                  *)

\* A file that was just created exists and is empty.
LEMMA EmptyFileFacts == EmptyFile \in File /\ Exists(EmptyFile) /\ EmptyFile.data = <<>>
<1>1. EmptyFile \in File /\ EmptyFile.data = <<>>
  BY DEF EmptyFile, File
<1> QED
  BY <1>1, FilesAssumption DEF Exists

\* Writing at the end of a file appends (protocol.py:223-224).
LEMMA WriteAtEnd ==
  ASSUME NEW f \in File, NEW d \in Seq(Byte)
  PROVE  /\ WriteAt(f, Len(f.data), d) \in File
         /\ WriteAt(f, Len(f.data), d).data = f.data \o d
<1> DEFINE n == Len(f.data)
           m == n + Len(d)
           e == [i \in 1..m |-> IF i \in n+1..m THEN d[i - n]
                                ELSE IF i <= n THEN f.data[i] ELSE Zero]
<1>1. f.data \in Seq(Byte) /\ n \in Nat /\ Len(d) \in Nat /\ m \in Nat
  BY DEF File
<1>2. m >= n /\ (n > m => FALSE)
  BY <1>1
<1>3. (IF n > m THEN n ELSE m) = m
  BY <1>1, <1>2
<1>4. WriteAt(f, n, d) = [f EXCEPT !.data = e]
  BY <1>3 DEF WriteAt
<1>5. \A i \in 1..m : e[i] = IF i <= n THEN f.data[i] ELSE d[i - n]
  BY <1>1
<1>6. e = f.data \o d
  BY <1>1, <1>5, SMTT(30)
<1>7. f.data \o d \in Seq(Byte)
  BY <1>1
<1> QED
  BY <1>4, <1>6, <1>7 DEF File

\* A power loss shortens or damages a file, never a synced one.
LEMMA TornFile ==
  ASSUME NEW f \in File \cup {Absent}, NEW g \in Torn(f)
  PROVE  /\ g \in File \cup {Absent}
         /\ Exists(g) <=> Exists(f)
         /\ Exists(f) => Len(g.data) <= Len(f.data)
         /\ Exists(f) => g.synced = Len(g.data)
         /\ Exists(f) /\ f.synced = Len(f.data) => g = f
<1>1. CASE f = Absent
  BY <1>1 DEF Torn, Exists
<1>2. CASE f # Absent
  <2>1. f \in File /\ f.data \in Seq(Byte) /\ f.synced \in Nat /\ Len(f.data) \in Nat
    BY <1>2 DEF File
  <2>2. PICK n \in f.synced..Len(f.data) :
          g \in {[data |-> d, synced |-> n] : d \in Damaged(f, n)}
    BY <1>2 DEF Torn
  <2>3. n \in Nat /\ n <= Len(f.data)
    BY <2>1
  <2>4. PICK d \in Damaged(f, n) : g = [data |-> d, synced |-> n]
    BY <2>2
  <2>5. d \in Seq(Byte) /\ Len(d) = n
    BY <2>3, <2>4 DEF Damaged
  <2>6. g \in File
    BY <2>3, <2>4, <2>5 DEF File
  <2>7. g # Absent
    BY <2>6, FilesAssumption
  <2>8. f.synced = Len(f.data) => g = f
    <3> HAVE f.synced = Len(f.data)
    <3>1. n = Len(f.data)
      BY <2>1
    <3>2. d = f.data
      BY <2>1, <2>4, <2>5, <3>1 DEF Damaged
    <3> QED
      BY <2>1, <2>4, <3>1, <3>2 DEF File
  <2> QED
    BY <1>2, <2>3, <2>4, <2>5, <2>6, <2>7, <2>8 DEF Exists
<1> QED
  BY <1>1, <1>2

\* A write that leaves no gap: the file then begins with what it began with up
\* to the offset, followed by what was written, and keeps what is beyond.
LEMMA WriteAtInside ==
  ASSUME NEW f \in File, NEW off \in Nat, NEW d \in Seq(Byte), off <= Len(f.data)
  PROVE  /\ WriteAt(f, off, d) \in File
         /\ WriteAt(f, off, d).synced = f.synced
         /\ Len(WriteAt(f, off, d).data) = IF Len(f.data) > off + Len(d) THEN Len(f.data)
                                          ELSE off + Len(d)
         /\ SubSeq(WriteAt(f, off, d).data, 1, off + Len(d)) = SubSeq(f.data, 1, off) \o d
         /\ \A i \in 1..Len(WriteAt(f, off, d).data) :
              WriteAt(f, off, d).data[i] = IF i \in off+1..off + Len(d) THEN d[i - off]
                                           ELSE f.data[i]
<1> DEFINE end == off + Len(d)
           len == IF Len(f.data) > end THEN Len(f.data) ELSE end
           e == [i \in 1..len |-> IF i \in off+1..end THEN d[i - off]
                                  ELSE IF i <= Len(f.data) THEN f.data[i] ELSE Zero]
           w == WriteAt(f, off, d)
<1>1. /\ f.data \in Seq(Byte) /\ Len(f.data) \in Nat /\ Len(d) \in Nat
      /\ end \in Nat /\ len \in Nat /\ off <= end /\ end <= len /\ Len(f.data) <= len
  BY DEF File
<1>2. w = [f EXCEPT !.data = e]
  BY DEF WriteAt
<1>3. \A i \in 1..len : e[i] = IF i \in off+1..end THEN d[i - off] ELSE f.data[i]
  BY <1>1
<1>4. \A i \in 1..len : e[i] \in Byte
  BY <1>1, <1>3
<1>5. e \in Seq(Byte) /\ Len(e) = len
  <2>1. e \in [1..len -> Byte]
    BY <1>4
  <2> HIDE DEF e, len
  <2>2. e \in Seq(Byte)
    BY <1>1, <2>1, SeqDef
  <2>3. DOMAIN e = 1..len /\ DOMAIN e = 1..Len(e) /\ Len(e) \in Nat
    BY <2>1, <2>2, LenProperties
  <2> QED
    BY <1>1, <2>2, <2>3
<1>6. w \in File /\ w.data = e /\ w.synced = f.synced
  BY <1>2, <1>5 DEF File
<1> HIDE DEF e, w
<1> DEFINE s == SubSeq(e, 1, end)
           p == SubSeq(f.data, 1, off)
<1>7. s \in Seq(Byte) /\ Len(s) = end /\ \A i \in 1..end : s[i] = e[i]
  <2>1. \A i \in 1..end : e[i] \in Byte
    BY <1>1, <1>4
  <2> QED
    BY <2>1, <1>1, <1>5, SubSeqProperties
<1>8. p \in Seq(Byte) /\ Len(p) = off /\ \A i \in 1..off : p[i] = f.data[i]
  <2>1. \A i \in 1..off : f.data[i] \in Byte
    BY <1>1
  <2> QED
    BY <2>1, <1>1, SubSeqProperties
<1>9. /\ p \o d \in Seq(Byte) /\ Len(p \o d) = end
      /\ \A i \in 1..end : (p \o d)[i] = IF i <= off THEN p[i] ELSE d[i - off]
  BY <1>8, ConcatProperties
<1> HIDE DEF s, p
<1>10. ASSUME NEW i \in 1..end PROVE s[i] = (p \o d)[i]
  <2>1. s[i] = e[i] /\ i \in 1..len
    BY <1>1, <1>7
  <2>2. CASE i <= off
    <3>1. (p \o d)[i] = f.data[i]
      BY <1>8, <1>9, <2>2
    <3>2. i \notin off+1..end
      BY <1>1, <2>2
    <3> QED
      BY <1>3, <2>1, <3>1, <3>2
  <2>3. CASE ~(i <= off)
    <3>1. (p \o d)[i] = d[i - off]
      BY <1>9, <2>3
    <3>2. i \in off+1..end
      BY <1>1, <2>3
    <3> QED
      BY <1>3, <2>1, <3>1, <3>2
  <2> QED
    BY <2>2, <2>3
<1>11. s = p \o d
  BY <1>7, <1>9, <1>10, SeqEqual
<1> QED
  BY <1>3, <1>5, <1>6, <1>11 DEF s, p, w

\* What is fsynced is on the disk, and stays what it is.
LEMMA SyncedFile ==
  ASSUME NEW f \in File
  PROVE  /\ Synced(f) \in File
         /\ Synced(f).data = f.data
         /\ Synced(f).synced = Len(f.data)
<1>1. f.data \in Seq(Byte) /\ Len(f.data) \in Nat
  BY DEF File
<1> QED
  BY <1>1 DEF Synced, File

-----------------------------------------------------------------------------
(* Byte sequences.                                                         *)

\* The beginning of a sequence.
LEMMA FirstPiece ==
  ASSUME NEW s \in Seq(Byte), NEW n \in Nat, n <= Len(s)
  PROVE  /\ SubSeq(s, 1, n) \in Seq(Byte) /\ Len(SubSeq(s, 1, n)) = n
         /\ \A i \in 1..n : SubSeq(s, 1, n)[i] = s[i]
<1>1. \A i \in 1..n : s[i] \in Byte
  OBVIOUS
<1> QED
  BY <1>1, SubSeqProperties

\* The first piece of a file one unit longer.
LEMMA LongerPiece ==
  ASSUME NEW s \in Seq(Byte), NEW n \in Nat, n < Len(s)
  PROVE  /\ s[n + 1] \in Byte
         /\ SubSeq(s, 1, n + 1) = Append(SubSeq(s, 1, n), s[n + 1])
<1> DEFINE p == SubSeq(s, 1, n)
           a == Append(p, s[n + 1])
<1>1. s[n + 1] \in Byte /\ Len(s) \in Nat
  OBVIOUS
<1>2. p \in Seq(Byte) /\ Len(p) = n /\ \A i \in 1..n : p[i] = s[i]
  BY FirstPiece
<1>3. a \in Seq(Byte) /\ Len(a) = n + 1 /\ \A i \in 1..(n + 1) : a[i] = s[i]
  BY <1>1, <1>2, AppendProperties
<1>4. SubSeq(s, 1, n + 1) \in Seq(Byte) /\ Len(SubSeq(s, 1, n + 1)) = n + 1
        /\ \A i \in 1..(n + 1) : SubSeq(s, 1, n + 1)[i] = s[i]
  BY <1>1, FirstPiece
<1> QED
  BY <1>1, <1>3, <1>4, SeqEqual

\* Two pieces of a sequence that follow each other make one.
LEMMA NextPiece ==
  ASSUME NEW s \in Seq(Byte), NEW m \in Nat, NEW n \in Nat, m + n <= Len(s)
  PROVE  /\ SubSeq(s, m + 1, m + n) \in Seq(Byte)
         /\ Len(SubSeq(s, m + 1, m + n)) = n
         /\ SubSeq(s, 1, m) \o SubSeq(s, m + 1, m + n) = SubSeq(s, 1, m + n)
<1> DEFINE a == SubSeq(s, 1, m)
           b == SubSeq(s, m + 1, m + n)
           c == SubSeq(s, 1, m + n)
<1>1. a \in Seq(Byte) /\ Len(a) = m /\ \A i \in 1..m : a[i] = s[i]
  <2>1. \A i \in 1..m : s[i] \in Byte
    OBVIOUS
  <2> QED
    BY <2>1, SubSeqProperties
<1>2. b \in Seq(Byte) /\ Len(b) = n /\ \A i \in 1..n : b[i] = s[m + i]
  <2>1. \A i \in m+1..m+n : s[i] \in Byte
    OBVIOUS
  <2>2. m + 1 \in Int /\ m + n \in Int /\ (IF m + 1 <= m + n THEN (m + n) - (m + 1) + 1 ELSE 0) = n
    OBVIOUS
  <2>3. /\ b \in Seq(Byte) /\ Len(b) = n
        /\ \A i \in 1 .. (m + n) - (m + 1) + 1 : b[i] = s[(m + 1) + i - 1]
    BY <2>1, <2>2, SubSeqProperties
  <2> HIDE DEF b
  <2> QED
    BY <2>3
<1>3. c \in Seq(Byte) /\ Len(c) = m + n /\ \A i \in 1..m+n : c[i] = s[i]
  <2>1. \A i \in 1..m+n : s[i] \in Byte
    OBVIOUS
  <2> QED
    BY <2>1, SubSeqProperties
<1>4. /\ a \o b \in Seq(Byte) /\ Len(a \o b) = m + n
      /\ \A i \in 1..m+n : (a \o b)[i] = IF i <= m THEN a[i] ELSE b[i - m]
  BY <1>1, <1>2, ConcatProperties
<1> HIDE DEF a, b, c
<1>5. ASSUME NEW i \in 1..m+n PROVE (a \o b)[i] = c[i]
  <2>1. CASE i <= m
    BY <1>1, <1>3, <1>4, <2>1
  <2>2. CASE ~(i <= m)
    <3>1. (a \o b)[i] = b[i - m] /\ i - m \in 1..n
      BY <1>4, <2>2
    <3> QED
      BY <1>2, <1>3, <3>1
  <2> QED
    BY <2>1, <2>2
<1>6. a \o b = c
  BY <1>3, <1>4, <1>5, SeqEqual
<1> QED
  BY <1>2, <1>6 DEF a, b, c

\* A file that is a beginning of p stays one when the next piece of p, or a
\* part of it, is written at its place.
LEMMA WritePrefix ==
  ASSUME NEW p \in Seq(Byte), NEW f \in File,
         Len(f.data) <= Len(p), f.data = SubSeq(p, 1, Len(f.data)),
         NEW off \in Nat, off <= Len(f.data),
         NEW c \in Seq(Byte), off + Len(c) <= Len(p),
         SubSeq(p, 1, off) \o c = SubSeq(p, 1, off + Len(c)),
         NEW n \in 0..Len(c)
  PROVE  /\ Len(f.data) <= Len(WriteAt(f, off, SubSeq(c, 1, n)).data)
         /\ Len(WriteAt(f, off, SubSeq(c, 1, n)).data) <= Len(p)
         /\ WriteAt(f, off, SubSeq(c, 1, n)).data
              = SubSeq(p, 1, Len(WriteAt(f, off, SubSeq(c, 1, n)).data))
<1> DEFINE d == SubSeq(c, 1, n)
           w == WriteAt(f, off, d)
           q == SubSeq(p, 1, Len(w.data))
<1>1. /\ f.data \in Seq(Byte) /\ Len(f.data) \in Nat /\ Len(c) \in Nat /\ Len(p) \in Nat
      /\ n \in Nat /\ n <= Len(c)
  BY DEF File
<1>2. d \in Seq(Byte) /\ Len(d) = n /\ \A i \in 1..n : d[i] = c[i]
  BY <1>1, FirstPiece
<1>3. ASSUME NEW i \in 1..Len(c) PROVE c[i] = p[off + i]
  <2>1. off + i \in 1..off + Len(c) /\ off + Len(c) \in Nat
    BY <1>1
  <2>2. SubSeq(p, 1, off + Len(c))[off + i] = p[off + i]
    BY <2>1, FirstPiece
  <2>3. SubSeq(p, 1, off) \in Seq(Byte) /\ Len(SubSeq(p, 1, off)) = off
    BY <1>1, FirstPiece
  <2>4. (SubSeq(p, 1, off) \o c)[off + i] = c[i]
    BY <1>1, <2>1, <2>3, ConcatProperties
  <2> QED
    BY <2>2, <2>4
<1>4. \A i \in 1..Len(f.data) : f.data[i] = p[i]
  BY <1>1, FirstPiece
<1> HIDE DEF d
<1>5. /\ w \in File
      /\ Len(w.data) = IF Len(f.data) > off + n THEN Len(f.data) ELSE off + n
      /\ \A i \in 1..Len(w.data) :
           w.data[i] = IF i \in off+1..off + n THEN d[i - off] ELSE f.data[i]
  <2>1. /\ w \in File
        /\ Len(w.data) = IF Len(f.data) > off + Len(d) THEN Len(f.data) ELSE off + Len(d)
        /\ \A i \in 1..Len(w.data) :
             w.data[i] = IF i \in off+1..off + Len(d) THEN d[i - off] ELSE f.data[i]
    <3>1. f \in File /\ off \in Nat /\ d \in Seq(Byte) /\ off <= Len(f.data)
      BY <1>2
    <3> QED
      BY ONLY <3>1, WriteAtInside
  <2> QED
    BY <1>2, <2>1
<1> HIDE DEF w
<1>6. Len(w.data) \in Nat /\ Len(f.data) <= Len(w.data) /\ Len(w.data) <= Len(p)
        /\ w.data \in Seq(Byte)
  BY <1>1, <1>5 DEF File
<1>7. q \in Seq(Byte) /\ Len(q) = Len(w.data) /\ \A i \in 1..Len(w.data) : q[i] = p[i]
  BY <1>6, FirstPiece
<1> HIDE DEF q
<1>8. ASSUME NEW i \in 1..Len(w.data) PROVE w.data[i] = p[i]
  <2>1. CASE i \in off+1..off + n
    <3>1. i - off \in 1..n /\ i - off \in 1..Len(c) /\ off + (i - off) = i
      BY <1>1, <2>1
    <3>2. w.data[i] = c[i - off]
      BY <1>2, <1>5, <2>1, <3>1
    <3> QED
      BY <1>3, <3>1, <3>2
  <2>2. CASE i \notin off+1..off + n
    <3>1. i \in 1..Len(f.data)
      BY <1>1, <1>5, <1>6, <2>2
    <3> QED
      BY <1>4, <1>5, <2>2, <3>1
  <2> QED
    BY <2>1, <2>2
<1>9. w.data = q
  BY <1>6, <1>7, <1>8, SeqEqual
<1> QED
  BY <1>6, <1>9 DEF q, w, d

-----------------------------------------------------------------------------
(* The number of chunks of a size.                                         *)

\* The quotient that is rounded up: the only number of chunks of k units that
\* are enough for s units, the last of them not empty.
LEMMA CeilingDivision ==
  ASSUME NEW s \in Nat, NEW k \in Nat \ {0}
  PROVE  LET q == (s + k - 1) \div k
         IN  /\ q \in Nat
             /\ s <= q * k
             /\ q * k < s + k
<1> DEFINE q == (s + k - 1) \div k
<1>1. s + k - 1 \in Nat
  OBVIOUS
<1>2. q \in Int /\ q * k <= s + k - 1 /\ s + k - 1 < q * k + k
  BY <1>1, Z3
<1> QED
  BY <1>1, <1>2, Z3

\* Fewer chunks are fewer units.
LEMMA TimesMonotonic ==
  ASSUME NEW i \in Nat, NEW j \in Nat, NEW k \in Nat, i <= j
  PROVE  /\ i * k \in Nat /\ j * k \in Nat /\ i * k <= j * k
         /\ (i + 1) * k = i * k + k
BY Z3
=============================================================================
