----------------------------- MODULE ProtoIOProofs -----------------------------
(***************************************************************************)
(* Theorems about ProtoIO for every number of values of a byte, any        *)
(* messages whose length fits in four bytes, any buffer of the reader and  *)
(* any number of records.  What is read is what was written where no byte  *)
(* of a length is negative as a char: with any messages if char is         *)
(* unsigned, with those whose lengths have small bytes if it is signed.    *)
(***************************************************************************)
EXTENDS ProtoIO, SequenceTheorems, TLAPS

\* No byte of the length of a message changes when it is read as a char.
NoByteIsNegative ==
    \A m \in Messages : \A i \in 1..4 : FromChar(Encode(Len(m))[i]) = Encode(Len(m))[i]

\* Where record k begins in the file.
Start(k) == IF k = 1 THEN 0 ELSE ends[k - 1]

\* Record k is its length and its message, as far as the file goes.
Record(k) ==
    /\ ends[k] = Start(k) + 4 + Len(written[k])
    /\ \A i \in 1..4 :
           Start(k) + i <= Len(file) => file[Start(k) + i] = Encode(Len(written[k]))[i]
    /\ \A i \in 1..Len(written[k]) :
           Start(k) + 4 + i <= Len(file) => file[Start(k) + 4 + i] = written[k][i]

\* The file ends with the last record or, after a crash, before that.
Records ==
    /\ \A k \in 1..Len(written) : Record(k)
    /\ Len(file) <= Start(Len(written) + 1)
    /\ writer # "crashed" =>
           /\ Len(file) = Start(Len(written) + 1)
           /\ \A k \in 1..Len(written) : Whole(k)

\* The reader waits for the writer.
NotYetRead == writer = "open" => pos = 0 /\ reader = "reads" /\ read = <<>>

\* The reader stands between two records.
Reading == reader = "reads" => pos = Start(Len(read) + 1)

IndInv == TypeOK /\ NotYetRead /\ Records /\ Reading /\ ReadsWhatWasWritten

-------------------------------------------------------------------------------
\* Lemmas on the operators of the model.

LEMMA Constants ==
  /\ Base \in Nat \ {0, 1} /\ Base2 \in Nat \ {0} /\ Base3 \in Nat \ {0}
  /\ 0 \in Byte /\ Byte \subseteq Int
  /\ MaxRecords \in Nat /\ kMaxDataRead \in Nat
<1>1. Base \in Nat \ {0, 1}
  BY ProtoIOAssumption
<1>2. Base2 \in Nat \ {0}
  BY <1>1 DEF Base2
<1>3. Base3 \in Nat \ {0}
  BY <1>1, <1>2 DEF Base3
<1>. QED BY <1>1, <1>2, <1>3, ProtoIOAssumption DEF Byte

\* A message is a sequence of bytes, and its length fits in four of them.
LEMMA MessageProperties ==
  ASSUME NEW m \in Messages
  PROVE  m \in Seq(Byte) /\ Len(m) \in Nat /\ Len(m) < Base3 * Base
BY ProtoIOAssumption

\* Division with remainder.
LEMMA Digit ==
  ASSUME NEW b \in Nat \ {0}, NEW n \in Nat
  PROVE  n = (n % b) + (n \div b) * b /\ n \div b \in Nat /\ n % b \in 0..b - 1
OBVIOUS

LEMMA LastDigit ==
  ASSUME NEW b \in Nat \ {0}, NEW n \in Nat, NEW q, q = n \div b
  PROVE  \E d \in Nat : d = n % b /\ n = d + q * b
<1>1. n % b \in Nat /\ n = (n % b) + q * b
  BY Digit
<1>. QED BY <1>1

LEMMA DivSmaller ==
  ASSUME NEW b \in Nat \ {0}, NEW c \in Nat, NEW n \in Nat, n < c * b
  PROVE  n \div b < c
OBVIOUS

LEMMA DivDiv ==
  ASSUME NEW b \in Nat \ {0}, NEW c \in Nat \ {0}, NEW n \in Nat
  PROVE  n \div (b * c) = (n \div b) \div c
OBVIOUS

LEMMA EncodeType ==
  ASSUME NEW n \in Nat
  PROVE  Encode(n) \in Seq(Byte) /\ Len(Encode(n)) = 4
<1>. n \div Base \in Nat /\ n \div Base2 \in Nat /\ n \div Base3 \in Nat
  BY Constants, Digit
<1>. QED BY Constants, Digit DEF Encode, Byte

LEMMA Horner ==
  ASSUME NEW d1 \in Nat, NEW d2 \in Nat, NEW d3 \in Nat,
         NEW r1 \in Nat, NEW r2 \in Nat, NEW r3 \in Nat, NEW n,
         n = d1 + r1 * Base, r1 = d2 + r2 * Base, r2 = d3 + r3 * Base
  PROVE  n = d1 + d2 * Base + d3 * Base2 + r3 * Base3
<1>1. r1 * Base = d2 * Base + r2 * Base2
  BY Constants DEF Base2
<1>2. r2 * Base2 = d3 * Base2 + r3 * Base3
  BY Constants DEF Base3
<1>. QED BY <1>1, <1>2, Constants

\* The four bytes are the digits of the length.
LEMMA EncodeDigits ==
  ASSUME NEW n \in Nat, n < Base3 * Base
  PROVE  n = Encode(n)[1] + Encode(n)[2] * Base + Encode(n)[3] * Base2 + Encode(n)[4] * Base3
<1>1. PICK q1 \in Nat : q1 = n \div Base
  BY Constants, Digit
<1>2. PICK q2 \in Nat : q2 = q1 \div Base
  BY Constants, Digit
<1>3. PICK q3 \in Nat : q3 = q2 \div Base
  BY Constants, Digit
<1>4. n \div Base2 = q2
  BY <1>1, <1>2, Constants, DivDiv DEF Base2
<1>5. n \div Base3 = q3
  <2>1. n \div (Base2 * Base) = (n \div Base2) \div Base
    BY Constants, DivDiv
  <2>. QED BY <2>1, <1>3, <1>4 DEF Base3
<1>6. q3 % Base = q3
  <2>1. Base3 * Base = Base * Base3
    BY Constants
  <2>2. n \div Base3 < Base
    BY <2>1, Constants, DivSmaller
  <2>. QED BY <2>2, <1>5, Constants
<1>7. PICK d1 \in Nat : d1 = n % Base /\ n = d1 + q1 * Base
  BY <1>1, Constants, LastDigit
<1>8. PICK d2 \in Nat : d2 = q1 % Base /\ q1 = d2 + q2 * Base
  BY <1>2, Constants, LastDigit
<1>9. PICK d3 \in Nat : d3 = q2 % Base /\ q2 = d3 + q3 * Base
  BY <1>3, Constants, LastDigit
<1>10. Encode(n)[1] = d1 /\ Encode(n)[2] = d2 /\ Encode(n)[3] = d3 /\ Encode(n)[4] = q3
  BY <1>1, <1>4, <1>5, <1>6, <1>7, <1>8, <1>9 DEF Encode
<1>11. n = d1 + d2 * Base + d3 * Base2 + q3 * Base3
  BY <1>7, <1>8, <1>9, Horner
<1>. QED BY <1>10, <1>11

\* What is decoded is what was encoded, if no byte counts as negative.
LEMMA DecodeOfEncode ==
  ASSUME NoByteIsNegative, NEW m \in Messages, NEW n, n = Len(m),
         NEW s, \A i \in 1..4 : s[i] = Encode(n)[i]
  PROVE  Decode(s) = n
<1>1. /\ FromChar(s[1]) = Encode(n)[1] /\ FromChar(s[2]) = Encode(n)[2]
      /\ FromChar(s[3]) = Encode(n)[3] /\ FromChar(s[4]) = Encode(n)[4]
  BY DEF NoByteIsNegative
<1>2. n \in Nat /\ n < Base3 * Base
  BY MessageProperties
<1>. QED BY <1>1, <1>2, EncodeDigits DEF Decode

\* A record that WriteProto adds is found where the file ended: h is f, e and m.
Joined(h, f, e, m) ==
    /\ h \in Seq(Byte) /\ Len(h) = Len(f) + 4 + Len(m)
    /\ \A j \in 1..Len(h) :
          h[j] = IF j <= Len(f) THEN f[j]
                 ELSE IF j <= Len(f) + 4 THEN e[j - Len(f)] ELSE m[j - (Len(f) + 4)]

LEMMA WrittenRecord ==
  ASSUME NEW f \in Seq(Byte), NEW e \in Seq(Byte), NEW m \in Seq(Byte), Len(e) = 4,
         NEW h, h = f \o e \o m
  PROVE  Joined(h, f, e, m)
<1>1. Len(f) \in Nat /\ Len(m) \in Nat
  OBVIOUS
<1>2. PICK g \in Seq(Byte) : g = f \o e
  BY ConcatProperties
<1>3. /\ Len(g) = Len(f) + Len(e)
      /\ \A j \in 1..Len(f) + Len(e) : g[j] = IF j <= Len(f) THEN f[j] ELSE e[j - Len(f)]
  BY <1>2, ConcatProperties
<1>4. h = g \o m
  BY <1>2
<1>5. /\ h \in Seq(Byte) /\ Len(h) = Len(g) + Len(m)
      /\ \A j \in 1..Len(g) + Len(m) : h[j] = IF j <= Len(g) THEN g[j] ELSE m[j - Len(g)]
  BY <1>4, ConcatProperties
<1>. QED BY <1>1, <1>3, <1>5 DEF Joined

\* The four bytes at the reader's position, and what follows.
LEMMA ReaderProperties ==
  ASSUME TypeOK, Left >= 4
  PROVE  /\ \A i \in 1..4 : SubSeq(file, pos + 1, pos + 4)[i] = file[pos + i]
         /\ length \in Int
<1>1. pos \in Nat /\ Len(file) \in Nat /\ pos + 4 <= Len(file)
  BY DEF TypeOK, Left
<1>2. \A i \in pos + 1..pos + 4 : file[i] \in Byte
  BY <1>1 DEF TypeOK
<1>3. \A i \in 1..pos + 4 - (pos + 1) + 1 :
         SubSeq(file, pos + 1, pos + 4)[i] = file[pos + 1 + i - 1]
  BY <1>1, <1>2, SubSeqProperties
<1>4. ASSUME NEW i \in 1..4
      PROVE  SubSeq(file, pos + 1, pos + 4)[i] = file[pos + i]
             /\ SubSeq(file, pos + 1, pos + 4)[i] \in Int
  <2>1. i \in 1..pos + 4 - (pos + 1) + 1 /\ pos + 1 + i - 1 = pos + i
        /\ pos + i \in pos + 1..pos + 4
    BY <1>1
  <2>. QED BY <2>1, <1>2, <1>3, Constants
<1>5. ASSUME NEW b \in Int PROVE FromChar(b) \in Int
  BY <1>5, Constants DEF FromChar
<1>6. length \in Int
  <2>1. PICK s : s = SubSeq(file, pos + 1, pos + 4)
    OBVIOUS
  <2>. 1 \in 1..4 /\ 2 \in 1..4 /\ 3 \in 1..4 /\ 4 \in 1..4
    OBVIOUS
  <2>2. s[1] \in Int /\ s[2] \in Int /\ s[3] \in Int /\ s[4] \in Int
    <3>1. \A i \in 1..4 : s[i] \in Int
      BY <2>1, <1>4
    <3>. QED BY <3>1
  <2>3. /\ FromChar(s[1]) \in Int /\ FromChar(s[2]) \in Int
        /\ FromChar(s[3]) \in Int /\ FromChar(s[4]) \in Int
    BY <2>2, <1>5
  <2>4. Decode(s) \in Int
    BY <2>3, Constants DEF Decode
  <2>. QED BY <2>1, <2>4 DEF length
<1>. QED BY <1>4, <1>6

LEMMA DataProperties ==
  ASSUME TypeOK, Left >= 4, Acceptable
  PROVE  /\ length \in Nat /\ pos + 4 + length <= Len(file)
         /\ data \in Seq(Byte) /\ Len(data) = length
         /\ \A k \in 1..length : data[k] = file[pos + 4 + k]
<1>1. pos \in Nat /\ Len(file) \in Nat
  BY DEF TypeOK
<1>2. PICK n \in Nat : n = length
  BY ReaderProperties DEF Acceptable
<1>3. n <= Left - 4 /\ pos + 4 + n <= Len(file)
  BY <1>1, <1>2 DEF Acceptable, Left
<1>4. \A k \in 1..n : 4 + k <= Left /\ pos + 4 + k \in 1..Len(file)
  BY <1>1, <1>3 DEF Left
<1>5. \A k \in 1..n : file[pos + 4 + k] \in Byte
  <2>1. \A j \in 1..Len(file) : file[j] \in Byte
    BY ElementOfSeq DEF TypeOK
  <2>. QED BY <2>1, <1>4
<1>6. data = [k \in 1..n |-> file[pos + 4 + k]]
  BY <1>2, <1>4 DEF data
<1>7. data \in Seq(Byte) /\ Len(data) = n
  <2>1. data \in [1..n -> Byte]
    BY <1>5, <1>6
  <2>. QED BY <2>1
<1>. QED BY <1>2, <1>3, <1>6, <1>7

-------------------------------------------------------------------------------
\* Types.

LEMMA InitTypeOK == Init => TypeOK /\ NotYetRead
BY Constants DEF Init, TypeOK, NotYetRead

\* What WriteProto does to the three sequences.
LEMMA WriteProtoProperties ==
  ASSUME TypeOK, NEW m \in Messages, WriteProto(m)
  PROVE  /\ file' \in Seq(Byte) /\ Len(file') = Len(file) + 4 + Len(m)
         /\ \A j \in 1..Len(file) : file'[j] = file[j]
         /\ \A i \in 1..4 : file'[Len(file) + i] = Encode(Len(m))[i]
         /\ \A i \in 1..Len(m) : file'[Len(file) + 4 + i] = m[i]
         /\ written' \in Seq(Messages) /\ Len(written') = Len(written) + 1
         /\ \A k \in 1..Len(written) : written'[k] = written[k]
         /\ written'[Len(written) + 1] = m
         /\ ends' \in Seq(Nat) /\ Len(ends') = Len(written) + 1
         /\ \A k \in 1..Len(written) : ends'[k] = ends[k]
         /\ ends'[Len(written) + 1] = Len(file')
<1>1. m \in Seq(Byte) /\ Encode(Len(m)) \in Seq(Byte) /\ Len(Encode(Len(m))) = 4
  BY MessageProperties, EncodeType
<1>2. /\ file' \in Seq(Byte) /\ Len(file') = Len(file) + 4 + Len(m)
      /\ \A j \in 1..Len(file) : file'[j] = file[j]
      /\ \A i \in 1..4 : file'[Len(file) + i] = Encode(Len(m))[i]
      /\ \A i \in 1..Len(m) : file'[Len(file) + 4 + i] = m[i]
  <2>1. file \in Seq(Byte) /\ file' = file \o Encode(Len(m)) \o m
    BY DEF TypeOK, WriteProto
  <2>2. PICK e \in Seq(Byte) : e = Encode(Len(m)) /\ Len(e) = 4
    BY <1>1
  <2>3. PICK h : h = file' /\ h = file \o e \o m
    BY <2>1, <2>2
  <2>4. Joined(h, file, e, m)
    BY <2>1, <2>2, <2>3, <1>1, WrittenRecord
  <2>5. Len(file) \in Nat /\ Len(m) \in Nat
    BY <2>1, <1>1
  <2>6. \A j \in 1..Len(file) : h[j] = file[j]
    BY <2>4, <2>5 DEF Joined
  <2>7. ASSUME NEW i \in 1..4 PROVE h[Len(file) + i] = e[i]
    <3>1. /\ Len(file) + i \in 1..Len(h) /\ ~(Len(file) + i <= Len(file))
          /\ Len(file) + i <= Len(file) + 4 /\ Len(file) + i - Len(file) = i
      BY <2>4, <2>5 DEF Joined
    <3>. QED BY <3>1, <2>4 DEF Joined
  <2>8. ASSUME NEW i \in 1..Len(m) PROVE h[Len(file) + 4 + i] = m[i]
    <3>1. /\ Len(file) + 4 + i \in 1..Len(h) /\ ~(Len(file) + 4 + i <= Len(file))
          /\ ~(Len(file) + 4 + i <= Len(file) + 4)
          /\ Len(file) + 4 + i - (Len(file) + 4) = i
      BY <2>4, <2>5 DEF Joined
    <3>. QED BY <3>1, <2>4 DEF Joined
  <2>. QED BY <2>2, <2>3, <2>4, <2>6, <2>7, <2>8 DEF Joined
<1>3. /\ written' \in Seq(Messages) /\ Len(written') = Len(written) + 1
      /\ \A k \in 1..Len(written) : written'[k] = written[k]
      /\ written'[Len(written) + 1] = m
  BY AppendProperties DEF TypeOK, WriteProto
<1>4. Len(file') \in Nat
  BY <1>2
<1>5. ends' = Append(ends, Len(file')) /\ ends \in Seq(Nat) /\ Len(ends) = Len(written)
  BY DEF TypeOK, WriteProto
<1>6. /\ ends' \in Seq(Nat) /\ Len(ends') = Len(ends) + 1
      /\ \A k \in 1..Len(ends) : ends'[k] = ends[k]
      /\ ends'[Len(ends) + 1] = Len(file')
  BY <1>4, <1>5, AppendProperties
<1>. QED BY <1>2, <1>3, <1>5, <1>6

\* What is left of the file after a crash.
LEMMA CrashProperties ==
  ASSUME TypeOK, Crash
  PROVE  /\ file' \in Seq(Byte) /\ Len(file') <= Len(file)
         /\ \A j \in 1..Len(file') : file'[j] = file[j]
<1>1. PICK n \in 0..Len(file) : file' = SubSeq(file, 1, n)
  BY DEF Crash
<1>2. Len(file) \in Nat /\ \A j \in 1..n : file[j] \in Byte
  BY DEF TypeOK
<1>3. /\ file' \in Seq(Byte)
      /\ Len(file') = IF 1 <= n THEN n - 1 + 1 ELSE 0
      /\ \A j \in 1..n - 1 + 1 : file'[j] = file[1 + j - 1]
  BY <1>1, <1>2, SubSeqProperties
<1>. QED BY <1>2, <1>3

LEMMA NextNotYetRead == NotYetRead /\ [Next]_vars => NotYetRead'
BY DEF NotYetRead, Next, vars, WriteProto, Close, Crash, ReadProto, ReadEnd, ReadAborts, Reads

LEMMA NextTypeOK == TypeOK /\ NotYetRead /\ [Next]_vars => TypeOK'
<1>. SUFFICES ASSUME TypeOK, NotYetRead, [Next]_vars PROVE TypeOK'
  OBVIOUS
<1>1. ASSUME NEW m \in Messages, WriteProto(m) PROVE TypeOK'
  <2>1. pos' = pos /\ writer' = writer /\ reader' = reader /\ read' = read
    BY <1>1 DEF WriteProto
  <2>2. Len(file) \in Nat /\ Len(m) \in Nat /\ Len(file) <= Len(file')
    BY <1>1, WriteProtoProperties, MessageProperties DEF TypeOK
  <2>3. pos' \in 0..Len(file')
    BY <2>1, <2>2 DEF TypeOK
  <2>4. Len(written') <= MaxRecords
    <3>1. Len(written') = Len(written) + 1 /\ Len(written) \in Nat
      BY <1>1, WriteProtoProperties DEF TypeOK
    <3>. QED BY <1>1, <3>1, Constants DEF WriteProto
  <2>. QED BY <1>1, <2>1, <2>3, <2>4, WriteProtoProperties DEF TypeOK
<1>2. CASE Close
  BY <1>2 DEF Close, TypeOK
<1>3. CASE Crash
  <2>1. file' \in Seq(Byte) /\ Len(file') \in Nat
    BY <1>3, CrashProperties
  <2>2. pos = 0 /\ pos' = pos
    BY <1>3 DEF Crash, NotYetRead
  <2>. QED BY <1>3, <2>1, <2>2 DEF Crash, TypeOK
<1>4. CASE ReadProto
  <2>1. /\ length \in Nat /\ pos + 4 + length <= Len(file) /\ data \in Seq(Byte)
    BY <1>4, DataProperties DEF ReadProto
  <2>2. pos' \in 0..Len(file)
    BY <1>4, <2>1 DEF ReadProto, TypeOK
  <2>3. read' \in Seq(Seq(Byte)) /\ reader' \in {"reads", "ended", "aborted"}
    BY <1>4, <2>1, AppendProperties DEF ReadProto, TypeOK
  <2>. QED BY <1>4, <2>2, <2>3 DEF ReadProto, TypeOK
<1>5. CASE ReadEnd
  BY <1>5 DEF ReadEnd, TypeOK
<1>6. CASE ReadAborts
  BY <1>6 DEF ReadAborts, TypeOK
<1>7. CASE UNCHANGED vars
  BY <1>7 DEF vars, TypeOK
<1>. QED BY <1>1, <1>2, <1>3, <1>4, <1>5, <1>6, <1>7 DEF Next

-------------------------------------------------------------------------------
\* The layout of the file.

LEMMA StartType ==
  ASSUME TypeOK, NEW k \in 1..Len(written) + 1
  PROVE  Start(k) \in Nat
<1>1. Len(written) \in Nat /\ k \in Nat
  BY DEF TypeOK
<1>2. CASE k = 1
  BY <1>2 DEF Start
<1>3. CASE k # 1
  <2>1. k - 1 \in 1..Len(ends)
    BY <1>1, <1>3 DEF TypeOK
  <2>. QED BY <2>1, <1>3 DEF Start, TypeOK
<1>. QED BY <1>2, <1>3

LEMMA WriteProtoRecords ==
  ASSUME TypeOK, Records, NEW m \in Messages, WriteProto(m)
  PROVE  Records'
<1>1. PICK n \in Nat : n = Len(written)
  BY DEF TypeOK
<1>2. /\ Len(file) \in Nat /\ Len(m) \in Nat /\ Len(file') = Len(file) + 4 + Len(m)
  BY WriteProtoProperties, MessageProperties DEF TypeOK
<1>3. /\ writer = "open" /\ writer' = "open"
      /\ Len(file) = Start(n + 1) /\ \A k \in 1..n : Record(k) /\ Whole(k)
  BY <1>1 DEF Records, WriteProto
<1>4. /\ Len(written') = n + 1 /\ written'[n + 1] = m /\ ends'[n + 1] = Len(file')
      /\ \A k \in 1..n : written'[k] = written[k] /\ ends'[k] = ends[k]
      /\ \A j \in 1..Len(file) : file'[j] = file[j]
      /\ \A i \in 1..4 : file'[Len(file) + i] = Encode(Len(m))[i]
      /\ \A i \in 1..Len(m) : file'[Len(file) + 4 + i] = m[i]
  BY <1>1, WriteProtoProperties
<1>5. ASSUME NEW k \in 1..n + 1 PROVE Start(k)' = Start(k) /\ Start(k) \in Nat
  <2>1. Start(k) \in Nat
    BY <1>1, StartType
  <2>2. k # 1 => k - 1 \in 1..n
    BY <1>1
  <2>. QED BY <2>1, <2>2, <1>4 DEF Start
<1>6. ASSUME NEW k \in 1..n PROVE Record(k)' /\ Whole(k)'
  <2>1. PICK p \in Nat : p = Start(k) /\ p = Start(k)'
    <3>1. k \in 1..n + 1
      OBVIOUS
    <3>. QED BY <3>1, <1>5
  <2>2. PICK l \in Nat : l = Len(written[k])
    <3>1. written[k] \in Messages
      BY <1>1 DEF TypeOK
    <3>. QED BY <3>1, MessageProperties
  <2>3. /\ ends[k] = p + 4 + l /\ ends[k] <= Len(file)
        /\ \A i \in 1..4 : p + i <= Len(file) => file[p + i] = Encode(l)[i]
        /\ \A i \in 1..l : p + 4 + i <= Len(file) => file[p + 4 + i] = written[k][i]
    BY <1>3, <2>1, <2>2 DEF Record, Whole
  <2>4. written'[k] = written[k] /\ ends'[k] = ends[k]
    BY <1>4
  <2>5. ASSUME NEW i \in 1..4 PROVE file'[p + i] = Encode(l)[i]
    <3>1. p + i \in 1..Len(file) /\ p + i <= Len(file)
      BY <1>2, <2>3
    <3>. QED BY <3>1, <2>3, <1>4
  <2>6. ASSUME NEW i \in 1..l PROVE file'[p + 4 + i] = written[k][i]
    <3>1. p + 4 + i \in 1..Len(file) /\ p + 4 + i <= Len(file)
      BY <1>2, <2>3
    <3>. QED BY <3>1, <2>3, <1>4
  <2>7. p + 4 + l <= Len(file')
    BY <1>2, <2>3
  <2>. QED BY <2>1, <2>2, <2>3, <2>4, <2>5, <2>6, <2>7 DEF Record, Whole
<1>7. Record(n + 1)' /\ Whole(n + 1)'
  <2>1. PICK k : k = n + 1
    OBVIOUS
  <2>2. PICK p \in Nat : p = Len(file) /\ p = Start(k)'
    <3>1. k \in 1..n + 1
      BY <2>1
    <3>. QED BY <2>1, <3>1, <1>2, <1>3, <1>5
  <2>3. PICK l \in Nat : l = Len(m)
    BY <1>2
  <2>4. /\ Len(file') = p + 4 + l /\ written'[k] = m /\ ends'[k] = p + 4 + l
        /\ \A i \in 1..4 : file'[p + i] = Encode(l)[i]
        /\ \A i \in 1..l : file'[p + 4 + i] = m[i]
    BY <2>1, <2>2, <2>3, <1>2, <1>4
  <2>5. Record(k)' /\ Whole(k)'
    BY <2>2, <2>3, <2>4 DEF Record, Whole
  <2>. QED BY <2>1, <2>5
<1>8. Start(n + 1 + 1)' = Len(file')
  <2>1. PICK k : k = n + 1 + 1 /\ k # 1 /\ k - 1 = n + 1
    OBVIOUS
  <2>2. Start(k)' = Len(file')
    BY <2>1, <1>4 DEF Start
  <2>. QED BY <2>1, <2>2
<1>9. ASSUME NEW k \in 1..n + 1 PROVE Record(k)' /\ Whole(k)'
  <2>1. k \in 1..n \/ k = n + 1
    OBVIOUS
  <2>. QED BY <2>1, <1>6, <1>7
<1>10. Len(file') <= Start(n + 1 + 1)'
  <2>1. Len(file') \in Nat
    BY <1>2
  <2>. QED BY <1>8, <2>1
<1>. QED BY <1>3, <1>4, <1>8, <1>9, <1>10 DEF Records

LEMMA CrashRecords ==
  ASSUME TypeOK, Records, Crash
  PROVE  Records'
<1>1. /\ Len(file) \in Nat /\ Len(file') \in Nat /\ Len(file') <= Len(file)
      /\ \A j \in 1..Len(file') : file'[j] = file[j]
  BY CrashProperties DEF TypeOK
<1>2. /\ writer' = "crashed" /\ written' = written /\ ends' = ends
      /\ Len(file) = Start(Len(written) + 1) /\ \A k \in 1..Len(written) : Record(k)
  BY DEF Crash, Records
<1>3. \A k : Start(k)' = Start(k)
  BY <1>2 DEF Start
<1>4. ASSUME NEW k \in 1..Len(written) PROVE Record(k)'
  <2>1. /\ ends[k] = Start(k) + 4 + Len(written[k])
        /\ \A i \in 1..4 :
              Start(k) + i <= Len(file) => file[Start(k) + i] = Encode(Len(written[k]))[i]
        /\ \A i \in 1..Len(written[k]) :
              Start(k) + 4 + i <= Len(file) => file[Start(k) + 4 + i] = written[k][i]
    BY <1>2 DEF Record
  <2>2. Start(k) \in Nat /\ Len(written[k]) \in Nat
    <3>1. Len(written) \in Nat /\ written[k] \in Messages
      BY DEF TypeOK
    <3>2. k \in 1..Len(written) + 1
      BY <3>1
    <3>. QED BY <3>1, <3>2, StartType, MessageProperties
  <2>3. ASSUME NEW i \in 1..4, Start(k) + i <= Len(file')
        PROVE  file'[Start(k) + i] = Encode(Len(written[k]))[i]
    <3>1. Start(k) + i \in 1..Len(file') /\ Start(k) + i <= Len(file)
      BY <1>1, <2>2, <2>3
    <3>. QED BY <3>1, <2>1, <1>1
  <2>4. ASSUME NEW i \in 1..Len(written[k]), Start(k) + 4 + i <= Len(file')
        PROVE  file'[Start(k) + 4 + i] = written[k][i]
    <3>1. Start(k) + 4 + i \in 1..Len(file') /\ Start(k) + 4 + i <= Len(file)
      BY <1>1, <2>2, <2>4
    <3>. QED BY <3>1, <2>1, <1>1
  <2>. QED BY <1>2, <1>3, <2>1, <2>3, <2>4 DEF Record
<1>5. Len(file') <= Start(Len(written) + 1)
  BY <1>1, <1>2
<1>. QED BY <1>2, <1>3, <1>4, <1>5 DEF Records

\* The layout holds as long as the file and what was written stay the same.
LEMMA SameRecords ==
  ASSUME Records, UNCHANGED <<file, written, ends>>, writer' = "crashed" => writer = "crashed",
         writer' # "crashed" => writer # "crashed"
  PROVE  Records'
<1>1. \A k : Start(k)' = Start(k) /\ Whole(k)' = Whole(k)
  BY DEF Start, Whole
<1>2. \A k : Record(k)' = Record(k)
  BY <1>1 DEF Record
<1>. QED BY <1>1, <1>2 DEF Records

LEMMA NextRecords == TypeOK /\ Records /\ [Next]_vars => Records'
<1>. SUFFICES ASSUME TypeOK, Records, [Next]_vars PROVE Records'
  OBVIOUS
<1>1. ASSUME NEW m \in Messages, WriteProto(m) PROVE Records'
  BY <1>1, WriteProtoRecords
<1>2. CASE Crash
  BY <1>2, CrashRecords
<1>3. CASE Close \/ ReadProto \/ ReadEnd \/ ReadAborts \/ UNCHANGED vars
  <2>1. /\ UNCHANGED <<file, written, ends>>
        /\ writer' = "crashed" => writer = "crashed"
        /\ writer' # "crashed" => writer # "crashed"
    BY <1>3 DEF Close, ReadProto, ReadEnd, ReadAborts, vars
  <2>. QED BY <2>1, SameRecords
<1>. QED BY <1>1, <1>2, <1>3 DEF Next

-------------------------------------------------------------------------------
\* Reading.

\* Where the reader finds four bytes there is a record, and they are the length of its
\* message; if it can take them the message follows.
LEMMA NextRecord ==
  ASSUME NoByteIsNegative, TypeOK, Records, Reading, Len(read) <= Len(written),
         reader = "reads", Left >= 4,
         NEW k, k = Len(read) + 1
  PROVE  /\ k \in 1..Len(written) /\ length = Len(written[k])
         /\ pos = Start(k) /\ ends[k] = pos + 4 + length
         /\ Acceptable => data = written[k]
<1>1. pos = Start(k) /\ pos \in Nat /\ Len(file) \in Nat /\ pos + 4 <= Len(file)
  BY DEF Reading, TypeOK, Left
<1>2. k \in 1..Len(written)
  <2>1. Len(file) <= Start(Len(written) + 1) /\ Len(read) \in Nat /\ Len(written) \in Nat
    BY DEF Records, TypeOK
  <2>2. Len(read) # Len(written)
    BY <1>1, <2>1
  <2>. QED BY <2>1, <2>2
<1>3. written[k] \in Messages
  BY <1>2 DEF TypeOK
<1>4. PICK m \in Seq(Byte) : m = written[k]
  BY <1>3, MessageProperties
<1>5. PICK l \in Nat : l = Len(m) /\ l < Base3 * Base
  BY <1>3, <1>4, MessageProperties
<1>6. /\ ends[k] = pos + 4 + l
      /\ \A i \in 1..4 : pos + i <= Len(file) => file[pos + i] = Encode(l)[i]
      /\ \A i \in 1..l : pos + 4 + i <= Len(file) => file[pos + 4 + i] = m[i]
  BY <1>1, <1>2, <1>4, <1>5 DEF Records, Record
<1>7. length = l
  <2>1. PICK s : s = SubSeq(file, pos + 1, pos + 4)
    OBVIOUS
  <2>2. ASSUME NEW i \in 1..4 PROVE s[i] = Encode(l)[i]
    <3>1. pos + i <= Len(file)
      BY <1>1
    <3>2. s[i] = file[pos + i]
      BY <2>1, ReaderProperties
    <3>. QED BY <3>1, <3>2, <1>6
  <2>3. Decode(s) = l
    BY <2>2, <1>3, <1>4, <1>5, DecodeOfEncode
  <2>. QED BY <2>1, <2>3 DEF length
<1>8. ASSUME Acceptable PROVE data = m
  <2>1. /\ pos + 4 + l <= Len(file) /\ data \in Seq(Byte) /\ Len(data) = l
        /\ \A i \in 1..l : data[i] = file[pos + 4 + i]
    BY <1>7, <1>8, DataProperties
  <2>2. ASSUME NEW i \in 1..l PROVE data[i] = m[i]
    <3>1. pos + 4 + i <= Len(file)
      BY <1>1, <2>1
    <3>. QED BY <3>1, <2>1, <1>6
  <2>3. Len(data) = Len(m) /\ \A i \in 1..Len(data) : data[i] = m[i]
    BY <2>1, <2>2, <1>5
  <2>. QED BY <2>1, <2>3, SeqEqual
<1>. QED BY <1>1, <1>2, <1>4, <1>5, <1>6, <1>7, <1>8

\* ReadProto returns the next message, which is one that it can return.
LEMMA ReadProtoReturns ==
  ASSUME NoByteIsNegative, IndInv, ReadProto
  PROVE  /\ Readable(Len(read) + 1) /\ Len(read) + 1 <= Len(written)
         /\ read' = Append(read, written[Len(read) + 1]) /\ reader' = "reads"
         /\ pos' = ends[Len(read) + 1]
<1>1. PICK k : k = Len(read) + 1
  OBVIOUS
<1>2. Reads /\ Left >= 4 /\ Acceptable /\ length > 0 /\ pos' = pos + 4 + length
  BY DEF ReadProto
<1>3. /\ k \in 1..Len(written) /\ length = Len(written[k])
      /\ ends[k] = pos + 4 + length /\ data = written[k]
  BY <1>1, <1>2, NextRecord DEF IndInv, ReadsWhatWasWritten, Reads
<1>4. written[k] \in Messages
  BY <1>3 DEF IndInv, TypeOK
<1>5. read' = Append(read, data) /\ reader' = "reads"
  <2>1. (data \in Messages) = TRUE
    BY <1>3, <1>4
  <2>. QED BY <2>1 DEF ReadProto
<1>6. Whole(k) /\ Len(written[k]) \in 1..kMaxDataRead - 1
  <2>1. length \in Nat /\ pos + 4 + length <= Len(file)
    BY <1>2, DataProperties DEF IndInv
  <2>. QED BY <2>1, <1>2, <1>3, Constants DEF Whole, Acceptable
<1>7. k <= Len(written)
  BY <1>3 DEF IndInv, TypeOK
<1>. QED BY <1>1, <1>2, <1>3, <1>5, <1>6, <1>7 DEF Readable

\* ReadProto returns false, or ends the process.
LEMMA ReadStops ==
  ASSUME NoByteIsNegative, IndInv, ReadEnd \/ ReadAborts
  PROVE  LET next == Len(read) + 1
             atEnd == Len(read) = Len(written)
         IN /\ atEnd \/ ~Readable(next)
            /\ reader' = "aborted" =>
                   ~atEnd /\ (~Whole(next) \/ Len(written[next]) >= kMaxDataRead)
<1>1. PICK k : k = Len(read) + 1
  OBVIOUS
<1>2. reader = "reads" /\ Len(file) \in Nat /\ pos \in Nat /\ kMaxDataRead \in Nat
      /\ Len(read) \in Nat /\ Len(written) \in Nat /\ Len(read) <= Len(written)
  BY Constants DEF IndInv, TypeOK, ReadsWhatWasWritten, ReadEnd, ReadAborts, Reads
<1>3. CASE Left < 4
  <2>1. reader' # "aborted"
    BY <1>2, <1>3 DEF ReadEnd, ReadAborts, Left
  <2>2. ASSUME Len(read) # Len(written) PROVE ~Whole(k)
    <3>1. k \in 1..Len(written)
      BY <1>1, <1>2, <2>2
    <3>2. PICK l \in Nat : l = Len(written[k])
      <4>1. written[k] \in Messages
        BY <3>1 DEF IndInv, TypeOK
      <4>. QED BY <4>1, MessageProperties
    <3>3. ends[k] = pos + 4 + l
      BY <1>1, <1>2, <3>1, <3>2 DEF IndInv, Records, Record, Reading
    <3>. QED BY <3>3, <1>2, <1>3 DEF Whole, Left
  <2>. QED BY <1>1, <2>1, <2>2 DEF Readable
<1>4. CASE Left >= 4
  <2>1. /\ k \in 1..Len(written) /\ length = Len(written[k])
        /\ ends[k] = pos + 4 + length
    BY <1>1, <1>2, <1>4, NextRecord DEF IndInv, ReadsWhatWasWritten
  <2>2. PICK l \in Nat : l = length
    <3>1. written[k] \in Messages
      BY <2>1 DEF IndInv, TypeOK
    <3>. QED BY <2>1, <3>1, MessageProperties
  <2>3. Len(read) # Len(written)
    BY <1>1, <1>2, <2>1
  <2>4. CASE ReadEnd
    <3>1. l = 0 /\ reader' = "ended"
      BY <1>4, <2>2, <2>4 DEF ReadEnd
    <3>2. ~Readable(k)
      BY <2>1, <2>2, <3>1 DEF Readable
    <3>. QED BY <1>1, <3>1, <3>2
  <2>5. CASE ReadAborts
    <3>1. ~Acceptable
      BY <2>5 DEF ReadAborts
    <3>2. ~Whole(k) \/ l >= kMaxDataRead
      <4>1. l >= kMaxDataRead \/ ~(4 + l <= Len(file) - pos)
        BY <1>2, <2>2, <3>1 DEF Acceptable, Left
      <4>2. ends[k] = pos + 4 + l
        BY <2>1, <2>2
      <4>. QED BY <1>2, <4>1, <4>2 DEF Whole
    <3>3. ~Readable(k)
      BY <1>2, <2>1, <2>2, <3>2 DEF Readable
    <3>. QED BY <1>1, <2>1, <2>2, <2>3, <3>2, <3>3
  <2>. QED BY <2>4, <2>5
<1>5. Left < 4 \/ Left >= 4
  BY <1>2 DEF Left
<1>. QED BY <1>3, <1>4, <1>5

LEMMA NextReading ==
  ASSUME NoByteIsNegative, IndInv, [Next]_vars
  PROVE  Reading' /\ ReadsWhatWasWritten'
<1>1. Len(read) \in Nat /\ Len(written) \in Nat /\ Len(read) <= Len(written)
  BY DEF IndInv, TypeOK, ReadsWhatWasWritten
<1>2. ASSUME NEW m \in Messages, WriteProto(m) PROVE Reading' /\ ReadsWhatWasWritten'
  <2>1. pos' = 0 /\ reader' = "reads" /\ read' = <<>>
    BY <1>2 DEF WriteProto, IndInv, NotYetRead
  <2>2. Len(written') \in Nat
    BY <1>1, <1>2, WriteProtoProperties DEF IndInv
  <2>. QED BY <2>1, <2>2 DEF Reading, Start, ReadsWhatWasWritten
<1>3. CASE Close \/ Crash
  <2>1. /\ pos' = 0 /\ reader' = "reads" /\ read' = <<>> /\ written' = written
    BY <1>3 DEF Close, Crash, IndInv, NotYetRead
  <2>. QED BY <1>1, <2>1 DEF Reading, Start, ReadsWhatWasWritten
<1>4. CASE ReadProto
  <2>1. PICK k : k = Len(read) + 1 /\ k \in Nat \ {0}
    BY <1>1
  <2>2. /\ UNCHANGED <<file, written, ends>> /\ reader' = "reads" /\ pos' = ends[k]
        /\ read' = Append(read, written[k]) /\ k <= Len(written) /\ Readable(k)
    BY <1>4, <2>1, ReadProtoReturns DEF ReadProto
  <2>3. /\ Len(read') = k /\ read'[k] = written[k]
        /\ \A i \in 1..Len(read) : read'[i] = read[i]
    <3>1. written[k] \in Seq(Byte)
      <4>1. written[k] \in Messages
        BY <2>1, <2>2 DEF IndInv, TypeOK
      <4>. QED BY <4>1, MessageProperties
    <3>. QED BY <2>1, <2>2, <3>1, AppendProperties DEF IndInv, TypeOK
  <2>4. Reading'
    <3>1. PICK j : j = k + 1 /\ j # 1 /\ j - 1 = k
      BY <2>1
    <3>2. Start(j)' = pos'
      BY <2>2, <3>1 DEF Start
    <3>. QED BY <2>3, <3>1, <3>2 DEF Reading
  <2>5. ASSUME NEW i \in 1..k PROVE Readable(i)' /\ read'[i] = written'[i]
    <3>1. i \in 1..Len(read) \/ i = k
      BY <1>1, <2>1
    <3>2. Readable(i) /\ read'[i] = written[i]
      BY <2>2, <2>3, <3>1 DEF IndInv, ReadsWhatWasWritten
    <3>. QED BY <2>2, <3>2 DEF Readable, Whole
  <2>. QED BY <2>2, <2>3, <2>4, <2>5 DEF ReadsWhatWasWritten
<1>5. CASE ReadEnd \/ ReadAborts
  <2>1. /\ UNCHANGED <<file, written, ends, read>> /\ reader' # "reads"
    BY <1>5 DEF ReadEnd, ReadAborts
  <2>2. Reading'
    BY <2>1 DEF Reading
  <2>3. PICK k : k = Len(read) + 1
    OBVIOUS
  <2>4. /\ Len(read) = Len(written) \/ ~Readable(k)
        /\ reader' = "aborted" =>
               Len(read) # Len(written) /\ (~Whole(k) \/ Len(written[k]) >= kMaxDataRead)
    BY <1>5, <2>3, ReadStops
  <2>5. \A i : Readable(i)' = Readable(i) /\ Whole(i)' = Whole(i)
    BY <2>1 DEF Readable, Whole
  <2>6. \A i \in 1..Len(read) : Readable(i) /\ read[i] = written[i]
    BY DEF IndInv, ReadsWhatWasWritten
  <2>. QED BY <1>1, <2>1, <2>2, <2>3, <2>4, <2>5, <2>6 DEF ReadsWhatWasWritten
<1>6. CASE UNCHANGED vars
  <2>1. UNCHANGED <<file, written, ends, pos, reader, read>>
    BY <1>6 DEF vars
  <2>2. \A i : /\ Readable(i)' = Readable(i) /\ Whole(i)' = Whole(i)
               /\ Start(i)' = Start(i)
    BY <2>1 DEF Readable, Whole, Start
  <2>. QED BY <2>1, <2>2 DEF IndInv, Reading, ReadsWhatWasWritten
<1>. QED BY <1>2, <1>3, <1>4, <1>5, <1>6 DEF Next

-------------------------------------------------------------------------------
\* The theorems.

\* Types; the reader never goes beyond the end of the file, whether char is signed or
\* not, and wherever a crash has torn it.
THEOREM TypeCorrectness == Spec => []TypeOK
<1>1. Init => TypeOK /\ NotYetRead
  BY InitTypeOK
<1>2. TypeOK /\ NotYetRead /\ [Next]_vars => (TypeOK /\ NotYetRead)'
  BY NextTypeOK, NextNotYetRead
<1>. QED BY <1>1, <1>2, PTL DEF Spec

LEMMA InitIndInv == Init => IndInv
<1>. SUFFICES ASSUME Init PROVE IndInv
  OBVIOUS
<1>1. TypeOK /\ NotYetRead
  BY InitTypeOK
<1>2. Start(0 + 1) = 0 /\ Len(<<>>) = 0
  BY DEF Start
<1>3. Records /\ Reading /\ ReadsWhatWasWritten
  BY <1>2 DEF Init, Records, Reading, ReadsWhatWasWritten
<1>. QED BY <1>1, <1>3 DEF IndInv

\* The invariant that the next theorem follows from.
THEOREM Invariance == NoByteIsNegative => (Spec => []IndInv)
<1>. SUFFICES ASSUME NoByteIsNegative PROVE Spec => []IndInv
  OBVIOUS
<1>1. Init => IndInv
  BY InitIndInv
<1>2. IndInv /\ [Next]_vars => IndInv'
  BY NextTypeOK, NextNotYetRead, NextRecords, NextReading DEF IndInv
<1>. QED BY <1>1, <1>2, PTL DEF Spec

\* The messages that ReadProto returns are those that WriteProto was given, in order,
\* up to the first that is torn, empty or too long, wherever the writer died.
THEOREM ReadsWhatWasWrittenAlways == NoByteIsNegative => (Spec => []ReadsWhatWasWritten)
<1>. SUFFICES ASSUME NoByteIsNegative PROVE Spec => []ReadsWhatWasWritten
  OBVIOUS
<1>1. IndInv => ReadsWhatWasWritten
  BY DEF IndInv
<1>2. Spec => []IndInv
  BY Invariance
<1>. QED BY <1>1, <1>2, PTL

\* With an unsigned char that is so whatever the messages.
THEOREM UnsignedReadsWhatWasWritten == ~CharIsSigned => (Spec => []ReadsWhatWasWritten)
<1>1. ~CharIsSigned => NoByteIsNegative
  BY DEF NoByteIsNegative, FromChar
<1>. QED BY <1>1, ReadsWhatWasWrittenAlways

\* Where char is signed it is so as long as the messages are short: of less than 128
\* bytes, with bytes of 256 values.
THEOREM ShortReadsWhatWasWritten ==
  (\A m \in Messages : Len(m) < Base \div 2) => (Spec => []ReadsWhatWasWritten)
<1>1. ASSUME \A m \in Messages : Len(m) < Base \div 2 PROVE NoByteIsNegative
  <2>1. ASSUME NEW m \in Messages, NEW i \in 1..4
        PROVE  FromChar(Encode(Len(m))[i]) = Encode(Len(m))[i]
    <3>1. PICK n \in Nat : n = Len(m) /\ n < Base \div 2
      BY <1>1, MessageProperties
    <3>2. n % Base = n /\ n \div Base = 0 /\ n < Base
      BY <3>1, Constants
    <3>3. n \div Base2 = 0 /\ n \div Base3 = 0
      <4>1. 0 \div Base = 0
        BY Constants
      <4>2. n \div Base2 = 0
        BY <3>2, <4>1, Constants, DivDiv DEF Base2
      <4>. QED BY <4>1, <4>2, Constants, DivDiv DEF Base3
    <3>4. Encode(n) = <<n, 0, 0, 0>>
      BY <3>2, <3>3, Constants DEF Encode
    <3>5. Encode(n)[i] = n \/ Encode(n)[i] = 0
      BY <3>4
    <3>6. ~(n >= Base \div 2) /\ ~(0 >= Base \div 2)
      BY <3>1, Constants
    <3>. QED BY <3>1, <3>5, <3>6 DEF FromChar
  <2>. QED BY <2>1 DEF NoByteIsNegative
<1>. QED BY <1>1, ReadsWhatWasWrittenAlways
===============================================================================
