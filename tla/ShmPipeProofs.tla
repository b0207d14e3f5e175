--------------------------- MODULE ShmPipeProofs ----------------------------
(***************************************************************************)
(* The shared memory ring is a FIFO queue for every ring size, every set   *)
(* of messages and any number of crashes.                                  *)
(***************************************************************************)
EXTENDS ShmPipe, SequenceTheorems, TLAPS

(* Position x of the ring, for an x at most one turn too far.              *)
Wrap(x) == IF x < Size THEN x ELSE x - Size

InUse == Dist(begin, end)
MsgLen(i) == Len(log[i].msg)

(* Where message i starts and ends, counted from _begin.                   *)
Off(i) == Dist(begin, log[i].at)
Past(i) == Off(i) + HeadLen + MsgLen(i)

(* The messages of the history follow each other without a gap from _begin *)
(* to _end and do not wrap into each other.                                *)
LogInv ==
    /\ log = << >> => begin = end
    /\ log # << >> => log[1].at = begin /\ Past(Len(log)) = InUse
    /\ \A i \in 1 .. Len(log) : Past(i) <= InUse
    /\ \A i, j \in 1 .. Len(log) : i < j => Past(i) <= Off(j)
    /\ \A i \in 1 .. Len(log) - 1 :
          log[i + 1].at = Wrap(log[i].at + HeadLen + MsgLen(i))

(* The bytes of the ring spell those messages.                             *)
HeadWritten(at, n) ==
    \A k \in 0 .. HeadLen - 1 : buf[Wrap(at + k)] = LenByte(k, n)

BodyWritten(at, m) ==
    \A j \in 1 .. Len(m) : buf[Wrap(at + HeadLen + j - 1)] = m[j]

Content == \A i \in 1 .. Len(log) : /\ HeadWritten(log[i].at, MsgLen(i))
                                    /\ BodyWritten(log[i].at, log[i].msg)

(* What the writer knows between its steps.  The reader can only have made *)
(* more room since the writer looked.                                      *)
WriterInv ==
    /\ pstep # "idle" => pmsg \in Msg /\ InUse + HeadLen + Len(pmsg) < Size
    /\ pstep \in {"payload", "publish"} =>
          pend = Wrap(end + HeadLen) /\ HeadWritten(end, Len(pmsg))
    /\ pstep = "payload" => Dist(pbeg, end) + HeadLen + Len(pmsg) < Size
    /\ pstep = "publish" => BodyWritten(end, pmsg)

(* What the reader knows between its steps.  The _end it read first is     *)
(* either _begin (the ring was empty) or past the oldest message.          *)
ReaderInv ==
    /\ cstep # "idle" =>
          IF log = << >> THEN cend = begin
          ELSE cend = begin \/ Past(1) <= Dist(begin, cend)
    /\ cstep \in {"used", "header"} => cbeg = begin
    /\ cstep \in {"header", "payload", "advance"} => log # << >>
    /\ cstep = "header" => Past(1) <= cused
    /\ cstep \in {"payload", "advance"} =>
          cbeg = Wrap(begin + HeadLen) /\ clen = MsgLen(1)
    /\ cstep = "advance" => cbuf = log[1].msg

IInv == TypeOK /\ LogInv /\ Content /\ WriterInv /\ ReaderInv

-----------------------------------------------------------------------------
(* Arithmetic on the ring.                                                 *)

LEMMA ModWrap == ASSUME NEW x \in 0 .. 2 * Size - 1
                 PROVE  x % Size = Wrap(x) /\ Wrap(x) \in Cells
  BY SizeAssumption, SMTT(20) DEF Wrap, Cells

LEMMA DistRange == ASSUME NEW b \in Cells, NEW x \in Cells
                   PROVE  /\ Dist(b, x) \in 0 .. Size - 1
                          /\ Wrap(b + Dist(b, x)) = x
  BY SizeAssumption DEF Dist, Cells, Wrap

LEMMA DistAdd == ASSUME NEW b \in Cells, NEW x \in Cells, NEW k \in Nat,
                        Dist(b, x) + k < Size
                 PROVE  /\ Wrap(x + k) \in Cells
                        /\ Dist(b, Wrap(x + k)) = Dist(b, x) + k
  BY SizeAssumption DEF Dist, Cells, Wrap

LEMMA DistSplit == ASSUME NEW b \in Cells, NEW e \in Cells, NEW x \in Cells,
                          Dist(b, e) + Dist(e, x) < Size
                   PROVE  Dist(b, x) = Dist(b, e) + Dist(e, x)
  BY SizeAssumption DEF Dist, Cells, Wrap

LEMMA DistWrap == ASSUME NEW x \in Cells, NEW k \in 0 .. Size - 1
                  PROVE  Wrap(x + k) \in Cells /\ Dist(x, Wrap(x + k)) = k
  BY SizeAssumption DEF Dist, Cells, Wrap

(* Moving the origin past k bytes shortens the distance by k.              *)
LEMMA DistLess == ASSUME NEW b \in Cells, NEW x \in Cells, NEW k \in Nat,
                         k <= Dist(b, x)
                  PROVE  /\ Wrap(b + k) \in Cells
                         /\ Dist(Wrap(b + k), x) = Dist(b, x) - k
  BY SizeAssumption DEF Dist, Cells, Wrap

(* The cell k bytes past x is the one at that distance.                    *)
LEMMA DistUnique == ASSUME NEW b \in Cells, NEW x \in Cells, NEW e \in Cells,
                           NEW k \in Nat, Dist(b, x) + k = Dist(b, e)
                    PROVE  e = Wrap(x + k)
  BY SizeAssumption DEF Dist, Cells, Wrap

LEMMA UsedIsEnough == ASSUME NEW b \in Cells, NEW e \in Cells, b # e
                      PROVE  GetUsedSize(b, e) \in Nat /\ Dist(b, e) <= GetUsedSize(b, e)
  BY SizeAssumption DEF Dist, Cells, GetUsedSize

LEMMA LeftIsRoom == ASSUME NEW b \in Cells, NEW e \in Cells
                    PROVE  GetLeftSize(b, e) = Size - 1 - Dist(b, e)
  BY SizeAssumption DEF Dist, Cells, GetLeftSize

-----------------------------------------------------------------------------
(* The state functions of the log.                                         *)

LEMMA LogTypes == ASSUME TypeOK, NEW i \in 1 .. Len(log)
                  PROVE  /\ log[i].at \in Cells
                         /\ log[i].msg \in Msg
                         /\ MsgLen(i) \in Nat
                         /\ Off(i) \in 0 .. Size - 1
                         /\ Past(i) \in Nat
                         /\ HeadLen + MsgLen(i) <= Past(i)
<1>1. log[i] \in [at : Cells, msg : Msg]
  BY ElementOfSeq DEF TypeOK
<1>2. log[i].at \in Cells /\ log[i].msg \in Msg
  BY <1>1
<1>3. MsgLen(i) \in Nat
  BY <1>2, MsgAssumption DEF MsgLen
<1>4. Off(i) \in 0 .. Size - 1
  BY <1>2, DistRange DEF Off, TypeOK
<1> QED BY <1>2, <1>3, <1>4, SizeAssumption DEF Past

(* A byte of a message of the log is a byte in use.                        *)
LEMMA LogCells == ASSUME TypeOK, LogInv, NEW i \in 1 .. Len(log),
                         NEW k \in 0 .. HeadLen + MsgLen(i) - 1
                  PROVE  LET c == Wrap(log[i].at + k)
                         IN  c \in Cells /\ Dist(begin, c) < InUse
<1>1. log[i].at \in Cells /\ MsgLen(i) \in Nat /\ Off(i) \in 0 .. Size - 1
  BY LogTypes
<1>2. begin \in Cells /\ InUse \in 0 .. Size - 1
  BY DistRange DEF TypeOK, InUse
<1>3. Off(i) + k < InUse
  BY <1>1, <1>2, SizeAssumption DEF LogInv, Past
<1> QED BY <1>1, <1>2, <1>3, DistAdd, SizeAssumption DEF Off

(* Bytes outside the part in use may change without changing a message.    *)
LEMMA ContentFrame ==
    ASSUME TypeOK, LogInv, Content, UNCHANGED log,
           \A c \in Cells : Dist(begin, c) < InUse => buf'[c] = buf[c]
    PROVE  Content'
<1> SUFFICES ASSUME NEW i \in 1 .. Len(log)
             PROVE  /\ \A k \in 0 .. HeadLen - 1 :
                          buf'[Wrap(log[i].at + k)] = LenByte(k, MsgLen(i))
                    /\ \A j \in 1 .. MsgLen(i) :
                          buf'[Wrap(log[i].at + HeadLen + j - 1)] = log[i].msg[j]
  BY DEF Content, HeadWritten, BodyWritten, MsgLen
<1>1. MsgLen(i) \in Nat /\ log[i].at \in Cells
  BY LogTypes
<1>2. ASSUME NEW k \in 0 .. HeadLen + MsgLen(i) - 1
      PROVE  buf'[Wrap(log[i].at + k)] = buf[Wrap(log[i].at + k)]
  BY LogCells
<1>3. ASSUME NEW k \in 0 .. HeadLen - 1
      PROVE  buf'[Wrap(log[i].at + k)] = LenByte(k, MsgLen(i))
  <2>1. k \in 0 .. HeadLen + MsgLen(i) - 1
    BY <1>1, SizeAssumption
  <2> QED BY <2>1, <1>2 DEF Content, HeadWritten
<1>4. ASSUME NEW j \in 1 .. MsgLen(i)
      PROVE  buf'[Wrap(log[i].at + HeadLen + j - 1)] = log[i].msg[j]
  <2>1. HeadLen + j - 1 \in 0 .. HeadLen + MsgLen(i) - 1
    BY <1>1, SizeAssumption
  <2>2. log[i].at + HeadLen + j - 1 = log[i].at + (HeadLen + j - 1)
    BY <1>1, SizeAssumption DEF Cells
  <2>3. buf[Wrap(log[i].at + HeadLen + j - 1)] = log[i].msg[j]
    BY DEF Content, BodyWritten, MsgLen
  <2> QED BY <2>1, <2>2, <2>3, <1>2
<1> QED BY <1>3, <1>4

-----------------------------------------------------------------------------
(* The steps of the writer.                                                *)

LEMMA CheckStep == ASSUME IInv, NEW m \in Msg, AppendCheck(m) PROVE IInv'
<1> USE DEF IInv
<1>1. Len(m) \in Nat /\ InUse \in 0 .. Size - 1
  BY MsgAssumption, DistRange DEF TypeOK, InUse
<1>2. UNCHANGED <<shm, reader, out, crashes, log>>
  BY DEF AppendCheck
<1>3. TypeOK'
  BY DEF TypeOK, AppendCheck, shm, reader
<1>4. LogInv' /\ Content'
  BY <1>2 DEF LogInv, Content, HeadWritten, BodyWritten, InUse, Past, Off, MsgLen, shm
<1>5. WriterInv'
  <2>1. pstep' = "header" /\ pmsg' = m /\ InUse' = InUse
    BY <1>2 DEF AppendCheck, InUse, shm
  <2>2. HeadLen + Len(m) <= Size - 1 - InUse
    BY LeftIsRoom DEF AppendCheck, TypeOK, InUse
  <2> QED BY <2>1, <2>2, <1>1, SizeAssumption DEF WriterInv
<1>6. ReaderInv'
  BY <1>2 DEF ReaderInv, InUse, Past, Off, MsgLen, shm, reader
<1> QED BY <1>3, <1>4, <1>5, <1>6

(* From a byte in use the free bytes ahead of _end all lie before _end.    *)
LEMMA UsedIsFar == ASSUME TypeOK, NEW c \in Cells, Dist(begin, c) < InUse
                   PROVE  InUse + Dist(end, c) >= Size
<1> begin \in Cells /\ end \in Cells
  BY DEF TypeOK
<1>1. InUse \in 0 .. Size - 1 /\ Dist(end, c) \in 0 .. Size - 1
  BY DistRange DEF InUse
<1>2. SUFFICES ASSUME InUse + Dist(end, c) < Size PROVE FALSE
  BY <1>1, SizeAssumption
<1>3. Dist(begin, c) = InUse + Dist(end, c)
  BY <1>2, DistSplit DEF InUse
<1> QED BY <1>1, <1>3, SizeAssumption

LEMMA HeaderStep == ASSUME IInv, AppendHeader PROVE IInv'
<1> USE DEF IInv
<1> DEFINE n == Len(pmsg)
<1>1. /\ pmsg \in Msg /\ n \in Nat /\ InUse \in 0 .. Size - 1
      /\ InUse + HeadLen + n < Size
      /\ begin \in Cells /\ end \in Cells
  BY MsgAssumption, DistRange DEF TypeOK, InUse, WriterInv, AppendHeader
<1>2. UNCHANGED <<begin, end, pmsg, reader, out, crashes, log>> /\ pstep' = "payload"
  BY DEF AppendHeader
<1>3. pend' = Wrap(end + HeadLen) /\ pend' \in Cells /\ pbeg' = begin
  <2>1. end + HeadLen \in 0 .. 2 * Size - 1
    BY <1>1, SizeAssumption DEF Cells
  <2> QED BY <2>1, ModWrap DEF AppendHeader
<1>4. TypeOK'
  <2>1. \A i \in Cells : Dist(end, i) \in Nat
    BY <1>1, DistRange
  <2>2. buf' \in [Cells -> Byte \cup ((0 .. HeadLen - 1) \X Nat) \cup {NoByte}]
    BY <1>1, <2>1, SizeAssumption DEF TypeOK, AppendHeader, LenByte
  <2> QED BY <1>2, <1>3, <2>2, <1>1 DEF TypeOK, reader
<1>5. LogInv'
  BY <1>2 DEF LogInv, InUse, Past, Off, MsgLen
<1>6. Content'
  <2>1. ASSUME NEW c \in Cells, Dist(begin, c) < InUse
        PROVE  buf'[c] = buf[c]
    <3>1. InUse + Dist(end, c) >= Size /\ Dist(end, c) \in Nat
      BY <2>1, UsedIsFar, <1>1, DistRange
    <3>2. ~(Dist(end, c) < HeadLen)
      BY <3>1, <1>1, SizeAssumption
    <3> QED BY <3>2 DEF AppendHeader
  <2> QED BY <2>1, <1>2, ContentFrame
<1>7. WriterInv'
  <2>1. ASSUME NEW k \in 0 .. HeadLen - 1
        PROVE  buf'[Wrap(end + k)] = LenByte(k, n)
    <3>1. Wrap(end + k) \in Cells /\ Dist(end, Wrap(end + k)) = k
      BY <1>1, DistWrap, SizeAssumption
    <3> QED BY <3>1, SizeAssumption DEF AppendHeader
  <2>2. HeadWritten(end, n)'
    BY <2>1, <1>2 DEF HeadWritten
  <2> QED BY <2>2, <1>1, <1>2, <1>3 DEF WriterInv, InUse
<1>8. ReaderInv'
  BY <1>2 DEF ReaderInv, InUse, Past, Off, MsgLen, reader
<1> QED BY <1>4, <1>5, <1>6, <1>7, <1>8

(* The write position of the payload and the bytes it covers.              *)
LEMMA PayloadPlace ==
    ASSUME IInv, pstep = "payload"
    PROVE  /\ pmsg \in Msg /\ Len(pmsg) \in Nat
           /\ pend = Wrap(end + HeadLen) /\ pend \in Cells
           /\ Dist(end, pend) = HeadLen
           /\ pbeg > pend => pend + Len(pmsg) <= Size
           /\ \A c \in Cells : Dist(pend, c) < Len(pmsg) =>
                 Dist(end, c) = HeadLen + Dist(pend, c)
<1> USE DEF IInv
<1>1. /\ pmsg \in Msg /\ Len(pmsg) \in Nat /\ InUse \in 0 .. Size - 1
      /\ InUse + HeadLen + Len(pmsg) < Size
      /\ begin \in Cells /\ end \in Cells /\ pbeg \in Cells /\ pend \in Cells
  BY MsgAssumption, DistRange DEF TypeOK, InUse, WriterInv
<1>2. pend = Wrap(end + HeadLen)
  BY DEF WriterInv
<1>3. Dist(end, pend) = HeadLen
  BY <1>1, <1>2, DistWrap, SizeAssumption
<1>4. pbeg > pend => pend + Len(pmsg) <= Size
  <2>1. Dist(pbeg, end) + HeadLen + Len(pmsg) < Size
    BY DEF WriterInv
  <2> QED BY <2>1, <1>1, <1>2, SizeAssumption DEF Wrap, Dist, Cells
<1>5. ASSUME NEW c \in Cells, Dist(pend, c) < Len(pmsg)
      PROVE  Dist(end, c) = HeadLen + Dist(pend, c)
  <2>1. Dist(pend, c) \in Nat
    BY <1>1, DistRange
  <2>2. Dist(end, pend) + Dist(pend, c) < Size
    BY <1>1, <1>3, <1>5, <2>1, SizeAssumption
  <2> QED BY <2>2, <1>1, <1>3, DistSplit
<1> QED BY <1>1, <1>2, <1>3, <1>4, <1>5

LEMMA PayloadStep == ASSUME IInv, AppendPayload PROVE IInv'
<1> USE DEF IInv
<1> DEFINE n == Len(pmsg)
<1>0. pstep = "payload"
  BY DEF AppendPayload
<1>1. /\ pmsg \in Msg /\ n \in Nat /\ pend = Wrap(end + HeadLen)
      /\ pbeg > pend => pend + n <= Size
      /\ \A c \in Cells : Dist(pend, c) < n => Dist(end, c) = HeadLen + Dist(pend, c)
      /\ InUse \in 0 .. Size - 1 /\ InUse + HeadLen + n < Size
      /\ begin \in Cells /\ end \in Cells /\ pend \in Cells /\ pbeg \in Cells
  BY <1>0, PayloadPlace, DistRange DEF TypeOK, InUse, WriterInv
<1>a. \A c \in Cells : Dist(pend, c) \in Nat /\ Dist(end, c) \in Nat
  BY <1>1, DistRange
<1>b. HeadLen \in Nat /\ HeadLen > 0 /\ Size \in Nat
  BY SizeAssumption
<1>2. /\ UNCHANGED <<begin, end, pmsg, pbeg, pend, reader, out, crashes, log>>
      /\ pstep' = "publish"
  BY DEF AppendPayload
<1>3. TypeOK'
  <2>1. ASSUME NEW c \in Cells, Dist(pend, c) < n
        PROVE  pmsg[Dist(pend, c) + 1] \in Byte
    <3>1. Dist(pend, c) + 1 \in 1 .. n
      BY <1>1, <1>a, <2>1
    <3> QED BY <3>1, <1>1, MsgAssumption, ElementOfSeq
  <2>2. buf' \in [Cells -> Byte \cup ((0 .. HeadLen - 1) \X Nat) \cup {NoByte}]
    BY <2>1 DEF TypeOK, AppendPayload
  <2> QED BY <1>2, <2>2 DEF TypeOK, reader
<1>4. LogInv'
  BY <1>2 DEF LogInv, InUse, Past, Off, MsgLen
<1>5. Content'
  <2>1. ASSUME NEW c \in Cells, Dist(begin, c) < InUse
        PROVE  buf'[c] = buf[c]
    <3>1. InUse + Dist(end, c) >= Size
      BY <2>1, UsedIsFar
    <3>2. ASSUME Dist(pend, c) < n PROVE FALSE
      <4>1. Dist(end, c) = HeadLen + Dist(pend, c)
        BY <3>2, <1>1
      <4> HIDE DEF n
      <4> QED BY <3>1, <3>2, <4>1, <1>1, <1>a, <1>b
    <3> QED BY <3>2 DEF AppendPayload
  <2> QED BY <2>1, <1>2, ContentFrame
<1>6. HeadWritten(end, n)'
  <2> SUFFICES ASSUME NEW k \in 0 .. HeadLen - 1
               PROVE  buf'[Wrap(end + k)] = LenByte(k, n)
    BY <1>2 DEF HeadWritten
  <2>1. Wrap(end + k) \in Cells /\ Dist(end, Wrap(end + k)) = k
    BY <1>1, DistWrap, SizeAssumption
  <2>2. ASSUME Dist(pend, Wrap(end + k)) < n PROVE FALSE
    <3>1. Dist(end, Wrap(end + k)) = HeadLen + Dist(pend, Wrap(end + k))
      BY <2>1, <2>2, <1>1
    <3> QED BY <2>1, <3>1, <1>a, <1>b
  <2>3. buf'[Wrap(end + k)] = buf[Wrap(end + k)]
    BY <2>1, <2>2 DEF AppendPayload
  <2> QED BY <2>3, <1>0 DEF WriterInv, HeadWritten
<1>7. BodyWritten(end, pmsg)'
  <2> SUFFICES ASSUME NEW j \in 1 .. n
               PROVE  buf'[Wrap(end + HeadLen + j - 1)] = pmsg[j]
    BY <1>2 DEF BodyWritten
  <2> DEFINE c == Wrap(end + HeadLen + j - 1)
  <2>1. c = Wrap(pend + (j - 1))
    BY <1>1, SizeAssumption DEF Wrap, Cells
  <2>2. c \in Cells /\ Dist(pend, c) = j - 1
    BY <2>1, <1>1, DistWrap, SizeAssumption
  <2>3. pbeg > pend => pend <= c
    BY <1>1, <2>1, SizeAssumption DEF Wrap, Cells
  <2> HIDE DEF c
  <2>4. Dist(pend, c) < n /\ Dist(pend, c) + 1 = j
    BY <2>2, <1>1
  <2> QED BY <2>2, <2>3, <2>4 DEF AppendPayload, c
<1>8. WriterInv'
  <2>1. InUse' = InUse /\ pend' = Wrap(end' + HeadLen) /\ pmsg' = pmsg /\ Len(pmsg)' = n
    BY <1>2, <1>1 DEF InUse
  <2> QED BY <1>1, <1>2, <1>6, <1>7, <2>1 DEF WriterInv
<1>9. ReaderInv'
  BY <1>2 DEF ReaderInv, InUse, Past, Off, MsgLen, reader
<1> QED BY <1>3, <1>4, <1>5, <1>8, <1>9

LEMMA PublishStep == ASSUME IInv, AppendPublish PROVE IInv'
<1> USE DEF IInv
<1> DEFINE n == Len(pmsg)
<1> PICK L : L = Len(log)
  OBVIOUS
<1>1. /\ pmsg \in Msg /\ n \in Nat /\ pend = Wrap(end + HeadLen)
      /\ InUse \in 0 .. Size - 1 /\ InUse + HeadLen + n < Size
      /\ begin \in Cells /\ end \in Cells /\ pend \in Cells
      /\ HeadWritten(end, n) /\ BodyWritten(end, pmsg)
      /\ log \in Seq([at : Cells, msg : Msg])
  BY MsgAssumption, DistRange DEF TypeOK, InUse, WriterInv, AppendPublish
<1>2. /\ UNCHANGED <<begin, buf, pmsg, pbeg, pend, reader, out, crashes>>
      /\ pstep' = "idle"
      /\ log' = Append(log, [at |-> end, msg |-> pmsg])
  BY DEF AppendPublish
<1>b. HeadLen \in Nat /\ HeadLen > 0 /\ Size \in Nat /\ L \in Nat
  BY SizeAssumption, <1>1
<1>3. end' = Wrap(end + (HeadLen + n)) /\ end' \in Cells
  <2>1. pend + n \in 0 .. 2 * Size - 1
    BY <1>1, <1>b DEF Cells
  <2>2. end' = Wrap(pend + n) /\ end' \in Cells
    BY <2>1, ModWrap DEF AppendPublish
  <2>3. Wrap(pend + n) = Wrap(end + (HeadLen + n))
    BY <1>1, <1>b DEF Wrap, Cells
  <2> QED BY <2>2, <2>3
<1>4. InUse' = InUse + HeadLen + n
  <2>1. HeadLen + n \in Nat /\ Dist(begin, end) + (HeadLen + n) < Size
    BY <1>1, <1>b DEF InUse
  <2>2. Dist(begin, Wrap(end + (HeadLen + n))) = Dist(begin, end) + (HeadLen + n)
    BY <2>1, <1>1, DistAdd
  <2>3. InUse + (HeadLen + n) = InUse + HeadLen + n
    BY <1>1, <1>b
  <2> QED BY <2>2, <2>3, <1>2, <1>3 DEF InUse
<1>5. /\ log' \in Seq([at : Cells, msg : Msg])
      /\ Len(log') = L + 1
      /\ \A i \in 1 .. L : log'[i] = log[i]
      /\ log'[L + 1] = [at |-> end, msg |-> pmsg]
  BY <1>1, <1>2
<1>6. TypeOK'
  BY <1>2, <1>3, <1>5 DEF TypeOK, reader
<1>7. /\ \A i \in 1 .. L : MsgLen(i)' = MsgLen(i) /\ Off(i)' = Off(i) /\ Past(i)' = Past(i)
      /\ MsgLen(L + 1)' = n /\ Off(L + 1)' = InUse /\ Past(L + 1)' = InUse'
  <2>1. \A i \in 1 .. L : MsgLen(i)' = MsgLen(i) /\ Off(i)' = Off(i) /\ Past(i)' = Past(i)
    BY <1>2, <1>5 DEF MsgLen, Off, Past
  <2>2. MsgLen(L + 1)' = n /\ Off(L + 1)' = InUse
    BY <1>2, <1>5 DEF MsgLen, Off, InUse
  <2> QED BY <2>1, <2>2, <1>4 DEF Past
<1>8. \A i \in 1 .. L : Off(i) \in Nat /\ Past(i) \in Nat /\ MsgLen(i) \in Nat /\ log[i].at \in Cells
  BY LogTypes
<1>9. LogInv'
  <2>1. log' # << >> /\ Past(Len(log))' = InUse'
    BY <1>5, <1>7, <1>b
  <2>2. log'[1].at = begin'
    <3>1. CASE log = << >>
      BY <3>1, <1>5, <1>2, <1>b DEF LogInv
    <3>2. CASE log # << >>
      BY <3>2, <1>5, <1>2, <1>1 DEF LogInv
    <3> QED BY <3>1, <3>2
  <2>3. ASSUME NEW i \in 1 .. L + 1 PROVE Past(i)' <= InUse'
    <3>1. CASE i = L + 1
      BY <3>1, <1>7, <1>4, <1>1, <1>b
    <3>2. CASE i \in 1 .. L
      BY <3>2, <1>7, <1>4, <1>8, <1>1, <1>b DEF LogInv
    <3> QED BY <3>1, <3>2, <1>b
  <2>4. ASSUME NEW i \in 1 .. L + 1, NEW j \in 1 .. L + 1, i < j
        PROVE  Past(i)' <= Off(j)'
    <3>1. i \in 1 .. L
      BY <2>4, <1>b
    <3>2. CASE j = L + 1
      BY <3>1, <3>2, <1>7 DEF LogInv
    <3>3. CASE j \in 1 .. L
      BY <3>1, <3>3, <2>4, <1>7 DEF LogInv
    <3> QED BY <3>2, <3>3, <1>b
  <2>5. ASSUME NEW i \in 1 .. L
        PROVE  log'[i + 1].at = Wrap(log'[i].at + HeadLen + MsgLen(i)')
    <3>1. CASE i = L
      <4>1. log # << >> /\ Past(L) = InUse
        BY <3>1, <1>b, <1>1 DEF LogInv
      <4>2. Dist(begin, log[L].at) + (HeadLen + MsgLen(L)) = Dist(begin, end)
        <5>1. Past(L) = Off(L) + HeadLen + MsgLen(L) /\ Off(L) \in Nat /\ MsgLen(L) \in Nat
          BY <3>1, <1>8 DEF Past
        <5>2. Off(L) = Dist(begin, log[L].at) /\ InUse = Dist(begin, end)
          BY DEF Off, InUse
        <5>3. Off(L) + (HeadLen + MsgLen(L)) = InUse
          BY <4>1, <5>1, <1>b
        <5> QED BY <5>2, <5>3
      <4>3. log[L].at \in Cells /\ MsgLen(L) \in Nat /\ HeadLen + MsgLen(L) \in Nat
        BY <3>1, <1>8, <1>b
      <4>4. end = Wrap(log[L].at + (HeadLen + MsgLen(L)))
        BY <4>2, <4>3, <1>1, DistUnique
      <4>5. log[L].at + (HeadLen + MsgLen(L)) = log[L].at + HeadLen + MsgLen(L)
        BY <4>3, <1>b DEF Cells
      <4> QED BY <4>4, <4>5, <3>1, <1>5, <1>7
    <3>2. CASE i \in 1 .. L - 1
      BY <3>2, <1>5, <1>7, <1>b DEF LogInv
    <3> QED BY <3>1, <3>2, <1>b
  <2> QED BY <2>1, <2>2, <2>3, <2>4, <2>5, <1>5, <1>b DEF LogInv
<1>10. Content'
  <2> SUFFICES ASSUME NEW i \in 1 .. L + 1
               PROVE  (HeadWritten(log[i].at, MsgLen(i)) /\ BodyWritten(log[i].at, log[i].msg))'
    BY <1>5 DEF Content
  <2>1. CASE i = L + 1
    BY <2>1, <1>1, <1>2, <1>5 DEF HeadWritten, BodyWritten, MsgLen
  <2>2. CASE i \in 1 .. L
    BY <2>2, <1>2, <1>5, <1>7 DEF Content, HeadWritten, BodyWritten
  <2> QED BY <2>1, <2>2, <1>b
<1>11. WriterInv'
  BY <1>2 DEF WriterInv
<1>12. ReaderInv'
  <2>1. CASE log = << >>
    BY <2>1, <1>2, <1>5 DEF ReaderInv, reader
  <2>2. CASE log # << >>
    <3>1. 1 \in 1 .. L
      BY <2>2, <1>1
    <3>2. Past(1)' = Past(1) /\ MsgLen(1)' = MsgLen(1) /\ log'[1] = log[1] /\ log' # << >>
      BY <3>1, <1>5, <1>7, <1>b
    <3> QED BY <2>2, <3>2, <1>2 DEF ReaderInv, reader
  <2> QED BY <2>1, <2>2
<1> QED BY <1>6, <1>9, <1>10, <1>11, <1>12

-----------------------------------------------------------------------------
(* The steps of the reader.                                                *)

LEMMA FirstMessage == ASSUME TypeOK, LogInv, log # << >>
                      PROVE  /\ 1 \in 1 .. Len(log) /\ log[1].at = begin
                             /\ log[1].msg \in Msg /\ MsgLen(1) \in Nat
                             /\ Off(1) = 0 /\ Past(1) = HeadLen + MsgLen(1)
                             /\ Past(1) <= InUse
                             /\ InUse \in 0 .. Size - 1
                             /\ begin # end
<1>1. 1 \in 1 .. Len(log)
  BY DEF TypeOK
<1>2. log[1].at = begin /\ log[1].msg \in Msg /\ MsgLen(1) \in Nat /\ Past(1) <= InUse
  BY <1>1, LogTypes DEF LogInv
<1>3. begin \in Cells /\ end \in Cells /\ InUse \in 0 .. Size - 1
  BY DistRange DEF TypeOK, InUse
<1>4. Off(1) = 0
  BY <1>2, <1>3, SizeAssumption DEF Off, Dist, Cells
<1>5. Past(1) = HeadLen + MsgLen(1)
  BY <1>4, <1>2, SizeAssumption DEF Past
<1>6. begin # end
  BY <1>2, <1>3, <1>5, SizeAssumption DEF InUse, Dist, Cells
<1> QED BY <1>1, <1>2, <1>3, <1>4, <1>5, <1>6

LEMMA StartStep == ASSUME IInv, GetStart PROVE IInv'
<1> USE DEF IInv
<1>1. /\ UNCHANGED <<shm, writer, cused, clen, cbuf, out, crashes, log>>
      /\ cstep' = "used" /\ cbeg' = begin /\ cend' = end
  BY DEF GetStart
<1>2. TypeOK'
  BY <1>1 DEF TypeOK, shm, writer
<1>3. LogInv' /\ Content' /\ WriterInv'
  BY <1>1 DEF LogInv, Content, WriterInv, HeadWritten, BodyWritten, InUse, Past, Off,
              MsgLen, shm, writer
<1>4. ReaderInv'
  <2>1. log = << >> => end = begin
    BY DEF LogInv
  <2>2. log # << >> => Past(1) <= Dist(begin, end)
    BY FirstMessage DEF InUse
  <2> QED BY <1>1, <2>1, <2>2 DEF ReaderInv, Past, Off, MsgLen, shm
<1> QED BY <1>2, <1>3, <1>4

LEMMA UsedStep == ASSUME IInv, GetUsed PROVE IInv'
<1> USE DEF IInv
<1> DEFINE used == GetUsedSize(begin, end)
<1>1. /\ UNCHANGED <<end, buf, writer, cbeg, cend, clen, cbuf, out, crashes, log>>
      /\ cstep = "used" /\ cused' = used
  BY DEF GetUsed
<1>2. begin \in Cells /\ end \in Cells
  BY DEF TypeOK
<1>3. used # 0 => /\ log # << >> /\ used \in Nat
                  /\ Past(1) <= used /\ HeadLen <= used
  <2>1. SUFFICES ASSUME used # 0
                 PROVE  log # << >> /\ used \in Nat /\ Past(1) <= used /\ HeadLen <= used
    OBVIOUS
  <2>2. begin # end
    BY <2>1 DEF GetUsedSize
  <2>3. log # << >>
    BY <2>2 DEF LogInv
  <2>4. used \in Nat /\ InUse <= used
    BY <2>2, <1>2, UsedIsEnough DEF InUse
  <2> HIDE DEF used
  <2> QED BY <2>3, <2>4, FirstMessage, SizeAssumption
<1>4. used \in Nat
  BY <1>3
<1>5. UNCHANGED begin /\ cstep' = IF used = 0 THEN "idle" ELSE "header"
  <2> HIDE DEF used
  <2>1. used # 0 => ~(used < HeadLen)
    BY <1>3, <1>4, SizeAssumption
  <2> QED BY <2>1 DEF GetUsed, used
<1> HIDE DEF used
<1>6. TypeOK'
  BY <1>1, <1>4, <1>5 DEF TypeOK, writer
<1>7. LogInv' /\ Content' /\ WriterInv'
  BY <1>1, <1>5 DEF LogInv, Content, WriterInv, HeadWritten, BodyWritten, InUse, Past, Off,
              MsgLen, writer
<1>8. ReaderInv'
  <2>1. Past(1)' = Past(1)
    BY <1>1, <1>5 DEF Past, Off, MsgLen
  <2> QED BY <1>1, <1>3, <1>5, <2>1 DEF ReaderInv
<1> QED BY <1>6, <1>7, <1>8

(* The reader decodes the length the writer stored, and no other.          *)
LEMMA LenIsRight == ASSUME IInv, cstep = "header"
                    PROVE  log # << >> /\ LenAt(cbeg) = {MsgLen(1)}
<1> USE DEF IInv
<1>1. log # << >> /\ cbeg = begin
  BY DEF ReaderInv
<1>2. /\ log[1].at = begin /\ log[1].msg \in Msg /\ HeadWritten(begin, MsgLen(1))
      /\ begin \in Cells
  BY <1>1, FirstMessage DEF Content, TypeOK
<1>3. \A k \in 0 .. HeadLen - 1 : (begin + k) % Size = Wrap(begin + k)
  <2>1. \A k \in 0 .. HeadLen - 1 : begin + k \in 0 .. 2 * Size - 1
    BY <1>2, SizeAssumption DEF Cells
  <2> QED BY <2>1, ModWrap
<1>4. \A k \in 0 .. HeadLen - 1 : buf[(begin + k) % Size] = LenByte(k, MsgLen(1))
  BY <1>2, <1>3 DEF HeadWritten
<1> DEFINE spelt == {n \in {Len(m) : m \in Msg} :
                       \A k \in 0 .. HeadLen - 1 : buf[(cbeg + k) % Size] = LenByte(k, n)}
<1>5. MsgLen(1) \in spelt
  BY <1>1, <1>2, <1>4 DEF MsgLen
<1>6. ASSUME NEW n \in spelt PROVE n = MsgLen(1)
  <2>1. 0 \in 0 .. HeadLen - 1
    BY SizeAssumption
  <2>2. LenByte(0, n) = LenByte(0, MsgLen(1))
    BY <2>1, <1>1, <1>4
  <2> QED BY <2>2 DEF LenByte
<1>7. spelt = {MsgLen(1)}
  BY <1>5, <1>6
<1>8. LenAt(cbeg) = spelt
  BY <1>5 DEF LenAt
<1> QED BY <1>1, <1>7, <1>8

LEMMA ReadHeaderStep == ASSUME IInv, GetHeader PROVE IInv'
<1> USE DEF IInv
<1>1. /\ UNCHANGED <<end, buf, writer, cend, cused, cbuf, out, crashes, log>>
      /\ cstep = "header" /\ cbeg' = (cbeg + HeadLen) % Size
      /\ log # << >> /\ cbeg = begin /\ Past(1) <= cused
  BY DEF GetHeader, ReaderInv
<1>2. clen' \in LenAt(cbeg) /\ IF clen' + HeadLen > cused THEN DropAll
             ELSE /\ cstep' = IF clen' > MaxRead THEN "idle" ELSE "payload"
                  /\ UNCHANGED begin
  BY DEF GetHeader
<1>3. clen' = MsgLen(1)
  BY <1>1, <1>2, LenIsRight
<1>4. MsgLen(1) \in Nat /\ Past(1) = HeadLen + MsgLen(1) /\ begin \in Cells /\ cused \in Nat
  BY <1>1, FirstMessage DEF TypeOK
<1>5. cstep' \in {"idle", "payload"} /\ UNCHANGED begin
  <2>1. ~(clen' + HeadLen > cused)
    BY <1>1, <1>3, <1>4, SizeAssumption
  <2> QED BY <2>1, <1>2
<1>6. cbeg' = Wrap(begin + HeadLen) /\ cbeg' \in Cells
  <2>1. begin + HeadLen \in 0 .. 2 * Size - 1
    BY <1>4, SizeAssumption DEF Cells
  <2> QED BY <2>1, <1>1, ModWrap
<1>7. TypeOK'
  BY <1>1, <1>3, <1>4, <1>5, <1>6 DEF TypeOK, writer
<1>8. LogInv' /\ Content' /\ WriterInv'
  BY <1>1, <1>5 DEF LogInv, Content, WriterInv, HeadWritten, BodyWritten, InUse, Past, Off,
              MsgLen, writer
<1>9. ReaderInv'
  <2>1. Past(1)' = Past(1) /\ MsgLen(1)' = MsgLen(1)
    BY <1>1, <1>5 DEF Past, Off, MsgLen
  <2> QED BY <1>1, <1>3, <1>5, <1>6, <2>1 DEF ReaderInv
<1> QED BY <1>7, <1>8, <1>9

(* Where the payload is read from.                                         *)
LEMMA ReadPlace ==
    ASSUME IInv, cstep = "payload"
    PROVE  /\ log # << >> /\ clen = MsgLen(1) /\ clen \in Nat
           /\ HeadLen + clen <= InUse
           /\ cbeg < cend => cbeg + clen <= Size
           /\ \A j \in 1 .. clen : CopyFrom(j) = log[1].msg[j]
<1> USE DEF IInv
<1>1. /\ log # << >> /\ clen = MsgLen(1) /\ cbeg = Wrap(begin + HeadLen)
      /\ cend = begin \/ Past(1) <= Dist(begin, cend)
  BY DEF ReaderInv
<1>2. /\ clen \in Nat /\ Past(1) = HeadLen + clen /\ HeadLen + clen <= InUse
      /\ InUse \in 0 .. Size - 1
      /\ log[1].at = begin /\ 1 \in 1 .. Len(log)
      /\ begin \in Cells /\ cend \in Cells /\ cbeg \in Cells
  BY <1>1, FirstMessage DEF TypeOK
<1>3. HeadLen \in Nat /\ HeadLen > 0 /\ Size \in Nat
  BY SizeAssumption
<1>4. cbeg < cend => cbeg + clen <= Size
  BY <1>1, <1>2, <1>3 DEF Wrap, Dist, Cells
<1>5. ASSUME NEW j \in 1 .. clen PROVE CopyFrom(j) = buf[Wrap(begin + HeadLen + j - 1)]
  <2> DEFINE i == cbeg + j - 1
  <2>0. Wrap(i) = Wrap(begin + HeadLen + j - 1)
    <3>1. PICK k \in Nat : k = j - 1
      BY <1>2
    <3>2. HeadLen + k < Size /\ i = cbeg + k /\ begin + HeadLen + j - 1 = begin + HeadLen + k
      BY <3>1, <1>2, <1>3 DEF Cells
    <3>3. begin \in Cells /\ cbeg = Wrap(begin + HeadLen)
      BY <1>1, <1>2
    <3>4. Wrap(cbeg + k) = Wrap(begin + HeadLen + k)
      BY <3>1, <3>2, <3>3, <1>3 DEF Wrap, Cells
    <3> QED BY <3>2, <3>4
  <2>1. i \in 0 .. 2 * Size - 1
    BY <1>2, <1>3 DEF Cells
  <2>2. CASE i < Size
    <3>1. i = Wrap(begin + HeadLen + j - 1)
      BY <2>0, <2>2 DEF Wrap
    <3> QED BY <2>2, <3>1 DEF CopyFrom
  <2>3. CASE ~(i < Size)
    <3>1. ~(cbeg < cend)
      BY <2>3, <1>4, <1>2, <1>3 DEF Cells
    <3>2. i - Size \in 0 .. 2 * Size - 1 /\ i - Size < Size
      BY <2>1, <2>3, <1>3
    <3>3. (i - Size) % Size = i - Size
      BY <3>2, ModWrap DEF Wrap
    <3>4. i - Size = Wrap(begin + HeadLen + j - 1)
      BY <2>0, <2>3 DEF Wrap
    <3> QED BY <2>3, <3>1, <3>3, <3>4 DEF CopyFrom
  <2> QED BY <2>2, <2>3
<1>6. ASSUME NEW j \in 1 .. clen
      PROVE  buf[Wrap(begin + HeadLen + j - 1)] = log[1].msg[j]
  BY <1>1, <1>2 DEF Content, BodyWritten, MsgLen
<1> QED BY <1>1, <1>2, <1>4, <1>5, <1>6

LEMMA ReadPayloadStep == ASSUME IInv, GetPayload PROVE IInv'
<1> USE DEF IInv
<1>1. /\ UNCHANGED <<shm, writer, cbeg, cend, cused, clen, out, crashes, log>>
      /\ cstep = "payload" /\ cstep' = "advance"
      /\ cbuf' = [j \in 1 .. clen |-> CopyFrom(j)]
  BY DEF GetPayload
<1>2. cbuf' = log[1].msg
  <2>1. log[1].msg \in Seq(Byte) /\ clen = Len(log[1].msg)
    BY <1>1, ReadPlace, FirstMessage, MsgAssumption DEF MsgLen
  <2>2. log[1].msg = [j \in 1 .. clen |-> log[1].msg[j]]
    BY <2>1
  <2> QED BY <1>1, <2>2, ReadPlace
<1>3. TypeOK'
  BY <1>1 DEF TypeOK, shm, writer
<1>4. LogInv' /\ Content' /\ WriterInv'
  BY <1>1 DEF LogInv, Content, WriterInv, HeadWritten, BodyWritten, InUse, Past, Off,
              MsgLen, shm, writer
<1>5. ReaderInv'
  <2>1. Past(1)' = Past(1) /\ MsgLen(1)' = MsgLen(1)
    BY <1>1 DEF Past, Off, MsgLen, shm
  <2> QED BY <1>1, <1>2, <2>1 DEF ReaderInv, shm
<1> QED BY <1>3, <1>4, <1>5

LEMMA AdvanceStep == ASSUME IInv, GetAdvance PROVE IInv'
<1> USE DEF IInv
<1> PICK L : L = Len(log)
  OBVIOUS
<1> PICK p : p = Past(1)
  OBVIOUS
<1>1. /\ UNCHANGED <<end, buf, writer, cbeg, cend, cused, clen, cbuf, crashes>>
      /\ cstep = "advance" /\ cstep' = "idle"
      /\ begin' = (cbeg + clen) % Size
      /\ out' = cbuf /\ log' = Tail(log)
  BY DEF GetAdvance
<1>2. /\ log # << >> /\ cbeg = Wrap(begin + HeadLen) /\ clen = MsgLen(1)
      /\ cbuf = log[1].msg
  BY <1>1 DEF ReaderInv
<1>3. /\ clen \in Nat /\ p = HeadLen + clen /\ p <= InUse /\ InUse \in 0 .. Size - 1
      /\ log[1].at = begin /\ log[1].msg \in Msg /\ 1 \in 1 .. L
      /\ begin \in Cells /\ end \in Cells
      /\ log \in Seq([at : Cells, msg : Msg]) /\ L \in Nat
  BY <1>2, FirstMessage DEF TypeOK
<1>b. HeadLen \in Nat /\ HeadLen > 0 /\ Size \in Nat
  BY SizeAssumption
<1>4. begin' = Wrap(begin + p) /\ begin' \in Cells
  <2>1. cbeg + clen \in 0 .. 2 * Size - 1
    BY <1>2, <1>3, <1>b DEF Wrap, Cells
  <2>2. begin' = Wrap(cbeg + clen) /\ begin' \in Cells
    BY <2>1, <1>1, ModWrap
  <2>3. Wrap(cbeg + clen) = Wrap(begin + p)
    <3>1. HeadLen + clen < Size
      BY <1>3, <1>b
    <3>2. begin \in Cells /\ cbeg = Wrap(begin + HeadLen) /\ clen \in Nat
      BY <1>2, <1>3
    <3>3. Wrap(cbeg + clen) = Wrap(begin + (HeadLen + clen))
      BY <3>1, <3>2, <1>b DEF Wrap, Cells
    <3> QED BY <3>3, <1>3
  <2> QED BY <2>2, <2>3
<1>5. InUse' = InUse - p
  <2>1. p \in Nat /\ p <= Dist(begin, end)
    BY <1>3, <1>b DEF InUse
  <2>2. Dist(Wrap(begin + p), end) = Dist(begin, end) - p
    BY <2>1, <1>3, DistLess
  <2> QED BY <2>2, <1>1, <1>4 DEF InUse
<1>6. /\ log' \in Seq([at : Cells, msg : Msg]) /\ Len(log') = L - 1
      /\ \A i \in 1 .. L - 1 : log'[i] = log[i + 1]
  BY <1>1, <1>2, <1>3
<1>7. TypeOK'
  BY <1>1, <1>2, <1>3, <1>4, <1>6 DEF TypeOK, writer
<1>8. \A i \in 1 .. L : /\ Off(i) \in Nat /\ Past(i) \in Nat /\ MsgLen(i) \in Nat
                        /\ log[i].at \in Cells
  BY LogTypes
<1>9. ASSUME NEW i \in 1 .. L - 1
      PROVE  /\ i + 1 \in 1 .. L
             /\ MsgLen(i)' = MsgLen(i + 1) /\ Off(i)' = Off(i + 1) - p
             /\ Past(i)' = Past(i + 1) - p
  <2>1. i + 1 \in 1 .. L /\ 1 < i + 1
    BY <1>3
  <2>2. MsgLen(i)' = MsgLen(i + 1)
    BY <1>6 DEF MsgLen
  <2>3. p <= Off(i + 1)
    BY <2>1, <1>3 DEF LogInv
  <2>4. Off(i)' = Off(i + 1) - p
    <3>1. p \in Nat /\ p <= Dist(begin, log[i + 1].at) /\ log[i + 1].at \in Cells
      BY <2>1, <2>3, <1>3, <1>8, <1>b DEF Off
    <3>2. Dist(Wrap(begin + p), log[i + 1].at) = Dist(begin, log[i + 1].at) - p
      BY <3>1, <1>3, DistLess
    <3> QED BY <3>2, <1>4, <1>6 DEF Off
  <2>5. Past(i)' = Past(i + 1) - p
    BY <2>1, <2>2, <2>4, <1>3, <1>8, <1>b DEF Past
  <2> QED BY <2>1, <2>2, <2>4, <2>5
<1>10. LogInv'
  <2>1. L = 1 => begin' = end'
    <3>1. L = 1 => p = Dist(begin, end)
      BY <1>2 DEF LogInv, InUse
    <3> QED BY <3>1, <1>1, <1>3, <1>4, DistRange
  <2>2. L # 1 => log'[1].at = begin' /\ Past(L - 1)' = InUse'
    <3>1. SUFFICES ASSUME L # 1 PROVE log'[1].at = begin' /\ Past(L - 1)' = InUse'
      OBVIOUS
    <3>2. L - 1 \in 1 .. L - 1 /\ 1 \in 1 .. L - 1
      BY <3>1, <1>3
    <3>3. log[1 + 1].at = Wrap(log[1].at + HeadLen + MsgLen(1))
      BY <3>2 DEF LogInv
    <3>4. log[1].at + HeadLen + MsgLen(1) = begin + p
      BY <1>2, <1>3, <1>b DEF Cells
    <3>5. log'[1].at = begin'
      BY <3>2, <3>3, <3>4, <1>4, <1>6
    <3>6. Past(L - 1)' = Past(L) - p
      BY <3>2, <1>9, <1>3
    <3>7. Past(L) = InUse
      BY <1>2 DEF LogInv
    <3> QED BY <3>5, <3>6, <3>7, <1>5
  <2>3. \A i \in 1 .. L - 1 : Past(i)' <= InUse'
    BY <1>9, <1>8, <1>5, <1>3, <1>b DEF LogInv
  <2>4. ASSUME NEW i \in 1 .. L - 1, NEW j \in 1 .. L - 1, i < j
        PROVE  Past(i)' <= Off(j)'
    <3>1. Past(i + 1) <= Off(j + 1)
      BY <2>4, <1>9 DEF LogInv
    <3>2. Past(i + 1) \in Nat /\ Off(j + 1) \in Nat /\ p \in Nat
      BY <1>9, <1>8, <1>3, <1>b
    <3> QED BY <3>1, <3>2, <1>9
  <2>5. ASSUME NEW i \in 1 .. L - 2
        PROVE  log'[i + 1].at = Wrap(log'[i].at + HeadLen + MsgLen(i)')
    <3>1. i + 1 \in 1 .. L - 1 /\ i \in 1 .. L - 1
      BY <1>3
    <3>2. log[(i + 1) + 1].at = Wrap(log[i + 1].at + HeadLen + MsgLen(i + 1))
      BY <3>1 DEF LogInv
    <3> QED BY <3>1, <3>2, <1>6, <1>9
  <2>6. log' = << >> <=> L = 1
    BY <1>6, <1>3
  <2> QED BY <2>1, <2>2, <2>3, <2>4, <2>5, <2>6, <1>6, <1>3 DEF LogInv
<1>11. Content'
  <2> SUFFICES ASSUME NEW i \in 1 .. L - 1
               PROVE  (HeadWritten(log[i].at, MsgLen(i)) /\ BodyWritten(log[i].at, log[i].msg))'
    BY <1>6 DEF Content
  <2> QED BY <1>1, <1>6, <1>9 DEF Content, HeadWritten, BodyWritten
<1>12. WriterInv'
  <2>1. ASSUME pstep # "idle" PROVE InUse' + HeadLen + Len(pmsg) < Size
    <3>1. InUse + HeadLen + Len(pmsg) < Size /\ Len(pmsg) \in Nat
      BY <2>1, MsgAssumption DEF WriterInv
    <3> QED BY <3>1, <1>3, <1>5, <1>b
  <2>2. UNCHANGED <<pstep, pmsg, pbeg, pend, end, buf>>
    BY <1>1 DEF writer
  <2> QED BY <2>1, <2>2 DEF WriterInv, HeadWritten, BodyWritten
<1>13. ReaderInv'
  BY <1>1 DEF ReaderInv
<1> QED BY <1>7, <1>10, <1>11, <1>12, <1>13

(* A crash loses the place in a call and nothing else.                     *)
LEMMA CrashStep == ASSUME IInv, WriterCrash \/ ReaderCrash \/ UNCHANGED vars PROVE IInv'
<1> USE DEF IInv
<1>1. UNCHANGED <<shm, pmsg, pbeg, pend, cbeg, cend, cused, clen, cbuf, out, log>>
  BY DEF WriterCrash, ReaderCrash, vars, writer, reader
<1>2. /\ pstep' \in {pstep, "idle"} /\ cstep' \in {cstep, "idle"}
      /\ crashes' \in {crashes, crashes + 1}
  BY DEF WriterCrash, ReaderCrash, vars, writer, reader
<1>3. TypeOK'
  BY <1>1, <1>2 DEF TypeOK, shm
<1>4. InUse' = InUse /\ Past(1)' = Past(1) /\ MsgLen(1)' = MsgLen(1)
  BY <1>1 DEF InUse, Past, Off, MsgLen, shm
<1>5. LogInv' /\ Content'
  BY <1>1 DEF LogInv, Content, HeadWritten, BodyWritten, InUse, Past, Off, MsgLen, shm
<1>6. WriterInv'
  BY <1>1, <1>2, <1>4 DEF WriterInv, HeadWritten, BodyWritten, shm
<1>7. ReaderInv'
  BY <1>1, <1>2, <1>4 DEF ReaderInv, shm
<1> QED BY <1>3, <1>5, <1>6, <1>7

-----------------------------------------------------------------------------
(* The inductive invariant: the ring always spells the messages of the     *)
(* history, and each side's private copies agree with it.                  *)
THEOREM Inductive == Spec => []IInv
<1>1. Init => IInv
  <2> SUFFICES ASSUME Init PROVE IInv
    OBVIOUS
  <2>1. 0 \in Cells
    BY SizeAssumption DEF Cells
  <2>2. TypeOK
    BY <2>1, SizeAssumption DEF Init, TypeOK
  <2>3. LogInv /\ Content
    BY DEF Init, LogInv, Content
  <2>4. WriterInv /\ ReaderInv
    BY DEF Init, WriterInv, ReaderInv
  <2> QED BY <2>2, <2>3, <2>4 DEF IInv
<1>2. IInv /\ [Next]_vars => IInv'
  <2> SUFFICES ASSUME IInv, [Next]_vars PROVE IInv'
    OBVIOUS
  <2>1. CASE Write
    BY <2>1, CheckStep, HeaderStep, PayloadStep, PublishStep DEF Write
  <2>2. CASE Read
    BY <2>2, StartStep, UsedStep, ReadHeaderStep, ReadPayloadStep, AdvanceStep DEF Read
  <2>3. CASE WriterCrash \/ ReaderCrash \/ UNCHANGED vars
    BY <2>3, CrashStep
  <2> QED BY <2>1, <2>2, <2>3 DEF Next
<1> QED BY <1>1, <1>2, PTL DEF Spec

(* The indexes always point into the ring and what GetOneData hands out is *)
(* a message that was appended.                                            *)
THEOREM TypeCorrect == Spec => []TypeOK
<1>1. IInv => TypeOK
  BY DEF IInv
<1> QED BY <1>1, Inductive, PTL

(* AppendOneData never overwrites a byte the reader has not consumed and   *)
(* never leaves the ring, although the reader moves _begin between its     *)
(* three looks at the indexes.                                             *)
THEOREM NoOverwrite == Spec => []WriteIsSafe
<1>1. IInv => WriteIsSafe
  <2> SUFFICES ASSUME IInv PROVE WriteIsSafe
    OBVIOUS
  <2>1. pstep # "idle" => InUse + HeadLen + Len(pmsg) < Size
    BY DEF IInv, WriterInv
  <2>2. pstep = "payload" /\ pbeg > pend => pend + Len(pmsg) <= Size
    BY PayloadPlace
  <2> QED BY <2>1, <2>2 DEF WriteIsSafe, InUse
<1> QED BY <1>1, Inductive, PTL

(* GetOneData never copies unpublished bytes or bytes outside the ring,    *)
(* although the writer moves _end between its looks at the indexes and     *)
(* GetUsedSize overstates the data that wraps around.                      *)
THEOREM NoTornRead == Spec => []ReadIsSafe
<1>1. IInv => ReadIsSafe
  BY ReadPlace DEF ReadIsSafe, InUse
<1> QED BY <1>1, Inductive, PTL

(* The pipe implements a FIFO queue: appends put a whole message at its    *)
(* back, successful reads take the one at its front, and nothing else      *)
(* changes it.                                                             *)
THEOREM RingIsFifo == Spec => IsFifo
<1> DEFINE Queue(l) == [i \in DOMAIN l |-> l[i].msg]
<1>1. Init => fifo!Init
  BY DEF Init, fifo!Init
<1>2. ASSUME IInv, [Next]_vars PROVE [fifo!Next]_(fifo!vars)
  <2>t. log \in Seq([at : Cells, msg : Msg])
    BY <1>2 DEF IInv, TypeOK
  <2>1. CASE AppendPublish
    <3>1. pmsg \in Msg /\ end \in Cells
      BY <1>2, <2>1 DEF IInv, TypeOK, WriterInv, AppendPublish
    <3>2. log' = Append(log, [at |-> end, msg |-> pmsg]) /\ out' = out
      BY <2>1 DEF AppendPublish
    <3>3. Queue(log') = Append(Queue(log), pmsg)
      BY <3>1, <3>2, <2>t
    <3>4. \E m \in Msg : fifo!Put(m)
      BY <3>1, <3>2, <3>3 DEF fifo!Put
    <3> QED BY <3>4 DEF fifo!Next
  <2>2. CASE GetAdvance
    <3>1. log # << >> /\ out' = log[1].msg /\ log' = Tail(log)
      BY <1>2, <2>2 DEF IInv, ReaderInv, GetAdvance
    <3>2. Queue(log) # << >> /\ Head(Queue(log)) = log[1].msg
      BY <3>1, <2>t
    <3>3. Queue(log') = Tail(Queue(log))
      BY <3>1, <2>t
    <3>4. fifo!Take
      BY <3>1, <3>2, <3>3 DEF fifo!Take
    <3> QED BY <3>4 DEF fifo!Next
  <2>3. CASE UNCHANGED <<log, out>>
    BY <2>3 DEF fifo!vars
  <2>4. \/ AppendPublish \/ GetAdvance \/ UNCHANGED <<log, out>>
    BY <1>2 DEF Next, Write, Read, AppendCheck, AppendHeader, AppendPayload, GetStart,
                GetUsed, GetHeader, GetPayload, WriterCrash, ReaderCrash, vars
  <2> QED BY <2>1, <2>2, <2>3, <2>4
<1> QED BY <1>1, <1>2, Inductive, PTL DEF Spec, IsFifo, fifo!Spec
=============================================================================
