------------------------------ MODULE ShmPipe -------------------------------
(***************************************************************************)
(* The ring buffer in System V shared memory that joins two processes (a   *)
(* connection server and a logic server, core/src/shm_pipe.cpp), or one    *)
(* process to itself (the message queue of FrameServer).  There is one     *)
(* writer and one reader and no lock: the writer owns _end, the reader     *)
(* owns _begin, and each reads the other's index while it may move.        *)
(*                                                                         *)
(* A step is one access to the indexes or to a block of the buffer, so the *)
(* two sides interleave between the index reads, the copies and the store  *)
(* that publishes.  The stores of one side become visible in program order *)
(* (the x86-64 machines the deployment scripts target).  The indexes live  *)
(* in the segment and survive a crash of either side (ShmPipe::Reuse).     *)
(***************************************************************************)
EXTENDS Integers, Sequences

CONSTANTS Byte,      \* the values of a payload byte
          Msg,       \* the messages a writer may try to append
          NoByte,    \* a byte of the segment nobody has written yet
          HeadLen,   \* sizeof(uint32): bytes of the length before a message
          Size,      \* _size: bytes of the ring
          MaxRead,   \* length of the buffer the reader hands to GetOneData
          MaxCrash   \* bound on the crashes considered

ASSUME SizeAssumption == /\ HeadLen \in Nat \ {0}
                         /\ Size \in Nat
                         /\ HeadLen < Size
                         /\ MaxRead \in Nat
                         /\ MaxCrash \in Nat

ASSUME MsgAssumption == Msg \subseteq Seq(Byte)

VARIABLES begin, end,   \* _begin and _end, in the shared segment
          buf,          \* the bytes that follow the header of the segment
          pstep, pmsg, pbeg, pend,               \* writer: AppendOneData
          cstep, cbeg, cend, cused, clen, cbuf,  \* reader: GetOneData
          out,          \* what the last successful GetOneData returned
          crashes,
          log           \* history: the messages in the ring, where each starts

shm    == <<begin, end, buf>>
writer == <<pstep, pmsg, pbeg, pend>>
reader == <<cstep, cbeg, cend, cused, clen, cbuf>>
vars   == <<shm, writer, reader, out, crashes, log>>

Cells == 0 .. Size - 1

(* The k-th byte of the length field of a message of n bytes.              *)
LenByte(k, n) == <<k, n>>

NoReserve(b, e) == IF b = e THEN Size           \* mutant: no byte stays free
                   ELSE IF b > e THEN b - e
                   ELSE Size - e + b

(* ShmPipe::GetLeftSize: one byte stays free, so that a full ring is not   *)
(* mistaken for an empty one.                                              *)
GetLeftSize(b, e) == (IF b = e THEN Size
                      ELSE IF b > e THEN b - e
                      ELSE Size - e + b) - 1

NeverEmpty(b, e) == IF b < e THEN e - b ELSE Size + b - e   \* mutants: an
EmptyWrapped(b, e) == IF b < e THEN e - b ELSE 0    \* empty ring reads as full,
                                                    \* a wrapped one as empty

(* ShmPipe::GetUsedSize, as written: when the data wraps around the end of *)
(* the ring the code returns _size + begin - end, which is more than       *)
(* _size, and not the _size - begin + end bytes in use.                    *)
GetUsedSize(b, e) == IF b = e THEN 0
                     ELSE IF b < e THEN e - b
                     ELSE Size + b - e

(* How far cell i is after cell at, going round the ring.                  *)
Dist(at, i) == IF at <= i THEN i - at ELSE i - at + Size

Init == /\ begin = 0 /\ end = 0
        /\ buf = [i \in Cells |-> NoByte]
        /\ pstep = "idle" /\ pmsg = << >> /\ pbeg = 0 /\ pend = 0
        /\ cstep = "idle" /\ cbeg = 0 /\ cend = 0 /\ cused = 0 /\ clen = 0
        /\ cbuf = << >> /\ out = << >>
        /\ crashes = 0
        /\ log = << >>

-----------------------------------------------------------------------------
(* The writer.                                                             *)

(* Reads both indexes; returns false at once if the message does not fit.  *)
AppendCheck(m) ==
    /\ pstep = "idle"
    /\ HeadLen + Len(m) <= GetLeftSize(begin, end)
    /\ pstep' = "header"
    /\ pmsg' = m
    /\ UNCHANGED <<shm, pbeg, pend, reader, out, crashes, log>>

(* Reads the indexes again and writes the four bytes of the length.        *)
AppendHeader ==
    /\ pstep = "header"
    /\ pstep' = "payload"
    /\ pbeg' = begin
    /\ pend' = (end + HeadLen) % Size
    /\ buf' = [i \in Cells |-> IF Dist(end, i) < HeadLen
                               THEN LenByte(Dist(end, i), Len(pmsg))
                               ELSE buf[i]]
    /\ UNCHANGED <<begin, end, pmsg, reader, out, crashes, log>>

(* One memcpy when begin is ahead of the write position or the message     *)
(* ends before the ring does, two otherwise.                               *)
AppendPayload ==
    /\ pstep = "payload"
    /\ pstep' = "publish"
    /\ buf' = [i \in Cells |->
                 IF Dist(pend, i) < Len(pmsg) /\ (pbeg > pend => pend <= i)
                 THEN pmsg[Dist(pend, i) + 1]
                 ELSE buf[i]]
    /\ UNCHANGED <<begin, end, pmsg, pbeg, pend, reader, out, crashes, log>>

(* SetIndex(NULL, &tmp_end): the message exists from here on.              *)
AppendPublish ==
    /\ pstep = "publish"
    /\ pstep' = "idle"
    /\ end' = (pend + Len(pmsg)) % Size
    /\ log' = Append(log, [at |-> end, msg |-> pmsg])
    /\ UNCHANGED <<begin, buf, pmsg, pbeg, pend, reader, out, crashes>>

-----------------------------------------------------------------------------
(* The reader.                                                             *)

GetStart ==
    /\ cstep = "idle"
    /\ cstep' = "used"
    /\ cbeg' = begin
    /\ cend' = end
    /\ UNCHANGED <<shm, writer, cused, clen, cbuf, out, crashes, log>>

(* The recovery of the code from a ring it takes for damaged: skip to the  *)
(* end read at the start of the call.                                      *)
DropAll == begin' = cend /\ cstep' = "idle"

(* GetUsedSize reads the indexes once more, and _end may have moved.       *)
GetUsed ==
    LET used == GetUsedSize(begin, end) IN
    /\ cstep = "used"
    /\ cused' = used
    /\ IF used = 0 THEN cstep' = "idle" /\ UNCHANGED begin
       ELSE IF used < HeadLen THEN DropAll
       ELSE cstep' = "header" /\ UNCHANGED begin
    /\ UNCHANGED <<end, buf, writer, cbeg, cend, clen, cbuf, out, crashes, log>>

(* The lengths the HeadLen bytes at cell i spell: one if they were written *)
(* as the length of one message, anything otherwise.                       *)
LenAt(i) ==
    LET spelt == {n \in {Len(m) : m \in Msg} :
                    \A k \in 0 .. HeadLen - 1 : buf[(i + k) % Size] = LenByte(k, n)}
    IN  IF spelt # {} THEN spelt ELSE 0 .. 2 * Size

GetHeader ==
    /\ cstep = "header"
    /\ \E n \in LenAt(cbeg) :
          /\ clen' = n
          /\ IF n + HeadLen > cused THEN DropAll
             ELSE /\ cstep' = IF n > MaxRead THEN "idle" ELSE "payload"
                  /\ UNCHANGED begin
    /\ cbeg' = (cbeg + HeadLen) % Size
    /\ UNCHANGED <<end, buf, writer, cend, cused, cbuf, out, crashes, log>>

NoWrap(j) == IF cbeg + j - 1 < Size THEN buf[cbeg + j - 1]      \* mutant: runs on
             ELSE NoByte                                       \* past the ring
SkipOne(j) == LET i == cbeg + j - 1                            \* mutant: the second
              IN  IF i < Size THEN buf[i]                      \* part is off by one
                  ELSE buf[(i - Size + 1) % Size]

(* The cell the j-th byte of the message is copied from; past the ring     *)
(* lies memory that is not the pipe's.                                     *)
CopyFrom(j) == LET i == cbeg + j - 1
               IN  IF i < Size THEN buf[i]
                   ELSE IF cbeg < cend THEN NoByte
                   ELSE buf[(i - Size) % Size]

GetPayload ==
    /\ cstep = "payload"
    /\ cstep' = "advance"
    /\ cbuf' = [j \in 1 .. clen |-> CopyFrom(j)]
    /\ UNCHANGED <<shm, writer, cbeg, cend, cused, clen, out, crashes, log>>

(* SetIndex(&tmp_begin, NULL) and return true.                             *)
GetAdvance ==
    /\ cstep = "advance"
    /\ cstep' = "idle"
    /\ begin' = (cbeg + clen) % Size
    /\ out' = cbuf
    /\ log' = Tail(log)
    /\ UNCHANGED <<end, buf, writer, cbeg, cend, cused, clen, cbuf, crashes>>

-----------------------------------------------------------------------------
(* Either process dies in the middle of a call and is started again: it    *)
(* attaches to the same segment and keeps its indexes (ShmPipe::Reuse).    *)
WriterCrash ==
    /\ pstep # "idle" /\ crashes < MaxCrash
    /\ pstep' = "idle"
    /\ crashes' = crashes + 1
    /\ UNCHANGED <<shm, pmsg, pbeg, pend, reader, out, log>>

ReaderCrash ==
    /\ cstep # "idle" /\ crashes < MaxCrash
    /\ cstep' = "idle"
    /\ crashes' = crashes + 1
    /\ UNCHANGED <<shm, writer, cbeg, cend, cused, clen, cbuf, out, log>>

Write == \/ \E m \in Msg : AppendCheck(m)
         \/ AppendHeader \/ AppendPayload \/ AppendPublish

Read == GetStart \/ GetUsed \/ GetHeader \/ GetPayload \/ GetAdvance

Next == Write \/ Read \/ WriterCrash \/ ReaderCrash

Spec == Init /\ [][Next]_vars

(* Both processes run a polling loop: the reader calls GetOneData for ever *)
(* (FrameServer::Run, ConnectServer::Run) and a call once begun goes on.   *)
FairSpec == Spec /\ WF_vars(Read)

-----------------------------------------------------------------------------
TypeOK ==
    /\ begin \in Cells /\ end \in Cells
    /\ buf \in [Cells -> Byte \cup ((0 .. HeadLen - 1) \X Nat) \cup {NoByte}]
    /\ pstep \in {"idle", "header", "payload", "publish"}
    /\ pmsg \in Msg \cup {<< >>} /\ pbeg \in Cells /\ pend \in Cells
    /\ cstep \in {"idle", "used", "header", "payload", "advance"}
    /\ cbeg \in Cells /\ cend \in Cells
    /\ cused \in Nat /\ clen \in Nat
    /\ out \in Msg \cup {<< >>}
    /\ crashes \in Nat
    /\ log \in Seq([at : Cells, msg : Msg])

(* What AppendOneData is about to write never reaches past the ring and    *)
(* never touches a byte the reader has not consumed, whatever the reader   *)
(* did since the room was checked: the message being written and the       *)
(* messages in the ring leave the reserved byte free (shm_pipe.cpp:65).    *)
WriteIsSafe ==
    /\ pstep # "idle" => Dist(begin, end) + HeadLen + Len(pmsg) < Size
    /\ pstep = "payload" /\ pbeg > pend => pend + Len(pmsg) <= Size

(* What GetOneData copies lies inside the ring and inside published data,  *)
(* although it takes the end of the data from a first read of _end and the *)
(* amount from a later one (shm_pipe.cpp:125, 127).                        *)
ReadIsSafe ==
    cstep = "payload" =>
        /\ HeadLen + clen <= Dist(begin, end)
        /\ cbeg < cend => cbeg + clen <= Size

(* The pipe is a FIFO queue of messages: no message is lost, repeated,     *)
(* reordered or mixed with another, with any interleaving of the two sides *)
(* and crashes of either in the middle of a call.                          *)
fifo == INSTANCE Fifo WITH queue <- [i \in DOMAIN log |-> log[i].msg]

IsFifo == fifo!Spec

(* With messages the reader has room for, every appended message is taken. *)
Drains == fifo!FairSpec
=============================================================================
