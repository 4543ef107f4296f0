---------------------------- MODULE CanOtaProofs ----------------------------
(***************************************************************************)
(* The transfer over CAN keeps the promise of UpdateTransfer, although a   *)
(* START is repeated, sequence numbers wrap and frames and statuses of     *)
(* older sessions are met: for all files, frame counts, sequence widths,   *)
(* FIFO depths, retries and numbers of sessions, faults and resets.        *)
(*                                                                         *)
(* The argument is about order.  Whatever the device still owes an older   *)
(* session it pays before it reads a frame of the new one; a START is read *)
(* before the first DATA frame; and after that one frame or one ACK is     *)
(* under way at a time.                                                    *)
(***************************************************************************)
EXTENDS CanOta, SequenceTheorems, TLAPS

Off == {"idle", "failed", "ok"}
Modes == {"boot", "app", "window", "wait"} \cup Receiving

TypeInv ==
    /\ pst \in Active \cup Off /\ file \in Files \cup {NoFile} /\ sent \in Nat
    /\ pst \in Active => file \in Files
    /\ wire \in Seq(Frame) /\ fifo \in Seq(Frame) /\ toPc \in Seq(Status)
    /\ mode \in Modes /\ total \in Nat /\ got \in Seq(Chunk)

IsAck(i) == i \in 1..Len(toPc) /\ toPc[i].cmd = "ACK"
NoAck == \A i \in 1..Len(toPc) : ~IsAck(i)
Agrees == \A i \in 1..Len(got) : got[i] = <<file, i>>

(* Where the sender is tells how many frames have been acknowledged.       *)
Position ==
    /\ pst \in {"start", "waitStart"} => sent = 0
    /\ pst \in {"data", "waitData"} => sent < FrameCount[file]
    /\ pst \in {"end", "waitEnd"} => sent = FrameCount[file]

(* A frame that carries a session on, and the one the sender waits for.    *)
Matters(f) == f.cmd \in {"DATA", "END"}
Current(f) ==
    \/ /\ pst = "waitData" /\ f.cmd = "DATA"
       /\ f.seq = sent % SeqMod /\ f.data = <<file, sent + 1>>
    \/ pst = "waitEnd" /\ f.cmd = "END"

(* Such a frame is the last one under way, or a leftover of an older       *)
(* session that the device reads first and has not answered yet.           *)
LineInv ==
    /\ Len(fifo) <= FifoDepth
    /\ pst \notin Active => wire = <<>>
    /\ \A i \in 1..Len(wire) : Matters(wire[i]) => i = Len(wire) /\ Current(wire[i])
    /\ CanOn => \A i \in 1..Len(fifo) : Matters(fifo[i]) =>
         \/ Current(fifo[i]) /\ i = Len(fifo) /\ wire = <<>>
         \/ pst \notin Active /\ \A j \in 1..Len(fifo) : Matters(fifo[j]) => i = j
         \/ pst \in {"start", "waitStart"} /\ NoAck /\ i = 1 /\ mode \in {"data", "end"}
    /\ pst \in Active /\ sent > 0 =>
         /\ \A i \in 1..Len(wire) : wire[i].cmd # "START"
         /\ CanOn => \A i \in 1..Len(fifo) : fifo[i].cmd # "START"
    /\ mode = "install" =>
         /\ \A i \in 1..Len(wire) : ~Matters(wire[i])
         /\ \A i \in 1..Len(fifo) : ~Matters(fifo[i])

(* ACKs of STARTs (code 0) come before the ACK of the first DATA frame; an *)
(* ACK of a DATA frame is the last and leaves the line empty, and its code *)
(* tells whether the device has this session's frames.                     *)
ReplyInv ==
    /\ pst \in {"start", "waitStart"} =>
         \A i, j \in 1..Len(toPc) : IsAck(i) /\ IsAck(j) /\ i < j => toPc[j].code = 0
    /\ pst \in {"data", "end"} =>
         \A i \in 1..Len(toPc) : IsAck(i) => toPc[i].code = 0 /\ sent = 0
    /\ pst = "waitData" => \A i \in 1..Len(toPc) : IsAck(i) =>
         \/ toPc[i].code = 0 /\ sent = 0
         \/ /\ wire = <<>> /\ (CanOn => fifo = <<>>)
            /\ \A j \in 1..Len(toPc) : IsAck(j) => j <= i
            /\ toPc[i].code = sent + 1 /\ mode \in Receiving => Agrees /\ Len(got) = sent + 1
    /\ pst = "waitEnd" => \A i \in 1..Len(toPc) : IsAck(i) => landed = file

(* After the first acknowledged DATA frame a receiver that is busy is busy *)
(* with this session.                                                      *)
StreamInv ==
    /\ pst \in {"data", "waitData", "end", "waitEnd"} /\ sent > 0 /\ mode \in Receiving =>
         /\ Agrees /\ Len(got) \in {sent, sent + 1}
         /\ (pst # "waitData" \/ wire # <<>> \/ fifo # <<>>) => Len(got) = sent
    /\ mode = "install" /\ pst \in Active =>
         (pst \in {"start", "waitStart"} /\ NoAck) \/ pst = "waitEnd"

EndInLine == \/ \E i \in 1..Len(wire) : wire[i].cmd = "END"
             \/ \E i \in 1..Len(fifo) : fifo[i].cmd = "END"

(* A complete file that an END may still close, or that is being           *)
(* installed, has been sent to its end.                                    *)
InstallInv ==
    mode = "install" \/ (mode \in {"data", "end"} /\ EndInLine) =>
        \A f \in Good : Complete(f) => f \in ended

StepInv == Position /\ LineInv /\ ReplyInv /\ StreamInv /\ InstallInv
IInv == TypeInv /\ StepInv

-----------------------------------------------------------------------------
(* Frames, statuses and numbers.                                           *)

(* Every number on the line is a sequence number.                          *)
LEMMA SeqNumber ==
  StartSeq \in 0..StartSeq /\ 0 \in 0..StartSeq /\ \A n \in Nat : n % SeqMod \in 0..StartSeq
  BY NumberAssumption DEF StartSeq

(* What a read leaves of a queue.                                          *)
LEMMA AfterRead ==
  ASSUME NEW S, NEW q \in Seq(S), q # <<>>
  PROVE  /\ Head(q) = q[1] /\ Head(q) \in S /\ Tail(q) \in Seq(S)
         /\ Len(q) \in Nat \ {0} /\ Len(Tail(q)) = Len(q) - 1
         /\ Len(q) = 1 => Tail(q) = <<>>
         /\ \A i \in 1..Len(Tail(q)) : i + 1 \in 1..Len(q) /\ Tail(q)[i] = q[i + 1]
<1>1. /\ Head(q) \in S /\ Tail(q) \in Seq(S) /\ Len(Tail(q)) = Len(q) - 1
      /\ \A i \in 1..Len(Tail(q)) : Tail(q)[i] = q[i + 1]
  BY HeadTailProperties
<1>2. Len(q) \in Nat \ {0} BY EmptySeq
<1>3. Head(q) = q[1] BY <1>2
<1>4. Len(q) = 1 => Tail(q) = <<>>
  <2>1. Tail(q) # <<>> => Len(Tail(q)) \in Nat \ {0}
    BY <1>1, EmptySeq
  <2>2. QED BY <1>1, <2>1
<1>5. QED BY <1>1, <1>2, <1>3, <1>4

(* Send puts one frame behind what is in the adapter.                      *)
LEMMA Sent ==
  ASSUME TypeInv, NEW cmd \in {"START", "DATA", "END"}, NEW seq \in 0..StartSeq,
         NEW size \in Nat, NEW data \in Chunk, Send(cmd, seq, size, data)
  PROVE  /\ wire' \in Seq(Frame) /\ Len(wire) \in Nat /\ Len(wire') = Len(wire) + 1
         /\ \A i \in 1..Len(wire) : wire'[i] = wire[i]
         /\ wire'[Len(wire) + 1].cmd = cmd /\ wire'[Len(wire) + 1].seq = seq
         /\ wire'[Len(wire) + 1].size = size /\ wire'[Len(wire) + 1].data = data
<1>1. [cmd |-> cmd, seq |-> seq, size |-> size, data |-> data] \in Frame BY DEF Frame
<1>2. wire \in Seq(Frame) BY DEF TypeInv
<1>3. Len(wire) \in Nat BY <1>2, LenProperties
<1>4. QED BY <1>1, <1>2, <1>3 DEF Send

(* Post adds one status, or nothing when nobody listens.                   *)
LEMMA Posted ==
  ASSUME TypeInv, NEW cmd \in {"ACK", "ERROR"}, NEW seq \in 0..StartSeq, NEW code \in Nat,
         Post(cmd, seq, code)
  PROVE  /\ toPc' \in Seq(Status) /\ Len(toPc) \in Nat
         /\ \/ toPc' = toPc
            \/ /\ Len(toPc') = Len(toPc) + 1
               /\ \A i \in 1..Len(toPc) : toPc'[i] = toPc[i]
               /\ toPc'[Len(toPc) + 1].cmd = cmd /\ toPc'[Len(toPc) + 1].code = code
<1> DEFINE item == [cmd |-> cmd, seq |-> seq, code |-> code]
<1>1. item \in Status /\ item.cmd = cmd /\ item.code = code BY DEF Status
<1>2. toPc \in Seq(Status) BY DEF TypeInv
<1>3. toPc' = toPc \/ toPc' = Append(toPc, item) BY DEF Post
<1>4. /\ Append(toPc, item) \in Seq(Status)
      /\ Len(Append(toPc, item)) = Len(toPc) + 1
      /\ \A i \in 1..Len(toPc) : Append(toPc, item)[i] = toPc[i]
      /\ Append(toPc, item)[Len(toPc) + 1] = item
  BY <1>1, <1>2
<1>5. Len(toPc) \in Nat BY <1>2, LenProperties
<1> HIDE DEF item
<1>6. QED BY <1>1, <1>2, <1>3, <1>4, <1>5

(* No ACK is added to what waits for the PC.                               *)
Chatter ==
    \/ toPc' = toPc
    \/ /\ Len(toPc') = Len(toPc) + 1
       /\ \A i \in 1..Len(toPc) : toPc'[i] = toPc[i]
       /\ toPc'[Len(toPc) + 1].cmd # "ACK"

LEMMA SameAcks ==
  ASSUME TypeInv, Chatter
  PROVE  /\ \A i : IsAck(i)' <=> IsAck(i)
         /\ Len(toPc) \in Nat /\ Len(toPc') \in Nat /\ Len(toPc) <= Len(toPc')
         /\ \A i \in 1..Len(toPc) : toPc'[i] = toPc[i]
<1>1. Len(toPc) \in Nat BY LenProperties DEF TypeInv
<1>2. QED BY <1>1 DEF Chatter, IsAck

(* One ACK is added, with this code.                                       *)
AddsAck(code) ==
    /\ Len(toPc') = Len(toPc) + 1
    /\ \A i \in 1..Len(toPc) : toPc'[i] = toPc[i]
    /\ toPc'[Len(toPc) + 1].cmd = "ACK" /\ toPc'[Len(toPc) + 1].code = code

LEMMA NewAck ==
  ASSUME TypeInv, NEW code, AddsAck(code)
  PROVE  /\ Len(toPc) \in Nat
         /\ \A i : IsAck(i)' <=> (IsAck(i) \/ i = Len(toPc) + 1)
<1>1. Len(toPc) \in Nat BY LenProperties DEF TypeInv
<1>2. QED BY <1>1 DEF AddsAck, IsAck

(* Reply adds its status, or it is lost.                                   *)
LEMMA Replied ==
  ASSUME TypeInv, NEW cmd \in {"ACK", "ERROR"}, NEW seq \in 0..StartSeq, NEW code \in Nat,
         Reply(cmd, seq, code)
  PROVE  /\ toPc' \in Seq(Status)
         /\ cmd = "ERROR" => Chatter
         /\ cmd = "ACK" => Chatter \/ AddsAck(code)
<1>1. CASE Post(cmd, seq, code)
  BY <1>1, Posted DEF Chatter, AddsAck
<1>2. CASE UNCHANGED toPc
  BY <1>2 DEF TypeInv, Chatter
<1>3. QED BY <1>1, <1>2 DEF Reply

(* What every refusal does, whatever the reason.                           *)
Refusal ==
    /\ Leave
    /\ \E seq \in 0..StartSeq, code \in Nat :
         Reply("ERROR", seq, code) \/ Post("ERROR", seq, code)

LEMMA Left ==
  ASSUME TypeInv, Leave
  PROVE  /\ mode' \in {"app", "wait"} /\ mode' \notin Receiving /\ mode' \in Modes
         /\ total' \in Nat /\ got' \in Seq(Chunk)
<1>1. <<>> \in Seq(Chunk) BY EmptySeq
<1>2. QED BY <1>1 DEF Leave, Receiving, Modes

LEMMA RefusalFacts ==
  ASSUME TypeInv, Refusal
  PROVE  Leave /\ Chatter /\ toPc' \in Seq(Status)
<1>1. PICK seq \in 0..StartSeq, code \in Nat :
        Reply("ERROR", seq, code) \/ Post("ERROR", seq, code)
  BY DEF Refusal
<1>2. CASE Reply("ERROR", seq, code) BY <1>2, Replied DEF Refusal
<1>3. CASE Post("ERROR", seq, code) BY <1>3, Posted DEF Refusal, Chatter
<1>4. QED BY <1>1, <1>2, <1>3

-----------------------------------------------------------------------------
(* Types.                                                                  *)

LEMMA TypeInit == Init => TypeInv
  BY DEF Init, TypeInv, Active, Waiting, Off, Modes

LEMMA NumberTypes == ASSUME TypeInv PROVE Expected \in 0..StartSeq /\ Len(got) \in Nat
<1>1. Len(got) \in Nat BY LenProperties DEF TypeInv
<1>2. QED BY <1>1, SeqNumber DEF Expected

LEMMA TypeStep == ASSUME TypeInv, [Next]_vars PROVE TypeInv'
<1> USE DEF TypeInv, pc, net, device, budget, history
<1>1. <<>> \in Seq(Chunk) /\ <<>> \in Seq(Frame) /\ <<>> \in Seq(Status)
  BY EmptySeq
<1>2. CASE NewSession \/ Kill \/ PcTimeout
  <2>1. CASE NewSession BY <1>1, <2>1 DEF NewSession, Active
  <2>2. CASE Kill BY <1>1, <2>2 DEF Kill, Close, Active, Waiting, Off
  <2>3. CASE PcTimeout BY <1>1, <2>3 DEF PcTimeout, Close, Active, Waiting, Off
  <2>4. QED BY <1>2, <2>1, <2>2, <2>3
<1>3. CASE SendStart
  <2>1. CASE tries < MaxTries
    <3>1. FrameCount[file] \in Nat /\ NoChunk \in Chunk
      BY <1>3, FileAssumption DEF SendStart, Active, NoChunk, Chunk
    <3>2. Send("START", StartSeq, FrameCount[file], NoChunk) BY <1>3, <2>1 DEF SendStart
    <3>3. wire' \in Seq(Frame) BY <3>1, <3>2, SeqNumber, Sent
    <3>4. QED BY <1>3, <2>1, <3>3 DEF SendStart, Active, Waiting
  <2>2. CASE ~(tries < MaxTries)
    BY <1>1, <1>3, <2>2 DEF SendStart, Close, Active, Waiting, Off
  <2>3. QED BY <2>1, <2>2
<1>4. CASE SendData
  <2>1. sent % SeqMod \in 0..StartSeq /\ <<file, sent + 1>> \in Chunk
    <3>1. sent % SeqMod \in 0..StartSeq BY SeqNumber
    <3>2. QED BY <3>1 DEF Chunk
  <2>2. wire' \in Seq(Frame) BY <1>4, <2>1, Sent DEF SendData
  <2>3. QED BY <1>4, <2>2 DEF SendData, Active, Waiting
<1>5. CASE SendEnd
  <2>1. sent % SeqMod \in 0..StartSeq /\ NoChunk \in Chunk
    BY SeqNumber DEF Chunk, NoChunk
  <2>2. wire' \in Seq(Frame) BY <1>5, <2>1, Sent DEF SendEnd
  <2>3. QED BY <1>5, <2>2 DEF SendEnd, Active, Waiting
<1>6. CASE ReadStatus
  <2>1. Tail(toPc) \in Seq(Status)
    BY <1>6, AfterRead DEF ReadStatus
  <2>2. pst \in Active BY <1>6 DEF ReadStatus, Active
  <2>3. toPc' \in Seq(Status) /\ wire' \in Seq(Frame)
    BY <1>1, <1>6, <2>1 DEF ReadStatus, Acknowledged, Close
  <2>4. pst' \in Active \cup Off /\ sent' \in Nat
    BY <1>6, <2>2 DEF ReadStatus, Acknowledged, Close, Active, Waiting, Off
  <2>5. QED BY <1>6, <2>2, <2>3, <2>4 DEF ReadStatus
<1>7. CASE Deliver
  <2>1. Head(wire) \in Frame /\ Tail(wire) \in Seq(Frame)
    BY <1>7, AfterRead DEF Deliver
  <2>2. fifo' \in Seq(Frame)
    <3>1. CASE Len(fifo) < FifoDepth BY <1>7, <2>1, <3>1 DEF Deliver
    <3>2. CASE ~(Len(fifo) < FifoDepth)
      <4>1. FifoDepth \in 1..Len(fifo) BY <3>2, NumberAssumption, LenProperties
      <4>2. QED BY <1>7, <2>1, <3>2, <4>1, ExceptSeq DEF Deliver
    <3>3. QED BY <3>1, <3>2
  <2>3. QED BY <1>7, <2>1, <2>2 DEF Deliver
<1>8. CASE Lose BY <1>8, AfterRead DEF Lose
<1>9. CASE BootDone \/ Reset
  <2>1. CASE BootDone BY <1>1, <2>1 DEF BootDone, Modes
  <2>2. CASE Reset BY <1>1, <2>2 DEF Reset, Modes
  <2>3. QED BY <1>9, <2>1, <2>2
<1>10. CASE WindowExpires
  BY <1>10, Left DEF WindowExpires
<1>11. CASE McuTimeout
  <2>1. toPc' \in Seq(Status)
    BY <1>11, NumberTypes, Posted DEF McuTimeout
  <2>2. QED BY <1>11, <2>1, Left DEF McuTimeout, Unchanged
<1>12. CASE Enter
  <2>1. Tail(fifo) \in Seq(Frame) /\ Head(fifo).seq \in 0..StartSeq /\ Head(fifo).size \in Nat
    <3>1. Tail(fifo) \in Seq(Frame) /\ Head(fifo) \in Frame BY <1>12, AfterRead DEF Enter
    <3>2. QED BY <3>1 DEF Frame
  <2>2. toPc' \in Seq(Status)
    BY <1>12, <2>1, Replied DEF Enter
  <2>3. mode' \in Modes /\ total' \in Nat /\ got' \in Seq(Chunk)
    BY <1>1, <1>12, <2>1, Left DEF Enter, Modes, Receiving
  <2>4. QED BY <1>12, <2>1, <2>2, <2>3 DEF Enter, Unchanged
<1>13. CASE ReceiveData
  <2> DEFINE f == Head(fifo)
  <2>1. /\ Tail(fifo) \in Seq(Frame) /\ f.seq \in 0..StartSeq /\ f.data \in Chunk
        /\ Len(Append(got, f.data)) \in Nat /\ Append(got, f.data) \in Seq(Chunk)
    <3>1. Tail(fifo) \in Seq(Frame) /\ f \in Frame BY <1>13, AfterRead DEF ReceiveData
    <3>2. f.seq \in 0..StartSeq /\ f.data \in Chunk BY <3>1 DEF Frame
    <3>3. Append(got, f.data) \in Seq(Chunk) BY <3>2
    <3>4. QED BY <3>1, <3>2, <3>3, LenProperties
  <2>2. CASE Refusal
    BY <1>13, <2>1, <2>2, RefusalFacts, Left DEF ReceiveData, Unchanged
  <2>3. CASE UNCHANGED <<device, toPc>>
    BY <1>13, <2>1, <2>3 DEF ReceiveData, Unchanged
  <2>4. CASE /\ got' = Append(got, f.data) /\ mode' \in {"data", "end"}
             /\ Reply("ACK", f.seq, Len(Append(got, f.data))) /\ UNCHANGED total
    <3>1. toPc' \in Seq(Status) BY <2>1, <2>4, Replied
    <3>2. QED
      BY <1>13, <2>1, <2>4, <3>1 DEF ReceiveData, Unchanged, Modes, Receiving
  <2>5. QED
    BY <1>13, <2>1, <2>2, <2>3, <2>4, NumberTypes DEF ReceiveData, TakeData, Refuse, Refusal
<1>14. CASE ReceiveEnd
  <2>1. Tail(fifo) \in Seq(Frame) BY <1>14, AfterRead DEF ReceiveEnd
  <2>2. CASE Refusal
    BY <1>14, <2>1, <2>2, RefusalFacts, Left DEF ReceiveEnd, Unchanged
  <2>3. CASE AcceptEnd
    BY <1>14, <2>1, <2>3 DEF ReceiveEnd, AcceptEnd, Unchanged, Modes, Receiving
  <2>4. QED BY <1>14, <2>2, <2>3, NumberTypes DEF ReceiveEnd, Refuse, Refusal
<1>15. CASE Install
  <2>1. CASE Refusal /\ UNCHANGED fifo
    BY <1>15, <2>1, RefusalFacts, Left DEF Install, Unchanged
  <2>2. ASSUME NEW f \in Good, Commit(f) PROVE TypeInv'
    <3>1. toPc' \in Seq(Status) BY <2>2, NumberTypes, Replied DEF Commit
    <3>2. QED BY <1>1, <1>15, <2>2, <3>1 DEF Install, Commit, Unchanged, Modes
  <2>3. QED BY <1>15, <2>1, <2>2, NumberTypes DEF Install, Refuse, Refusal
<1>16. CASE UNCHANGED vars
  BY <1>16 DEF vars
<1>17. QED
  BY <1>2, <1>3, <1>4, <1>5, <1>6, <1>7, <1>8, <1>9, <1>10, <1>11, <1>12, <1>13,
     <1>14, <1>15, <1>16 DEF Next, Sender, Mcu

-----------------------------------------------------------------------------
(* What steps of the device have in common.                                *)

(* At most one frame under way matters, and nothing follows the current    *)
(* one.                                                                    *)
LEMMA AfterHead ==
  ASSUME IInv, CanOn, fifo # <<>>
  PROVE  /\ Head(fifo) = fifo[1] /\ 1 \in 1..Len(fifo) /\ Head(fifo) \in Frame
         /\ Len(Tail(fifo)) \in Nat /\ Len(Tail(fifo)) = Len(fifo) - 1
         /\ \A i \in 1..Len(Tail(fifo)) :
              i + 1 \in 1..Len(fifo) /\ Tail(fifo)[i] = fifo[i + 1]
         /\ \A i \in 1..Len(Tail(fifo)) : Matters(Tail(fifo)[i]) =>
              \/ Current(Tail(fifo)[i]) /\ i = Len(Tail(fifo)) /\ wire = <<>>
              \/ pst \notin Active /\ \A j \in 1..Len(Tail(fifo)) : Matters(Tail(fifo)[j]) => i = j
         /\ Matters(Head(fifo)) =>
              /\ \A i \in 1..Len(Tail(fifo)) : ~Matters(Tail(fifo)[i])
              /\ \A i \in 1..Len(wire) : ~Matters(wire[i])
              /\ \/ Current(Head(fifo)) /\ Tail(fifo) = <<>> /\ wire = <<>>
                 \/ pst \notin Active
                 \/ pst \in {"start", "waitStart"} /\ NoAck /\ mode \in {"data", "end"}
<1> DEFINE rest == Tail(fifo)
           first == Head(fifo)
<1>1. /\ first = fifo[1] /\ first \in Frame /\ Len(fifo) \in Nat \ {0}
      /\ Len(rest) = Len(fifo) - 1 /\ (Len(fifo) = 1 => rest = <<>>)
      /\ \A i \in 1..Len(rest) :
           i + 1 \in 1..Len(fifo) /\ rest[i] = fifo[i + 1]
  BY AfterRead DEF IInv, TypeInv
<1> HIDE DEF rest, first
<1>2. \A i \in 1..Len(fifo) : Matters(fifo[i]) =>
         \/ Current(fifo[i]) /\ i = Len(fifo) /\ wire = <<>>
         \/ pst \notin Active /\ \A j \in 1..Len(fifo) : Matters(fifo[j]) => i = j
         \/ pst \in {"start", "waitStart"} /\ NoAck /\ i = 1 /\ mode \in {"data", "end"}
  BY DEF IInv, StepInv, LineInv
<1>3. \A i \in 1..Len(rest) : Matters(rest[i]) =>
         \/ Current(rest[i]) /\ i = Len(rest) /\ wire = <<>>
         \/ pst \notin Active /\ \A j \in 1..Len(rest) : Matters(rest[j]) => i = j
  <2> TAKE i \in 1..Len(rest)
  <2> HAVE Matters(rest[i])
  <2>1. i + 1 \in 1..Len(fifo) /\ rest[i] = fifo[i + 1] /\ i + 1 # 1
    BY <1>1
  <2>2. CASE Current(fifo[i + 1]) /\ i + 1 = Len(fifo) /\ wire = <<>>
    BY <1>1, <2>1, <2>2 DEF Current
  <2>3. CASE pst \notin Active /\ \A j \in 1..Len(fifo) : Matters(fifo[j]) => i + 1 = j
    <3>1. \A j \in 1..Len(rest) : Matters(rest[j]) => i + 1 = j + 1
      BY <1>1, <2>3
    <3>2. QED BY <2>3, <3>1
  <2>4. QED BY <1>2, <2>1, <2>2, <2>3
<1>4. ASSUME Matters(first)
      PROVE  /\ \A i \in 1..Len(rest) : ~Matters(rest[i])
             /\ \A i \in 1..Len(wire) : ~Matters(wire[i])
             /\ \/ Current(first) /\ rest = <<>> /\ wire = <<>>
                \/ pst \notin Active
                \/ pst \in {"start", "waitStart"} /\ NoAck /\ mode \in {"data", "end"}
  <2>1. \A i \in 1..Len(wire) : Matters(wire[i]) => Current(wire[i])
    BY DEF IInv, StepInv, LineInv
  <2>2. pst \notin Active => wire = <<>> BY DEF IInv, StepInv, LineInv
  <2>3. CASE Current(fifo[1]) /\ 1 = Len(fifo) /\ wire = <<>>
    <3>1. rest = <<>> /\ Len(rest) = 0 /\ Len(wire) = 0 BY <1>1, <2>3
    <3>2. Current(first) BY <1>1, <2>3
    <3>3. QED BY <2>3, <3>1, <3>2
  <2>4. CASE pst \notin Active /\ \A j \in 1..Len(fifo) : Matters(fifo[j]) => 1 = j
    <3>1. \A i \in 1..Len(rest) : ~Matters(rest[i])
      <4>1. \A i \in 1..Len(rest) : Matters(rest[i]) => i + 1 = 1
        BY <1>1, <2>4
      <4>2. QED BY <4>1
    <3>2. Len(wire) = 0 BY <2>2, <2>4
    <3>3. QED BY <2>4, <3>1, <3>2
  <2>5. CASE pst \in {"start", "waitStart"} /\ NoAck /\ mode \in {"data", "end"}
    <3>1. \A i \in 1..Len(wire) : ~Matters(wire[i])
      BY <2>1, <2>5 DEF Current
    <3>2. \A i \in 1..Len(rest) : ~Matters(rest[i])
      BY <1>3, <2>5 DEF Current, Active, Waiting
    <3>3. QED BY <2>5, <3>1, <3>2
  <2>6. 1 \in 1..Len(fifo) /\ Matters(fifo[1]) BY <1>1, <1>4 DEF Matters
  <2>7. QED BY <1>2, <2>3, <2>4, <2>5, <2>6
<1>5. Len(rest) \in Nat /\ 1 \in 1..Len(fifo) BY <1>1
<1>6. QED BY <1>1, <1>3, <1>4, <1>5 DEF rest, first

(* A frame has been read.                                                  *)
LEMMA LineRead ==
  ASSUME IInv, CanOn, fifo # <<>>, fifo' = Tail(fifo), UNCHANGED <<pst, file, sent, wire>>,
         mode' = "install" => Matters(Head(fifo))
  PROVE  LineInv'
<1>1. UNCHANGED Active OBVIOUS
<1>2. Len(fifo') <= FifoDepth
  BY AfterHead, NumberAssumption DEF IInv, StepInv, LineInv
<1>3. /\ pst \notin Active => wire = <<>>
      /\ \A i \in 1..Len(wire) : Matters(wire[i]) => i = Len(wire) /\ Current(wire[i])
  BY DEF IInv, StepInv, LineInv
<1>4. \A i \in 1..Len(fifo') : Matters(fifo'[i]) =>
         \/ Current(fifo'[i]) /\ i = Len(fifo') /\ wire = <<>>
         \/ pst \notin Active /\ \A j \in 1..Len(fifo') : Matters(fifo'[j]) => i = j
  BY AfterHead
<1>5. pst \in Active /\ sent > 0 =>
         /\ \A i \in 1..Len(wire) : wire[i].cmd # "START"
         /\ \A i \in 1..Len(fifo') : fifo'[i].cmd # "START"
  BY AfterHead DEF IInv, StepInv, LineInv
<1>6. mode' = "install" =>
         /\ \A i \in 1..Len(wire) : ~Matters(wire[i])
         /\ \A i \in 1..Len(fifo') : ~Matters(fifo'[i])
  BY AfterHead
<1>7. QED BY <1>2, <1>3, <1>4, <1>5, <1>6 DEF LineInv, Matters, Current

(* The FIFO is read, was empty, or comes up empty.                         *)
Reads ==
    \/ fifo' = fifo /\ (fifo = <<>> \/ mode = "install") /\ CanOn
    \/ fifo # <<>> /\ fifo' = Tail(fifo) /\ CanOn
    \/ fifo' = <<>>

(* A step of the device that ends or does not touch a reception.           *)
LEMMA QuietStep ==
  ASSUME IInv, Reads, Chatter, mode' \notin Receiving,
         UNCHANGED <<pst, file, sent, wire, ended, landed>>
  PROVE  StepInv'
<1>1. Position' BY DEF IInv, StepInv, Position
<1>2. mode' # "install" BY DEF Receiving
<1>3. LineInv'
  <2>1. CASE fifo # <<>> /\ fifo' = Tail(fifo) /\ CanOn
    BY <1>2, <2>1, LineRead
  <2>2. CASE fifo' = <<>>
    <3>1. Len(fifo') = 0 BY <2>2
    <3>2. Len(fifo') <= FifoDepth BY <3>1, NumberAssumption
    <3>3. QED BY <1>2, <3>1, <3>2 DEF IInv, StepInv, LineInv, Matters, Current
  <2>3. CASE fifo' = fifo /\ mode = "install" /\ CanOn
    BY <1>2, <2>3 DEF IInv, StepInv, LineInv, Matters, Current
  <2>4. QED BY <2>1, <2>2, <2>3 DEF Reads
<1>4. ReplyInv'
  <2>1. TypeInv BY DEF IInv
  <2>2. (CanOn => fifo = <<>>) => (CanOn' => fifo' = <<>>)
    BY DEF Reads
  <2>3. CASE pst \in {"start", "waitStart"}
    <3>1. \A i, j \in 1..Len(toPc) : IsAck(i) /\ IsAck(j) /\ i < j => toPc[j].code = 0
      BY <2>3 DEF IInv, StepInv, ReplyInv
    <3>2. \A i, j \in 1..Len(toPc') : IsAck(i)' /\ IsAck(j)' /\ i < j => toPc'[j].code = 0
      BY <2>1, <3>1, SameAcks DEF IsAck
    <3>3. QED BY <2>3, <3>2 DEF ReplyInv
  <2>4. CASE pst \in {"data", "end"}
    BY <2>1, <2>4, SameAcks DEF IInv, StepInv, ReplyInv, IsAck
  <2>5. CASE pst = "waitData"
    <3>1. \A i \in 1..Len(toPc) : IsAck(i) =>
             \/ toPc[i].code = 0 /\ sent = 0
             \/ /\ wire = <<>> /\ (CanOn => fifo = <<>>)
                /\ \A j \in 1..Len(toPc) : IsAck(j) => j <= i
      BY <2>5 DEF IInv, StepInv, ReplyInv
    <3>2. \A i \in 1..Len(toPc') : IsAck(i)' =>
             \/ toPc'[i].code = 0 /\ sent = 0
             \/ /\ wire = <<>> /\ (CanOn' => fifo' = <<>>)
                /\ \A j \in 1..Len(toPc') : IsAck(j)' => j <= i
      BY <2>1, <2>2, <3>1, SameAcks DEF IsAck
    <3>3. QED BY <2>5, <3>2 DEF ReplyInv
  <2>6. CASE pst = "waitEnd"
    BY <2>1, <2>6, SameAcks DEF IInv, StepInv, ReplyInv, IsAck
  <2>7. QED BY <2>3, <2>4, <2>5, <2>6 DEF ReplyInv
<1>5. StreamInv' BY <1>2 DEF StreamInv
<1>6. InstallInv' BY DEF InstallInv, Receiving
<1>7. QED BY <1>1, <1>3, <1>4, <1>5, <1>6 DEF StepInv

-----------------------------------------------------------------------------
(* The steps, one lemma each.                                              *)

LEMMA QuietActions ==
  ASSUME IInv, BootDone \/ WindowExpires \/ McuTimeout \/ Reset
  PROVE  StepInv'
<1> USE DEF pc, net, device, budget, history, Unchanged
<1>1. TypeInv /\ Expected \in 0..StartSeq BY NumberTypes DEF IInv
<1>2. CASE BootDone
  BY <1>2, QuietStep DEF BootDone, Reads, Chatter, Receiving
<1>3. CASE WindowExpires
  <2>1. CanOn /\ mode' \notin Receiving
    BY <1>1, <1>3, Left DEF WindowExpires, CanOn
  <2>2. QED BY <1>3, <2>1, QuietStep DEF WindowExpires, Reads, Chatter
<1>4. CASE McuTimeout
  <2>1. Chatter
    BY <1>1, <1>4, Posted DEF McuTimeout, Chatter
  <2>2. CanOn /\ fifo = <<>> /\ mode' \notin Receiving
    BY <1>1, <1>4, Left DEF McuTimeout, Expires, Quiet, CanOn
  <2>3. QED BY <1>4, <2>1, <2>2, QuietStep DEF McuTimeout, Reads
<1>5. CASE Reset
  BY <1>5, QuietStep DEF Reset, Reads, Chatter, Receiving
<1>6. QED BY <1>2, <1>3, <1>4, <1>5

(* A sender that ends takes its frames with it, but for those that have    *)
(* reached the device.                                                     *)
LEMMA SenderStops ==
  ASSUME IInv, pst' \in Off, wire' = <<>>, UNCHANGED <<file, sent, fifo, mode, got, ended>>
  PROVE  StepInv'
<1>1. pst' \notin Active /\ pst' \notin Waiting /\ Len(wire') = 0
  BY DEF Off, Active, Waiting
<1>2. Position' BY <1>1 DEF Position, Active, Waiting
<1>3. LineInv'
  <2>1. CanOn => \A i, j \in 1..Len(fifo) : Matters(fifo[i]) /\ Matters(fifo[j]) => i = j
    <3> SUFFICES ASSUME CanOn, NEW i \in 1..Len(fifo), NEW j \in 1..Len(fifo),
                        Matters(fifo[i]), Matters(fifo[j])
                 PROVE  i = j
      OBVIOUS
    <3>1. \A k \in {i, j} :
            \/ Current(fifo[k]) /\ k = Len(fifo)
            \/ pst \notin Active /\ \A m \in 1..Len(fifo) : Matters(fifo[m]) => k = m
            \/ pst \in {"start", "waitStart"} /\ k = 1
      BY DEF IInv, StepInv, LineInv
    <3>2. \A k \in {i, j} : Current(fifo[k]) => pst \in {"waitData", "waitEnd"}
      BY DEF Current
    <3>3. QED BY <3>1, <3>2 DEF Active, Waiting
  <2>2. UNCHANGED CanOn BY DEF CanOn
  <2>3. QED BY <1>1, <2>1, <2>2 DEF IInv, StepInv, LineInv, Matters
<1>4. ReplyInv' BY <1>1 DEF ReplyInv, Active, Waiting
<1>5. StreamInv' BY <1>1 DEF StreamInv, Active, Waiting
<1>6. InstallInv'
  <2>1. EndInLine' => EndInLine BY <1>1 DEF EndInLine
  <2>2. QED BY <2>1 DEF IInv, StepInv, InstallInv, Complete, Intact
<1>7. QED BY <1>2, <1>3, <1>4, <1>5, <1>6 DEF StepInv

LEMMA NewSessionStep == ASSUME IInv, NewSession PROVE StepInv'
<1> USE DEF NewSession, device
<1>1. /\ pst \notin Active /\ wire = <<>> /\ Len(wire) = 0 /\ toPc' = <<>> /\ Len(toPc') = 0
      /\ pst' = "start" /\ sent' = 0 /\ UNCHANGED <<wire, fifo, mode, got, ended, CanOn>>
  BY DEF IInv, StepInv, LineInv, CanOn
<1>2. Position' BY <1>1 DEF Position
<1>3. NoAck' BY <1>1 DEF NoAck
<1>4. LineInv'
  <2>1. CanOn => \A i \in 1..Len(fifo) : Matters(fifo[i]) => i = 1 /\ mode \in {"data", "end"}
    <3>1. CASE fifo = <<>>
      BY <3>1
    <3>2. CASE Len(fifo) = 1 /\ mode \in Receiving
      BY <3>2 DEF IInv, StepInv, LineInv, Receiving
    <3>3. QED BY <3>1, <3>2
  <2>2. QED BY <1>1, <1>3, <2>1 DEF IInv, StepInv, LineInv, Matters
<1>5. ReplyInv' BY <1>1 DEF ReplyInv
<1>6. StreamInv' BY <1>1, <1>3 DEF StreamInv
<1>7. InstallInv' BY <1>1 DEF IInv, StepInv, InstallInv, EndInLine, Complete, Intact
<1>8. QED BY <1>2, <1>4, <1>5, <1>6, <1>7 DEF StepInv

LEMMA SendStartStep == ASSUME IInv, SendStart PROVE StepInv'
<1> USE DEF device, budget, history
<1>1. CASE ~(tries < MaxTries)
  BY <1>1, SenderStops DEF SendStart, Close, Off
<1>2. CASE tries < MaxTries
  <2>1. pst = "start" /\ pst' = "waitStart" /\ TypeInv /\ sent = 0
    BY <1>2 DEF SendStart, IInv, StepInv, Position
  <2>2. UNCHANGED <<file, sent, fifo, toPc, mode, got, ended, landed, CanOn>>
    BY <1>2 DEF SendStart, CanOn
  <2>3. /\ Len(wire) \in Nat /\ Len(wire') = Len(wire) + 1
        /\ \A i \in 1..Len(wire) : wire'[i] = wire[i]
        /\ wire'[Len(wire) + 1].cmd = "START"
    <3>1. FrameCount[file] \in Nat /\ NoChunk \in Chunk
      BY <2>1, FileAssumption DEF TypeInv, Active, NoChunk, Chunk
    <3>2. Send("START", StartSeq, FrameCount[file], NoChunk) BY <1>2 DEF SendStart
    <3>3. QED BY <2>1, <3>1, <3>2, SeqNumber, Sent
  <2>4. \A i \in 1..Len(wire) : ~Matters(wire[i])
    BY <2>1 DEF IInv, StepInv, LineInv, Current
  <2>5. \A i \in 1..Len(wire') : ~Matters(wire'[i])
    BY <2>3, <2>4 DEF Matters
  <2>6. Position' BY <2>1, <2>2 DEF IInv, StepInv, Position
  <2>7. LineInv'
    <3>1. CanOn => \A i \in 1..Len(fifo) : Matters(fifo[i]) =>
             NoAck /\ i = 1 /\ mode \in {"data", "end"}
      BY <2>1 DEF IInv, StepInv, LineInv, Current, Active
    <3>2. UNCHANGED NoAck BY <2>2 DEF NoAck, IsAck
    <3>3. QED BY <2>1, <2>2, <2>5, <3>1, <3>2 DEF IInv, StepInv, LineInv, Matters, Active, Waiting
  <2>8. ReplyInv' BY <2>1, <2>2 DEF IInv, StepInv, ReplyInv, IsAck
  <2>9. StreamInv' BY <2>1, <2>2 DEF IInv, StepInv, StreamInv, NoAck, IsAck, Active, Waiting
  <2>10. InstallInv'
    <3>1. EndInLine' => EndInLine BY <2>2, <2>5 DEF EndInLine, Matters
    <3>2. QED BY <2>2, <3>1 DEF IInv, StepInv, InstallInv, Complete, Intact
  <2>11. QED BY <2>6, <2>7, <2>8, <2>9, <2>10 DEF StepInv
<1>3. QED BY <1>1, <1>2

(* Before the sender sends its next frame nothing that matters is under    *)
(* way.                                                                    *)
LEMMA LineClear ==
  ASSUME IInv, pst \in {"data", "end"}
  PROVE  /\ \A i \in 1..Len(wire) : ~Matters(wire[i])
         /\ CanOn => \A i \in 1..Len(fifo) : ~Matters(fifo[i])
         /\ mode # "install"
  BY DEF IInv, StepInv, LineInv, StreamInv, Current, Active, Waiting

LEMMA SendDataStep == ASSUME IInv, SendData PROVE StepInv'
<1> USE DEF device, budget, history
<1>1. pst = "data" /\ pst' = "waitData" /\ TypeInv BY DEF IInv, SendData
<1>2. UNCHANGED <<file, sent, fifo, toPc, mode, got, ended, landed, CanOn>>
  BY DEF SendData, CanOn
<1>3. /\ Len(wire) \in Nat /\ Len(wire') = Len(wire) + 1
      /\ \A i \in 1..Len(wire) : wire'[i] = wire[i]
      /\ wire'[Len(wire) + 1].cmd = "DATA" /\ wire'[Len(wire) + 1].seq = sent % SeqMod
      /\ wire'[Len(wire) + 1].data = <<file, sent + 1>>
  <2>1. sent % SeqMod \in 0..StartSeq BY <1>1, SeqNumber DEF TypeInv
  <2>2. <<file, sent + 1>> \in Chunk BY <1>1 DEF TypeInv, Chunk
  <2>3. Send("DATA", sent % SeqMod, 0, <<file, sent + 1>>) BY DEF SendData
  <2>4. QED BY <1>1, <2>1, <2>2, <2>3, Sent
<1>4. /\ \A i \in 1..Len(wire) : ~Matters(wire[i])
      /\ CanOn => \A i \in 1..Len(fifo) : ~Matters(fifo[i])
      /\ mode # "install"
  BY <1>1, LineClear
<1>5. Position' BY <1>1, <1>2 DEF IInv, StepInv, Position
<1>6. LineInv'
  <2>1. \A i \in 1..Len(wire') : Matters(wire'[i]) => i = Len(wire')
    BY <1>3, <1>4 DEF Matters
  <2>2. Current(wire[Len(wire)])' BY <1>1, <1>2, <1>3 DEF Current
  <2>3. (\A i \in 1..Len(wire) : Matters(wire[i]) => i = Len(wire) /\ Current(wire[i]))'
    BY <2>1, <2>2 DEF Matters
  <2>4. sent > 0 => \A i \in 1..Len(wire') : wire'[i].cmd # "START"
    BY <1>1, <1>3 DEF IInv, StepInv, LineInv, Active
  <2>5. QED
    BY <1>1, <1>2, <1>4, <2>3, <2>4 DEF IInv, StepInv, LineInv, Matters, Active, Waiting
<1>7. ReplyInv' BY <1>1, <1>2 DEF IInv, StepInv, ReplyInv, IsAck
<1>8. StreamInv' BY <1>1, <1>2, <1>4 DEF IInv, StepInv, StreamInv, Agrees
<1>9. InstallInv'
  <2>1. EndInLine' => EndInLine BY <1>2, <1>3 DEF EndInLine
  <2>2. QED BY <1>2, <2>1 DEF IInv, StepInv, InstallInv, Complete, Intact
<1>10. QED BY <1>5, <1>6, <1>7, <1>8, <1>9 DEF StepInv

(* A receiver that has all frames of a good file has those of the file     *)
(* the sender has sent.                                                    *)
LEMMA SameFile ==
  ASSUME NEW f \in Good, Agrees, Complete(f) PROVE f = file
<1>1. FrameCount[f] \in Nat \ {0} BY FileAssumption
<1>2. 1 \in 1..Len(got) BY <1>1 DEF Complete
<1>3. QED BY <1>2 DEF Complete, Intact, Agrees

(* At the end of a file some frame has been acknowledged.                  *)
LEMMA SomeSent ==
  ASSUME IInv, pst \in {"end", "waitEnd"} PROVE sent > 0
<1>1. file \in Files BY DEF IInv, TypeInv, Active, Waiting
<1>2. QED BY <1>1, FileAssumption DEF IInv, StepInv, Position

LEMMA SendEndStep == ASSUME IInv, SendEnd PROVE StepInv'
<1> USE DEF device, budget, history
<1>1. pst = "end" /\ pst' = "waitEnd" /\ TypeInv /\ sent > 0
  BY SomeSent DEF IInv, SendEnd
<1>2. UNCHANGED <<file, sent, fifo, toPc, mode, got, landed, CanOn>>
  BY DEF SendEnd, CanOn
<1>3. ended' = ended \cup {file} BY DEF SendEnd
<1>4. /\ Len(wire) \in Nat /\ Len(wire') = Len(wire) + 1
      /\ \A i \in 1..Len(wire) : wire'[i] = wire[i]
      /\ wire'[Len(wire) + 1].cmd = "END"
  <2>1. sent % SeqMod \in 0..StartSeq BY <1>1, SeqNumber DEF TypeInv
  <2>2. NoChunk \in Chunk BY DEF NoChunk, Chunk
  <2>3. Send("END", sent % SeqMod, 0, NoChunk) BY DEF SendEnd
  <2>4. QED BY <1>1, <2>1, <2>2, <2>3, Sent
<1>5. /\ \A i \in 1..Len(wire) : ~Matters(wire[i])
      /\ CanOn => \A i \in 1..Len(fifo) : ~Matters(fifo[i])
      /\ mode # "install"
  BY <1>1, LineClear
<1>6. Position' BY <1>1, <1>2 DEF IInv, StepInv, Position
<1>7. LineInv'
  <2>1. \A i \in 1..Len(wire') : Matters(wire'[i]) => i = Len(wire')
    BY <1>4, <1>5 DEF Matters
  <2>2. Current(wire[Len(wire)])' BY <1>1, <1>2, <1>4 DEF Current
  <2>3. (\A i \in 1..Len(wire) : Matters(wire[i]) => i = Len(wire) /\ Current(wire[i]))'
    BY <2>1, <2>2 DEF Matters
  <2>4. \A i \in 1..Len(wire') : wire'[i].cmd # "START"
    BY <1>1, <1>4 DEF IInv, StepInv, LineInv, Active
  <2>5. QED
    BY <1>1, <1>2, <1>5, <2>3, <2>4 DEF IInv, StepInv, LineInv, Matters, Active, Waiting
<1>8. ReplyInv' BY <1>1, <1>2 DEF IInv, StepInv, ReplyInv, IsAck
<1>9. StreamInv' BY <1>1, <1>2, <1>5 DEF IInv, StepInv, StreamInv, Agrees
<1>10. InstallInv'
  <2>1. mode \in {"data", "end"} => Agrees
    BY <1>1 DEF IInv, StepInv, StreamInv, Receiving
  <2>2. mode \in {"data", "end"} => \A f \in Good : Complete(f) => f \in ended'
    BY <1>3, <2>1, SameFile
  <2>3. QED BY <1>2, <1>5, <2>2 DEF InstallInv, Complete, Intact
<1>11. QED BY <1>6, <1>7, <1>8, <1>9, <1>10 DEF StepInv

(* A START that was not answered in time is repeated; anything else is     *)
(* given up.                                                               *)
LEMMA PcTimeoutStep == ASSUME IInv, PcTimeout PROVE StepInv'
<1> USE DEF device
<1>1. CASE GivesUp /\ Close("failed")
  BY <1>1, SenderStops DEF PcTimeout, Close, Off
<1>2. CASE pst = "waitStart" /\ pst' = "start" /\ UNCHANGED <<wire, toPc>>
  <2>1. UNCHANGED <<file, sent, fifo, mode, got, ended, landed, CanOn>>
    BY <1>2 DEF PcTimeout, CanOn
  <2>2. UNCHANGED NoAck BY <1>2 DEF NoAck, IsAck
  <2>3. Position' BY <1>2, <2>1 DEF IInv, StepInv, Position
  <2>4. LineInv'
    BY <1>2, <2>1, <2>2 DEF IInv, StepInv, LineInv, Matters, Current, Active, Waiting
  <2>5. ReplyInv' BY <1>2, <2>1 DEF IInv, StepInv, ReplyInv, IsAck
  <2>6. StreamInv' BY <1>2, <2>1, <2>2 DEF IInv, StepInv, StreamInv, Active, Waiting
  <2>7. InstallInv'
    BY <1>2, <2>1 DEF IInv, StepInv, InstallInv, EndInLine, Complete, Intact
  <2>8. QED BY <2>3, <2>4, <2>5, <2>6, <2>7 DEF StepInv
<1>3. QED BY <1>1, <1>2 DEF PcTimeout

(* A status has been read.                                                 *)
LEMMA AfterStatus ==
  ASSUME TypeInv, toPc # <<>>, toPc' = Tail(toPc)
  PROVE  /\ Len(toPc) \in Nat \ {0} /\ Len(toPc') \in Nat
         /\ \A i \in 1..Len(toPc') : i + 1 \in 1..Len(toPc) /\ toPc'[i] = toPc[i + 1]
         /\ \A i \in 1..Len(toPc') : IsAck(i)' => IsAck(i + 1)
         /\ NoAck => NoAck'
<1>1. /\ Len(toPc) \in Nat \ {0} /\ Len(toPc') \in Nat
      /\ \A i \in 1..Len(toPc') : i + 1 \in 1..Len(toPc) /\ toPc'[i] = toPc[i + 1]
  BY AfterRead DEF TypeInv
<1>2. \A i \in 1..Len(toPc') : IsAck(i)' => IsAck(i + 1)
  BY <1>1 DEF IsAck
<1>3. NoAck => NoAck' BY <1>1, <1>2 DEF NoAck
<1>4. QED BY <1>1, <1>2, <1>3

(* An ACK of the awaited frame: the device has taken it.                   *)
LEMMA AcknowledgedStep ==
  ASSUME IInv, IsAck(1), toPc # <<>>, toPc' = Tail(toPc), UNCHANGED wire,
         UNCHANGED <<file, fifo, mode, got, total, ended, landed>>,
         \/ pst = "waitStart" /\ pst' = "data" /\ UNCHANGED sent
         \/ /\ pst = "waitData" /\ toPc[1].code = sent + 1 /\ sent' = sent + 1
            /\ pst' = IF sent + 1 < FrameCount[file] THEN "data" ELSE "end"
  PROVE  StepInv'
<1>1. TypeInv /\ file \in Files /\ sent \in Nat /\ FrameCount[file] \in Nat \ {0}
  BY FileAssumption DEF IInv, TypeInv, Active, Waiting
<1>2. /\ Len(toPc) \in Nat \ {0}
      /\ \A i \in 1..Len(toPc') : i + 1 \in 1..Len(toPc) /\ toPc'[i] = toPc[i + 1]
      /\ \A i \in 1..Len(toPc') : IsAck(i)' => IsAck(i + 1)
  BY <1>1, AfterStatus
<1>3. /\ pst' \in {"data", "end"} /\ UNCHANGED CanOn /\ ~NoAck
      /\ mode # "install"
  <2>1. ~NoAck BY DEF NoAck, IsAck
  <2>2. QED BY <2>1 DEF IInv, StepInv, StreamInv, CanOn, Active, Waiting
<1>4. CASE pst = "waitStart"
  <2>1. sent = 0 /\ sent' = 0 /\ pst' = "data" BY <1>4 DEF IInv, StepInv, Position
  <2>2. Position' BY <1>1, <2>1 DEF Position
  <2>3. LineInv'
    <3>1. /\ \A i \in 1..Len(wire) : ~Matters(wire[i])
          /\ CanOn => \A i \in 1..Len(fifo) : ~Matters(fifo[i])
      BY <1>3, <1>4 DEF IInv, StepInv, LineInv, Current, Active, Waiting
    <3>2. QED
      BY <1>3, <2>1, <3>1 DEF IInv, StepInv, LineInv, Matters, Active, Waiting
  <2>4. ReplyInv'
    <3>1. \A j \in 1..Len(toPc) : IsAck(j) /\ 1 < j => toPc[j].code = 0
      BY <1>2, <1>4 DEF IInv, StepInv, ReplyInv
    <3>2. \A i \in 1..Len(toPc') : IsAck(i)' => toPc'[i].code = 0
      BY <1>2, <3>1
    <3>3. QED BY <2>1, <3>2 DEF ReplyInv
  <2>5. StreamInv' BY <1>3, <2>1 DEF StreamInv
  <2>6. InstallInv' BY DEF IInv, StepInv, InstallInv, EndInLine, Complete, Intact
  <2>7. QED BY <2>2, <2>3, <2>4, <2>5, <2>6 DEF StepInv
<1>5. CASE pst = "waitData"
  <2>1. sent < FrameCount[file] /\ sent' = sent + 1
    BY <1>5 DEF IInv, StepInv, Position
  <2>2. /\ wire = <<>> /\ (CanOn => fifo = <<>>)
        /\ \A j \in 1..Len(toPc) : IsAck(j) => j <= 1
        /\ mode \in Receiving => Agrees /\ Len(got) = sent + 1
    <3>1. 1 \in 1..Len(toPc) /\ toPc[1].code # 0 /\ toPc[1].code = sent + 1
      BY <1>1, <1>2, <1>5
    <3>2. QED BY <1>5, <3>1 DEF IInv, StepInv, ReplyInv
  <2>3. Position' BY <1>1, <1>5, <2>1 DEF Position
  <2>4. LineInv'
    <3>1. Len(wire) = 0 /\ (CanOn => Len(fifo) = 0) BY <2>2
    <3>2. QED BY <1>3, <2>2, <3>1 DEF IInv, StepInv, LineInv, Active
  <2>5. ReplyInv'
    <3>1. \A i \in 1..Len(toPc') : ~IsAck(i)'
      BY <1>2, <2>2
    <3>2. QED BY <1>3, <3>1 DEF ReplyInv
  <2>6. StreamInv' BY <1>1, <1>3, <2>1, <2>2 DEF StreamInv, Agrees
  <2>7. InstallInv' BY DEF IInv, StepInv, InstallInv, EndInLine, Complete, Intact
  <2>8. QED BY <2>3, <2>4, <2>5, <2>6, <2>7 DEF StepInv
<1>6. QED BY <1>4, <1>5

LEMMA ReadStatusStep == ASSUME IInv, ReadStatus PROVE StepInv'
<1> USE DEF device, budget, history
<1>1. TypeInv /\ pst \in Waiting /\ toPc # <<>> BY DEF IInv, ReadStatus
<1>2. UNCHANGED <<file, fifo, mode, got, total, ended, landed, CanOn>>
  BY DEF ReadStatus, CanOn
<1>3. Head(toPc) = toPc[1] /\ 1 \in 1..Len(toPc)
  BY <1>1, AfterRead DEF TypeInv
<1>4. CASE toPc' = Tail(toPc) /\ UNCHANGED <<pst, sent, wire>>
  <2>1. /\ Len(toPc) \in Nat
        /\ \A i \in 1..Len(toPc') : i + 1 \in 1..Len(toPc) /\ toPc'[i] = toPc[i + 1]
        /\ \A i \in 1..Len(toPc') : IsAck(i)' => IsAck(i + 1)
        /\ NoAck => NoAck'
    BY <1>1, <1>4, AfterStatus
  <2>2. Position' BY <1>2, <1>4 DEF IInv, StepInv, Position
  <2>3. LineInv'
    BY <1>2, <1>4, <2>1 DEF IInv, StepInv, LineInv, Matters, Current
  <2>4. ReplyInv'
    <3>1. CASE pst = "waitStart"
      <4>1. \A i, j \in 1..Len(toPc) : IsAck(i) /\ IsAck(j) /\ i < j => toPc[j].code = 0
        BY <3>1 DEF IInv, StepInv, ReplyInv
      <4>2. \A i, j \in 1..Len(toPc') :
              IsAck(i)' /\ IsAck(j)' /\ i < j => i + 1 < j + 1 /\ toPc[j + 1].code = 0
        BY <2>1, <4>1
      <4>3. QED BY <1>4, <2>1, <3>1, <4>2 DEF ReplyInv
    <3>2. CASE pst = "waitData"
      <4> DEFINE Fine(i) == toPc[i].code = sent + 1 /\ mode \in Receiving => Agrees /\ Len(got) = sent + 1
      <4>1. \A i \in 1..Len(toPc) : IsAck(i) =>
               \/ toPc[i].code = 0 /\ sent = 0
               \/ /\ wire = <<>> /\ (CanOn => fifo = <<>>)
                  /\ \A j \in 1..Len(toPc) : IsAck(j) => j <= i
                  /\ Fine(i)
        BY <3>2 DEF IInv, StepInv, ReplyInv
      <4> HIDE DEF Fine
      <4>2. \A i \in 1..Len(toPc') : IsAck(i)' =>
               \/ toPc'[i].code = 0 /\ sent = 0
               \/ /\ wire = <<>> /\ (CanOn => fifo = <<>>)
                  /\ \A j \in 1..Len(toPc') : IsAck(j)' => j <= i
                  /\ Fine(i + 1)
        <5> TAKE i \in 1..Len(toPc')
        <5> HAVE IsAck(i)'
        <5>1. i + 1 \in 1..Len(toPc) /\ IsAck(i + 1) /\ toPc'[i] = toPc[i + 1] BY <2>1
        <5>2. \A j \in 1..Len(toPc') : IsAck(j)' => (j + 1 <= i + 1 => j <= i)
          OBVIOUS
        <5>3. QED BY <2>1, <4>1, <5>1, <5>2
      <4>3. \A i \in 1..Len(toPc') : Fine(i + 1) =>
               (toPc'[i].code = sent + 1 /\ mode \in Receiving => Agrees /\ Len(got) = sent + 1)
        BY <2>1 DEF Fine
      <4>4. QED BY <1>2, <1>4, <3>2, <4>2, <4>3 DEF ReplyInv, Agrees
    <3>3. CASE pst = "waitEnd"
      BY <1>2, <1>4, <2>1, <3>3 DEF IInv, StepInv, ReplyInv
    <3>4. QED BY <1>1, <3>1, <3>2, <3>3 DEF Waiting
  <2>5. StreamInv' BY <1>2, <1>4, <2>1 DEF IInv, StepInv, StreamInv, Agrees
  <2>6. InstallInv'
    BY <1>2, <1>4 DEF IInv, StepInv, InstallInv, EndInLine, Complete, Intact
  <2>7. QED BY <2>2, <2>3, <2>4, <2>5, <2>6 DEF StepInv
<1>5. CASE (Close("failed") \/ Close("ok")) /\ UNCHANGED sent
  BY <1>2, <1>5, SenderStops DEF Close, Off
<1>6. CASE IsAck(1) /\ Acknowledged(toPc[1])
  <2>1. CASE toPc' = Tail(toPc) /\ UNCHANGED wire
    <3>1. \/ pst = "waitStart" /\ pst' = "data" /\ UNCHANGED sent
          \/ /\ pst = "waitData" /\ toPc[1].code = sent + 1 /\ sent' = sent + 1
             /\ pst' = IF sent + 1 < FrameCount[file] THEN "data" ELSE "end"
          \/ (Close("failed") \/ Close("ok")) /\ UNCHANGED sent
      BY <1>6 DEF Acknowledged, CountMatches
    <3>2. QED BY <1>1, <1>2, <1>5, <1>6, <2>1, <3>1, AcknowledgedStep
  <2>2. QED BY <1>5, <1>6, <2>1 DEF Acknowledged
<1>7. QED BY <1>3, <1>4, <1>5, <1>6 DEF ReadStatus, IsAck

(* A frame reaches the FIFO, or overwrites its newest one.                 *)
LEMMA DeliverStep == ASSUME IInv, Deliver PROVE StepInv'
<1> USE DEF Deliver, pc, device, budget, history
<1>1. TypeInv /\ CanOn /\ UNCHANGED CanOn /\ wire # <<>> BY DEF IInv, CanOn
<1>2. /\ Head(wire) = wire[1] /\ 1 \in 1..Len(wire) /\ Len(wire) \in Nat \ {0}
      /\ Len(wire') = Len(wire) - 1 /\ (Len(wire) = 1 => wire' = <<>>)
      /\ \A i \in 1..Len(wire') : i + 1 \in 1..Len(wire) /\ wire'[i] = wire[i + 1]
  BY <1>1, AfterRead DEF TypeInv
<1>3. Len(fifo) \in Nat /\ Len(fifo) <= FifoDepth /\ FifoDepth \in Nat \ {0}
  BY LenProperties, NumberAssumption DEF IInv, TypeInv, StepInv, LineInv
<1>4. /\ Len(fifo') \in 1..FifoDepth /\ fifo'[Len(fifo')] = wire[1] /\ Len(fifo') >= Len(fifo)
      /\ \A i \in 1..Len(fifo') : i # Len(fifo') => i \in 1..Len(fifo) /\ fifo'[i] = fifo[i]
  <2>1. fifo \in Seq(Frame) /\ wire[1] \in Frame BY <1>2, ElementOfSeq DEF IInv, TypeInv
  <2>2. CASE Len(fifo) < FifoDepth
    <3>1. fifo' = Append(fifo, wire[1]) BY <1>2, <2>2
    <3>2. Len(fifo') = Len(fifo) + 1 /\ fifo'[Len(fifo) + 1] = wire[1]
          /\ \A i \in 1..Len(fifo) : fifo'[i] = fifo[i]
      BY <2>1, <3>1
    <3>3. QED BY <1>3, <2>2, <3>2
  <2>3. CASE ~(Len(fifo) < FifoDepth)
    <3>1. FifoDepth = Len(fifo) /\ FifoDepth \in 1..Len(fifo) BY <1>3, <2>3
    <3>2. fifo' = [fifo EXCEPT ![FifoDepth] = wire[1]] BY <1>2, <2>3
    <3>3. Len(fifo') = Len(fifo) /\
          \A j \in 1..Len(fifo) : fifo'[j] = IF j = FifoDepth THEN wire[1] ELSE fifo[j]
      BY <2>1, <3>1, <3>2, ExceptSeq
    <3>4. QED BY <1>3, <3>1, <3>3
  <2>4. QED BY <2>2, <2>3
<1>5. Position' BY DEF IInv, StepInv, Position
<1>6. pst \in Active BY <1>1 DEF IInv, StepInv, LineInv
<1>7. LineInv'
  <2>1. \A i \in 1..Len(wire) : Matters(wire[i]) => i = Len(wire) /\ Current(wire[i])
    BY DEF IInv, StepInv, LineInv
  <2>2. \A i \in 1..Len(wire') : Matters(wire'[i]) => i = Len(wire') /\ Current(wire'[i])
    <3> TAKE i \in 1..Len(wire')
    <3>1. i + 1 \in 1..Len(wire) /\ wire'[i] = wire[i + 1] BY <1>2
    <3>2. Matters(wire[i + 1]) => i + 1 = Len(wire) /\ Current(wire[i + 1])
      BY <2>1, <3>1
    <3> HIDE DEF Deliver, Matters, Current
    <3>3. i + 1 = Len(wire) => i = Len(wire') BY <1>2, i \in Nat
    <3>4. QED BY <3>1, <3>2, <3>3, Zenon
  <2>3. \A i \in 1..Len(fifo) : Matters(fifo[i]) =>
           pst \in {"start", "waitStart"} /\ NoAck /\ i = 1 /\ mode \in {"data", "end"}
    BY <1>1, <1>6 DEF IInv, StepInv, LineInv
  <2>4. \A i \in 1..Len(fifo') : Matters(fifo'[i]) =>
           \/ Current(fifo'[i]) /\ i = Len(fifo') /\ wire' = <<>>
           \/ pst \in {"start", "waitStart"} /\ NoAck /\ i = 1 /\ mode \in {"data", "end"}
    <3> TAKE i \in 1..Len(fifo')
    <3> HAVE Matters(fifo'[i])
    <3>1. CASE i = Len(fifo')
      <4>1. Matters(wire[1]) BY <1>4, <3>1
      <4>2. Current(wire[1]) /\ wire' = <<>> BY <1>2, <2>1, <4>1
      <4>3. fifo'[i] = wire[1] BY <1>4, <3>1
      <4>4. QED BY <3>1, <4>2, <4>3
    <3>2. CASE i # Len(fifo')
      <4>1. i \in 1..Len(fifo) /\ fifo'[i] = fifo[i] BY <1>4, <3>2
      <4>2. QED BY <2>3, <4>1
    <3>3. QED BY <3>1, <3>2
  <2>5. sent > 0 =>
          /\ \A i \in 1..Len(wire) : wire[i].cmd # "START"
          /\ \A i \in 1..Len(fifo) : fifo[i].cmd # "START"
    BY <1>1, <1>6 DEF IInv, StepInv, LineInv
  <2>6. sent > 0 =>
          /\ \A i \in 1..Len(wire') : wire'[i].cmd # "START"
          /\ \A i \in 1..Len(fifo') : fifo'[i].cmd # "START"
    BY <1>2, <1>4, <2>5
  <2>7. mode = "install" =>
          /\ \A i \in 1..Len(wire') : ~Matters(wire'[i])
          /\ \A i \in 1..Len(fifo') : ~Matters(fifo'[i])
    <3>1. mode = "install" => \A i \in 1..Len(wire) : ~Matters(wire[i])
      BY DEF IInv, StepInv, LineInv
    <3>2. mode = "install" => \A i \in 1..Len(fifo) : ~Matters(fifo[i])
      BY DEF IInv, StepInv, LineInv
    <3>3. QED BY <1>2, <1>4, <3>1, <3>2 DEF Matters
  <2>8. Len(fifo') <= FifoDepth /\ UNCHANGED NoAck BY <1>3, <1>4 DEF NoAck, IsAck
  <2>9. QED
    BY <1>1, <1>6, <2>2, <2>4, <2>6, <2>7, <2>8 DEF LineInv, Matters, Current
<1>8. ReplyInv'
  BY <1>1 DEF IInv, StepInv, ReplyInv, IsAck
<1>9. StreamInv'
  BY <1>1 DEF IInv, StepInv, StreamInv, Agrees, NoAck, IsAck
<1>10. InstallInv'
  <2>1. EndInLine' => EndInLine
    BY <1>2, <1>4 DEF EndInLine
  <2>2. QED BY <2>1 DEF IInv, StepInv, InstallInv, Complete, Intact
<1>11. QED BY <1>5, <1>7, <1>8, <1>9, <1>10 DEF StepInv

LEMMA LoseStep == ASSUME IInv, Lose PROVE StepInv'
<1> USE DEF Lose, pc, device, budget, history
<1>1. TypeInv /\ wire # <<>> /\ UNCHANGED CanOn BY DEF IInv, CanOn
<1>2. /\ Len(wire) \in Nat \ {0} /\ Len(wire') = Len(wire) - 1
      /\ (Len(wire) = 1 => wire' = <<>>)
      /\ \A i \in 1..Len(wire') : i + 1 \in 1..Len(wire) /\ wire'[i] = wire[i + 1]
  BY <1>1, AfterRead DEF TypeInv
<1>3. Position' BY DEF IInv, StepInv, Position
<1>4. pst \in Active BY <1>1 DEF IInv, StepInv, LineInv
<1>5. LineInv'
  <2>1. \A i \in 1..Len(wire) :
          /\ Matters(wire[i]) => i = Len(wire) /\ Current(wire[i])
          /\ sent > 0 => wire[i].cmd # "START"
          /\ mode = "install" => ~Matters(wire[i])
    BY <1>4 DEF IInv, StepInv, LineInv
  <2>2. \A i \in 1..Len(wire') :
          /\ Matters(wire'[i]) => i = Len(wire') /\ Current(wire'[i])
          /\ sent > 0 => wire'[i].cmd # "START"
          /\ mode = "install" => ~Matters(wire'[i])
    <3> TAKE i \in 1..Len(wire')
    <3>1. i + 1 \in 1..Len(wire) /\ wire'[i] = wire[i + 1] BY <1>2
    <3>2. /\ Matters(wire[i + 1]) => i + 1 = Len(wire) /\ Current(wire[i + 1])
          /\ sent > 0 => wire[i + 1].cmd # "START"
          /\ mode = "install" => ~Matters(wire[i + 1])
      BY <2>1, <3>1
    <3> HIDE DEF Lose, Matters, Current
    <3>3. i + 1 = Len(wire) => i = Len(wire') BY <1>2, i \in Nat
    <3>4. QED BY <3>1, <3>2, <3>3, Zenon
  <2>3. UNCHANGED NoAck BY DEF NoAck, IsAck
  <2>4. QED
    BY <1>1, <1>4, <2>2, <2>3 DEF IInv, StepInv, LineInv, Matters, Current
<1>6. ReplyInv' BY <1>1 DEF IInv, StepInv, ReplyInv, IsAck
<1>7. StreamInv' BY <1>1 DEF IInv, StepInv, StreamInv, Agrees, NoAck, IsAck
<1>8. InstallInv'
  <2>1. EndInLine' => EndInLine BY <1>2 DEF EndInLine
  <2>2. QED BY <2>1 DEF IInv, StepInv, InstallInv, Complete, Intact
<1>9. QED BY <1>3, <1>5, <1>6, <1>7, <1>8 DEF StepInv

(* The ACK of a START, or nothing if it is lost.                           *)
LEMMA EnterStep == ASSUME IInv, Enter PROVE StepInv'
<1> USE DEF Enter, Unchanged, pc
<1> DEFINE f == Head(fifo)
<1>1. /\ TypeInv /\ CanOn /\ fifo # <<>> /\ fifo' = Tail(fifo)
      /\ mode \notin {"data", "end", "install"}
      /\ UNCHANGED <<pst, file, sent, wire, ended, landed>>
  BY DEF IInv, CanOn
<1>2. f \in Frame /\ f = fifo[1] /\ 1 \in 1..Len(fifo)
  BY <1>1, AfterHead
<1>3. CASE f.cmd # "START"
  <2>1. Chatter /\ mode' \notin Receiving BY <1>1, <1>3, Left DEF Chatter
  <2>2. QED BY <1>1, <2>1, QuietStep DEF Reads
<1>4. CASE f.cmd = "START"
  <2>1. Chatter \/ AddsAck(0)
    <3>1. f.seq \in 0..StartSeq BY <1>2 DEF Frame
    <3>2. Reply("ACK", f.seq, 0) BY <1>4
    <3>3. QED BY <1>1, <3>1, <3>2, Replied
  <2>2. mode' # "install" /\ (mode' \in Receiving => got' = <<>>)
    BY <1>1, <1>4, Left DEF Receiving
  <2>3. pst \in Active => sent = 0
    BY <1>1, <1>2, <1>4 DEF IInv, TypeInv, StepInv, LineInv
  <2>4. pst \notin {"end", "waitEnd"}
    <3>1. pst \in {"end", "waitEnd"} => pst \in Active BY DEF Active, Waiting
    <3>2. QED BY <2>3, <3>1, SomeSent
  <2>5. Position' BY <1>1 DEF IInv, StepInv, Position
  <2>6. LineInv' BY <1>1, <2>2, LineRead
  <2>7. ReplyInv'
    <3>1. CASE Chatter
      <4>1. CASE pst \in {"start", "waitStart"}
        <5>1. \A i, j \in 1..Len(toPc) : IsAck(i) /\ IsAck(j) /\ i < j => toPc[j].code = 0
          BY <4>1 DEF IInv, StepInv, ReplyInv
        <5>2. \A i, j \in 1..Len(toPc') : IsAck(i)' /\ IsAck(j)' /\ i < j => toPc'[j].code = 0
          BY <1>1, <3>1, <5>1, SameAcks DEF IsAck
        <5>3. QED BY <1>1, <4>1, <5>2 DEF ReplyInv
      <4>2. CASE pst \in {"data", "waitData"}
        <5>1. \A i \in 1..Len(toPc) : IsAck(i) => toPc[i].code = 0 /\ sent = 0
          BY <1>1, <4>2 DEF IInv, StepInv, ReplyInv
        <5>2. \A i \in 1..Len(toPc') : IsAck(i)' => toPc'[i].code = 0 /\ sent = 0
          BY <1>1, <3>1, <5>1, SameAcks DEF IsAck
        <5>3. QED BY <1>1, <4>2, <5>2 DEF ReplyInv
      <4>3. QED BY <1>1, <2>4, <4>1, <4>2 DEF ReplyInv
    <3>2. CASE AddsAck(0)
      <4>1. /\ Len(toPc) \in Nat /\ \A i : IsAck(i)' <=> (IsAck(i) \/ i = Len(toPc) + 1)
            /\ \A i \in 1..Len(toPc) : toPc'[i] = toPc[i]
            /\ toPc'[Len(toPc) + 1].code = 0
        BY <1>1, <3>2, NewAck DEF AddsAck
      <4>2. CASE pst \in {"start", "waitStart"}
        <5>1. \A i, j \in 1..Len(toPc) : IsAck(i) /\ IsAck(j) /\ i < j => toPc[j].code = 0
          BY <4>2 DEF IInv, StepInv, ReplyInv
        <5>2. \A i, j \in 1..Len(toPc') : IsAck(i)' /\ IsAck(j)' /\ i < j => toPc'[j].code = 0
          BY <4>1, <5>1 DEF IsAck
        <5>3. QED BY <1>1, <4>2, <5>2 DEF ReplyInv
      <4>3. CASE pst \in {"data", "waitData"}
        <5>1. \A i \in 1..Len(toPc) : IsAck(i) => toPc[i].code = 0 /\ sent = 0
          BY <1>1, <4>3 DEF IInv, StepInv, ReplyInv
        <5>2. sent = 0 BY <2>3, <4>3 DEF Active, Waiting
        <5>3. \A i \in 1..Len(toPc') : IsAck(i)' => toPc'[i].code = 0 /\ sent = 0
          BY <4>1, <5>1, <5>2 DEF IsAck
        <5>4. QED BY <1>1, <4>3, <5>3 DEF ReplyInv
      <4>4. QED BY <1>1, <2>4, <4>2, <4>3 DEF ReplyInv
    <3>3. QED BY <2>1, <3>1, <3>2
  <2>8. StreamInv'
    BY <1>1, <2>2, <2>3 DEF StreamInv, Active, Waiting
  <2>9. InstallInv'
    <3>1. mode' \in Receiving => \A g \in Good : ~Complete(g)'
      <4>1. got' = <<>> => Len(got') = 0 OBVIOUS
      <4>2. QED BY <2>2, <4>1, FileAssumption DEF Complete
    <3>2. QED BY <3>1 DEF InstallInv, Receiving
  <2>10. QED BY <2>5, <2>6, <2>7, <2>8, <2>9 DEF StepInv
<1>5. QED BY <1>3, <1>4

(* A START that repeats the one the device has taken.                      *)
LEMMA DuplicateStep ==
  ASSUME IInv, mode = "data", fifo # <<>>, fifo' = Tail(fifo), DuplicateStart(Head(fifo)),
         UNCHANGED <<device, toPc, pst, file, sent, wire, ended, landed>>
  PROVE  StepInv'
<1> USE DEF device
<1>1. TypeInv /\ CanOn /\ CanOn' BY DEF IInv, CanOn
<1>2. /\ Head(fifo) = fifo[1] /\ 1 \in 1..Len(fifo) /\ Head(fifo).cmd = "START"
      /\ \A i \in 1..Len(fifo') : i + 1 \in 1..Len(fifo) /\ fifo'[i] = fifo[i + 1]
  BY <1>1, AfterHead DEF DuplicateStart
<1>3. pst \in Active => sent = 0
  BY <1>1, <1>2 DEF IInv, TypeInv, StepInv, LineInv
<1>4. Position' BY DEF IInv, StepInv, Position
<1>5. LineInv' BY <1>1, LineRead
<1>6. ReplyInv'
  <2>1. CASE pst = "waitData"
    <3>1. \A i \in 1..Len(toPc) : IsAck(i) => toPc[i].code = 0 /\ sent = 0
      BY <1>1, <2>1 DEF IInv, StepInv, ReplyInv
    <3>2. QED BY <2>1, <3>1 DEF ReplyInv, IsAck
  <2>2. CASE pst # "waitData"
    BY <2>2 DEF IInv, StepInv, ReplyInv, IsAck
  <2>3. QED BY <2>1, <2>2
<1>7. StreamInv' BY <1>3 DEF StreamInv, Active, Waiting
<1>8. InstallInv'
  <2>1. EndInLine' => EndInLine BY <1>2 DEF EndInLine
  <2>2. QED BY <2>1 DEF IInv, StepInv, InstallInv, Complete, Intact
<1>9. QED BY <1>4, <1>5, <1>6, <1>7, <1>8 DEF StepInv

(* A DATA frame is taken: the one of this session, or a leftover.          *)
LEMMA TakeDataStep ==
  ASSUME IInv, mode = "data", fifo # <<>>, fifo' = Tail(fifo), Head(fifo).cmd = "DATA",
         got' = Append(got, Head(fifo).data), mode' \in {"data", "end"},
         Chatter \/ AddsAck(Len(got')),
         UNCHANGED <<pst, file, sent, wire, ended, landed>>
  PROVE  StepInv'
<1>1. TypeInv /\ CanOn /\ CanOn' BY DEF IInv, CanOn
<1>2. /\ Head(fifo) \in Frame /\ Matters(Head(fifo)) /\ mode' # "install"
      /\ \A i \in 1..Len(fifo') : ~Matters(fifo'[i])
      /\ \A i \in 1..Len(wire) : ~Matters(wire[i])
      /\ \/ Current(Head(fifo)) /\ fifo' = <<>> /\ wire = <<>>
         \/ pst \notin Active
         \/ pst \in {"start", "waitStart"} /\ NoAck
  <2>1. Matters(Head(fifo)) BY DEF Matters
  <2>2. QED BY <1>1, <2>1, AfterHead
<1>3. /\ Len(got) \in Nat /\ Len(got') = Len(got) + 1
      /\ got'[Len(got) + 1] = Head(fifo).data
      /\ \A i \in 1..Len(got) : got'[i] = got[i]
  <2>1. got \in Seq(Chunk) /\ Head(fifo).data \in Chunk
    BY <1>1, <1>2 DEF TypeInv, Frame
  <2>2. QED BY <2>1, LenProperties
<1>4. pst \in Active =>
        \/ pst = "waitData" /\ Head(fifo).data = <<file, sent + 1>> /\ fifo' = <<>> /\ wire = <<>>
        \/ pst \in {"start", "waitStart"} /\ NoAck
  BY <1>2 DEF Current
<1>5. ASSUME pst = "waitData", Len(got') = sent + 1 PROVE Agrees'
  <2>1. sent \in Nat /\ Len(got) = sent BY <1>1, <1>3, <1>5 DEF TypeInv
  <2>2. Agrees
    <3>1. CASE sent > 0 BY <1>5, <3>1 DEF IInv, StepInv, StreamInv, Receiving
    <3>2. CASE sent = 0 BY <2>1, <3>2 DEF Agrees
    <3>3. QED BY <2>1, <3>1, <3>2
  <2>3. Head(fifo).data = <<file, sent + 1>> BY <1>4, <1>5 DEF Active, Waiting
  <2>4. QED BY <1>3, <2>1, <2>2, <2>3 DEF Agrees
<1>6. Position' BY DEF IInv, StepInv, Position
<1>7. LineInv' BY <1>1, <1>2, LineRead
<1>8. ReplyInv'
  <2>1. CASE pst \in {"start", "waitStart"}
    <3>1. NoAck BY <1>4, <2>1 DEF Active, Waiting
    <3>2. \A i, j : ~(IsAck(i)' /\ IsAck(j)' /\ i < j)
      <4>1. CASE Chatter BY <1>1, <3>1, <4>1, SameAcks DEF NoAck, IsAck
      <4>2. CASE AddsAck(Len(got'))
        <5>1. \A i : IsAck(i)' => i = Len(toPc) + 1
          BY <1>1, <3>1, <4>2, NewAck DEF NoAck, IsAck
        <5>2. Len(toPc) \in Nat BY <1>1, LenProperties DEF TypeInv
        <5>3. QED BY <5>1, <5>2
      <4>3. QED BY <4>1, <4>2
    <3>3. QED BY <2>1, <3>2 DEF ReplyInv
  <2>2. CASE pst = "waitData"
    <3>1. fifo' = <<>> /\ wire = <<>> BY <1>4, <2>2 DEF Active, Waiting
    <3>2. \A i \in 1..Len(toPc) : IsAck(i) => toPc[i].code = 0 /\ sent = 0
      BY <1>1, <2>2 DEF IInv, StepInv, ReplyInv
    <3>3. CASE Chatter
      <4>1. \A i \in 1..Len(toPc') : IsAck(i)' => toPc'[i].code = 0 /\ sent = 0
        BY <1>1, <3>2, <3>3, SameAcks DEF IsAck
      <4>2. QED BY <2>2, <4>1 DEF ReplyInv
    <3>4. CASE AddsAck(Len(got'))
      <4>1. /\ Len(toPc) \in Nat /\ \A i : IsAck(i)' <=> (IsAck(i) \/ i = Len(toPc) + 1)
            /\ \A i \in 1..Len(toPc) : toPc'[i] = toPc[i]
            /\ toPc'[Len(toPc) + 1].code = Len(got')
        BY <1>1, <3>4, NewAck DEF AddsAck
      <4>2. \A i \in 1..Len(toPc') : IsAck(i)' =>
              \/ toPc'[i].code = 0 /\ sent = 0
              \/ i = Len(toPc) + 1 /\ toPc'[i].code = Len(got')
        BY <3>2, <4>1 DEF IsAck
      <4>3. \A j : IsAck(j)' => j <= Len(toPc) + 1
        BY <4>1 DEF IsAck
      <4>4. QED BY <1>5, <2>2, <3>1, <4>2, <4>3 DEF ReplyInv
    <3>5. QED BY <3>3, <3>4
  <2>3. CASE pst \notin Active
    BY <2>3 DEF ReplyInv, Active, Waiting
  <2>4. QED BY <1>4, <2>1, <2>2, <2>3
<1>9. StreamInv'
  <2>1. CASE pst = "waitData" /\ sent > 0
    <3>1. Len(got) = sent BY <2>1 DEF IInv, StepInv, StreamInv, Receiving
    <3>2. fifo' = <<>> /\ wire = <<>> BY <1>4, <2>1 DEF Active, Waiting
    <3>3. QED BY <1>2, <1>3, <1>5, <2>1, <3>1, <3>2 DEF StreamInv
  <2>2. CASE ~(pst = "waitData" /\ sent > 0)
    BY <1>2, <1>4, <2>2 DEF StreamInv, Active, Waiting
  <2>3. QED BY <2>1, <2>2
<1>10. InstallInv' BY <1>2 DEF InstallInv, EndInLine, Matters
<1>11. QED BY <1>6, <1>7, <1>8, <1>9, <1>10 DEF StepInv

LEMMA ReceiveDataStep == ASSUME IInv, ReceiveData PROVE StepInv'
<1> USE DEF ReceiveData, Unchanged, pc
<1> DEFINE f == Head(fifo)
<1>1. /\ TypeInv /\ CanOn /\ fifo # <<>> /\ fifo' = Tail(fifo) /\ mode = "data"
      /\ UNCHANGED <<pst, file, sent, wire, ended, landed>>
  BY DEF IInv, CanOn
<1>2. f.seq \in 0..StartSeq /\ f.data \in Chunk /\ Expected \in 0..StartSeq
  <2>1. f \in Frame BY <1>1, AfterHead
  <2>2. QED BY <1>1, <2>1, NumberTypes DEF Frame
<1>3. CASE Refusal
  <2>1. Chatter /\ mode' \notin Receiving BY <1>1, <1>3, RefusalFacts, Left
  <2>2. QED BY <1>1, <2>1, QuietStep DEF Reads
<1>4. CASE DuplicateStart(f) /\ UNCHANGED <<device, toPc>>
  BY <1>1, <1>4, DuplicateStep
<1>5. CASE /\ f.cmd = "DATA" /\ got' = Append(got, f.data) /\ mode' \in {"data", "end"}
           /\ Reply("ACK", f.seq, Len(got'))
  <2>1. Len(got') \in Nat
    <3>1. Append(got, f.data) \in Seq(Chunk) BY <1>1, <1>2 DEF TypeInv
    <3>2. QED BY <1>5, <3>1, LenProperties
  <2>2. Chatter \/ AddsAck(Len(got')) BY <1>1, <1>2, <1>5, <2>1, Replied
  <2>3. QED BY <1>1, <1>5, <2>2, TakeDataStep
<1>6. QED
  BY <1>2, <1>3, <1>4, <1>5 DEF Acceptable, TakeData, Refuse, Refusal

LEMMA AcceptEndStep ==
  ASSUME IInv, mode = "end", fifo # <<>>, fifo' = Tail(fifo), Head(fifo).cmd = "END",
         AcceptEnd, UNCHANGED <<pst, file, sent, wire, ended, landed>>
  PROVE  StepInv'
<1>1. /\ TypeInv /\ CanOn /\ CanOn' /\ mode' = "install" /\ UNCHANGED <<got, toPc>>
  BY DEF IInv, CanOn, AcceptEnd
<1>2. /\ Head(fifo) = fifo[1] /\ 1 \in 1..Len(fifo) /\ Matters(Head(fifo))
      /\ \/ Current(Head(fifo)) /\ fifo' = <<>> /\ wire = <<>>
         \/ pst \notin Active
         \/ pst \in {"start", "waitStart"} /\ NoAck
  <2>1. Matters(Head(fifo)) BY DEF Matters
  <2>2. QED BY <1>1, <2>1, AfterHead
<1>3. pst \notin Active \/ pst = "waitEnd" \/ (pst \in {"start", "waitStart"} /\ NoAck)
  BY <1>2 DEF Current
<1>4. Position' BY DEF IInv, StepInv, Position
<1>5. LineInv' BY <1>1, <1>2, LineRead
<1>6. ReplyInv'
  BY <1>1, <1>3 DEF IInv, StepInv, ReplyInv, IsAck, Active, Waiting
<1>7. StreamInv'
  <2>1. UNCHANGED NoAck BY <1>1 DEF NoAck, IsAck
  <2>2. pst = "waitEnd" /\ sent > 0 => Agrees /\ Len(got) = sent
    BY DEF IInv, StepInv, StreamInv, Receiving
  <2>3. QED BY <1>1, <1>3, <2>1, <2>2 DEF StreamInv, Agrees, Active, Waiting
<1>8. InstallInv'
  <2>1. EndInLine BY <1>2 DEF EndInLine
  <2>2. QED BY <1>1, <2>1 DEF IInv, StepInv, InstallInv, Complete, Intact
<1>9. QED BY <1>4, <1>5, <1>6, <1>7, <1>8 DEF StepInv

LEMMA ReceiveEndStep == ASSUME IInv, ReceiveEnd PROVE StepInv'
<1> USE DEF ReceiveEnd, Unchanged, pc
<1>1. /\ TypeInv /\ CanOn /\ fifo # <<>> /\ fifo' = Tail(fifo) /\ mode = "end"
      /\ UNCHANGED <<pst, file, sent, wire, ended, landed>>
  BY DEF IInv, CanOn
<1>2. CASE Refusal
  <2>1. Chatter /\ mode' \notin Receiving BY <1>1, <1>2, RefusalFacts, Left
  <2>2. QED BY <1>1, <2>1, QuietStep DEF Reads
<1>3. CASE Head(fifo).cmd = "END" /\ AcceptEnd
  BY <1>1, <1>3, AcceptEndStep
<1>4. QED BY <1>1, <1>2, <1>3, NumberTypes DEF IsEnd, Refuse, Refusal

(* A commit is of the file being sent, if the sender waits for one.        *)
LEMMA Committed ==
  ASSUME IInv, mode = "install", NEW f \in Good, Complete(f)
  PROVE  /\ f \in ended
         /\ pst \notin Active \/ pst = "waitEnd" \/ (pst \in {"start", "waitStart"} /\ NoAck)
         /\ pst = "waitEnd" => f = file
<1>1. f \in ended BY DEF IInv, StepInv, InstallInv
<1>2. pst \notin Active \/ pst = "waitEnd" \/ (pst \in {"start", "waitStart"} /\ NoAck)
  BY DEF IInv, StepInv, StreamInv
<1>3. ASSUME pst = "waitEnd" PROVE f = file
  <2>1. Agrees BY <1>3, SomeSent DEF IInv, StepInv, StreamInv, Receiving
  <2>2. QED BY <2>1, SameFile
<1>4. QED BY <1>1, <1>2, <1>3

LEMMA InstallStep == ASSUME IInv, Install PROVE StepInv'
<1> USE DEF Install, Unchanged, pc
<1>1. /\ TypeInv /\ CanOn /\ mode = "install" /\ Expected \in 0..StartSeq
      /\ UNCHANGED <<pst, file, sent, wire, ended>>
  BY NumberTypes DEF IInv, CanOn
<1>2. CASE Refusal /\ UNCHANGED <<fifo, landed>>
  <2>1. Chatter /\ mode' \notin Receiving BY <1>1, <1>2, RefusalFacts, Left
  <2>2. QED BY <1>1, <1>2, <2>1, QuietStep DEF Reads
<1>3. ASSUME NEW f \in Good, Commit(f) PROVE StepInv'
  <2>1. /\ Complete(f) /\ landed' = f /\ mode' = "boot" /\ fifo' = <<>> /\ Len(fifo') = 0
        /\ Chatter \/ AddsAck(0)
    BY <1>1, <1>3, Replied DEF Commit
  <2>2. /\ pst \notin Active \/ pst = "waitEnd" \/ (pst \in {"start", "waitStart"} /\ NoAck)
        /\ pst = "waitEnd" => f = file
    BY <1>1, <2>1, Committed
  <2>3. Position' BY <1>1 DEF IInv, StepInv, Position
  <2>4. LineInv'
    BY <1>1, <2>1, NumberAssumption DEF IInv, StepInv, LineInv, Matters, Current
  <2>5. ReplyInv'
    <3>1. CASE pst \in {"start", "waitStart"}
      <4>1. NoAck /\ Len(toPc) \in Nat
        BY <1>1, <2>2, <3>1, LenProperties DEF TypeInv, Active, Waiting
      <4>2. \A i : IsAck(i)' => i = Len(toPc) + 1
        BY <1>1, <2>1, <4>1, SameAcks, NewAck DEF NoAck, IsAck
      <4>3. \A i, j : ~(IsAck(i)' /\ IsAck(j)' /\ i < j) BY <4>1, <4>2
      <4>4. QED BY <1>1, <3>1, <4>3 DEF ReplyInv
    <3>2. CASE pst \notin {"start", "waitStart"}
      BY <1>1, <2>1, <2>2, <3>2 DEF ReplyInv, Active, Waiting
    <3>3. QED BY <3>1, <3>2
  <2>6. StreamInv' BY <2>1 DEF StreamInv, Receiving
  <2>7. InstallInv' BY <2>1 DEF InstallInv
  <2>8. QED BY <2>3, <2>4, <2>5, <2>6, <2>7 DEF StepInv
<1>4. QED BY <1>1, <1>2, <1>3 DEF Refuse, Refusal
-----------------------------------------------------------------------------
(* The invariant and what follows from it.                                 *)

LEMMA InvInit == Init => IInv
<1> SUFFICES ASSUME Init PROVE IInv
  OBVIOUS
<1>1. Len(wire) = 0 /\ Len(fifo) = 0 /\ Len(toPc) = 0 /\ 0 <= FifoDepth
  BY NumberAssumption DEF Init
<1>2. TypeInv BY TypeInit
<1>3. Position /\ StreamInv
  BY DEF Init, Position, StreamInv, Receiving, Active, Waiting
<1>4. LineInv /\ ReplyInv /\ InstallInv
  BY <1>1 DEF Init, LineInv, ReplyInv, InstallInv, Active, Waiting
<1>5. QED BY <1>2, <1>3, <1>4 DEF IInv, StepInv

LEMMA InvStep == IInv /\ [Next]_vars => IInv'
<1> SUFFICES ASSUME IInv, [Next]_vars PROVE IInv'
  OBVIOUS
<1>1. TypeInv' BY TypeStep DEF IInv
<1>2. StepInv'
  <2>1. CASE BootDone \/ WindowExpires \/ McuTimeout \/ Reset
    BY <2>1, QuietActions
  <2>2. CASE Kill
    BY <2>2, SenderStops DEF Kill, Close, Off, device, history
  <2>3. CASE NewSession BY <2>3, NewSessionStep
  <2>4. CASE SendStart BY <2>4, SendStartStep
  <2>5. CASE SendData BY <2>5, SendDataStep
  <2>6. CASE SendEnd BY <2>6, SendEndStep
  <2>7. CASE ReadStatus BY <2>7, ReadStatusStep
  <2>8. CASE PcTimeout BY <2>8, PcTimeoutStep
  <2>9. CASE Deliver BY <2>9, DeliverStep
  <2>10. CASE Lose BY <2>10, LoseStep
  <2>11. CASE Enter BY <2>11, EnterStep
  <2>12. CASE ReceiveData BY <2>12, ReceiveDataStep
  <2>13. CASE ReceiveEnd BY <2>13, ReceiveEndStep
  <2>14. CASE Install BY <2>14, InstallStep
  <2>15. CASE UNCHANGED vars
    <3>1. UNCHANGED <<pst, file, sent, wire, fifo, toPc, mode, got, total, ended, landed>>
      BY <2>15 DEF vars, pc, net, device, history
    <3>2. UNCHANGED StepInv
      BY <3>1 DEF StepInv, Position, LineInv, ReplyInv, StreamInv, InstallInv, Current,
                  CanOn, NoAck, IsAck, Agrees, EndInLine, Complete, Intact
    <3>3. QED BY <3>2 DEF IInv
  <2>16. QED
    BY <2>1, <2>2, <2>3, <2>4, <2>5, <2>6, <2>7, <2>8, <2>9, <2>10, <2>11, <2>12,
       <2>13, <2>14, <2>15 DEF Next, Sender, Mcu
<1>3. QED BY <1>1, <1>2 DEF IInv

THEOREM CanInvariance == Spec => []IInv
  BY InvInit, InvStep, PTL DEF Spec

(* Once frames are acknowledged, the receiver holds this file up to there, *)
(* or one frame more, in order and without a gap, however often the        *)
(* sequence numbers have wrapped and whatever older sessions left behind.  *)
THEOREM CanStreamFollowsFile == Spec => []StreamsAgree
<1>1. IInv => StreamsAgree
  <2> SUFFICES ASSUME IInv, pst \in Active, sent > 0, mode \in Receiving
               PROVE  Agrees /\ Len(got) \in {sent, sent + 1}
    BY DEF StreamsAgree, Agrees
  <2>1. pst \notin {"start", "waitStart"} BY DEF IInv, StepInv, Position
  <2>2. QED BY <2>1 DEF IInv, StepInv, StreamInv, Active, Waiting
<1>2. QED BY <1>1, CanInvariance, PTL

(* The transfer over CAN keeps the promise of UpdateTransfer: the final    *)
(* ACK, whose code is never compared, can only be the one that follows the *)
(* commit of this file during this run of the tool, and only a file sent   *)
(* to its end is installed, whatever is lost, late or reset on the way.    *)
THEOREM CanImplementsTransfer == Spec => ImplementsTransfer
<1> USE DEF pc, net, device, budget, history
<1>1. Init => UT!Init
  BY DEF Init, UT!Init, Active, Waiting
<1>2. IInv /\ [Next]_vars => [UT!Next]_UT!vars
  <2> SUFFICES ASSUME IInv, [Next]_vars PROVE [UT!Next]_UT!vars
    OBVIOUS
  <2>1. ASSUME pst' = pst \/ {pst, pst'} \subseteq Active,
               UNCHANGED <<file, ended, installed, landed>>
        PROVE  UNCHANGED UT!vars
    BY <2>1 DEF UT!vars
  <2>2. CASE NewSession
    <3>1. pst # "active" BY DEF IInv, TypeInv, Active, Waiting, Off
    <3>2. UT!Start BY <2>2, <3>1 DEF NewSession, UT!Start, Active
    <3>3. QED BY <3>2 DEF UT!Next
  <2>3. ASSUME pst \in Active, pst' \in {"failed", "idle"},
               UNCHANGED <<file, ended, installed, landed>>
        PROVE  UT!Next
    <3>1. UT!Fail BY <2>3 DEF UT!Fail, Active, Waiting
    <3>2. QED BY <3>1 DEF UT!Next
  <2>4. CASE Kill \/ SendStart \/ PcTimeout
    <3>1. pst \in Active /\ UNCHANGED <<file, ended, installed, landed>>
      BY <2>4 DEF Kill, SendStart, PcTimeout, Active, Waiting
    <3>2. pst' \in Active \/ pst' \in {"failed", "idle"}
      BY <2>4 DEF Kill, SendStart, PcTimeout, Close, Active, Waiting
    <3>3. QED BY <2>1, <2>3, <3>1, <3>2
  <2>5. CASE SendData
    BY <2>1, <2>5 DEF SendData, Active, Waiting
  <2>6. CASE SendEnd
    <3>1. UT!SendEnd BY <2>6 DEF SendEnd, UT!SendEnd, Active, Waiting
    <3>2. QED BY <3>1 DEF UT!Next
  <2>7. CASE ReadStatus
    <3>1. pst \in Active /\ UNCHANGED <<file, ended, installed, landed>>
      BY <2>7 DEF ReadStatus, Active
    <3>2. CASE pst' \in Active
      BY <2>1, <3>1, <3>2
    <3>3. CASE pst' = "failed"
      BY <2>3, <3>1, <3>3
    <3>4. CASE pst = "waitEnd" /\ pst' = "ok" /\ IsAck(1)
      <4>1. landed = file
        BY <3>4 DEF IInv, StepInv, ReplyInv, IsAck
      <4>2. UT!Succeed BY <3>1, <3>4, <4>1 DEF UT!Succeed, Active, Waiting
      <4>3. QED BY <4>2 DEF UT!Next
    <3>5. Head(toPc) = toPc[1] /\ 1 \in 1..Len(toPc)
      BY <2>7, AfterRead DEF IInv, TypeInv, ReadStatus
    <3>6. pst' \in Active \/ pst' = "failed" \/ (pst = "waitEnd" /\ pst' = "ok" /\ IsAck(1))
      BY <2>7, <3>1, <3>5 DEF ReadStatus, Acknowledged, Close, IsAck, Active, Waiting
    <3>7. QED BY <3>2, <3>3, <3>4, <3>6
  <2>8. CASE \/ BootDone \/ Enter \/ WindowExpires \/ ReceiveData \/ ReceiveEnd
             \/ McuTimeout \/ Deliver \/ Lose \/ Reset
    BY <2>1, <2>8 DEF BootDone, Enter, WindowExpires, ReceiveData, ReceiveEnd,
       McuTimeout, Deliver, Lose, Reset, Unchanged
  <2>9. CASE Install
    <3>1. ASSUME NEW f \in Good, Commit(f) PROVE UT!Next
      <4>1. mode = "install" /\ Complete(f) BY <2>9, <3>1 DEF Install, Commit
      <4>2. f \in ended BY <4>1, Committed
      <4>3. UT!Install(f)
        BY <2>9, <3>1, <4>2 DEF Install, Commit, Unchanged, UT!Install
      <4>4. QED BY <4>3 DEF UT!Next
    <3>2. CASE UNCHANGED <<installed, landed>>
      BY <2>1, <2>9, <3>2 DEF Install, Unchanged
    <3>3. QED BY <2>9, <3>1, <3>2 DEF Install
  <2>10. CASE UNCHANGED vars
    BY <2>1, <2>10 DEF vars
  <2>11. QED
    BY <2>2, <2>4, <2>5, <2>6, <2>7, <2>8, <2>9, <2>10 DEF Next, Sender, Mcu
<1>3. QED
  BY <1>1, <1>2, CanInvariance, PTL DEF Spec, ImplementsTransfer, UT!Spec

-----------------------------------------------------------------------------
(* A session that nothing disturbs.                                        *)

(* A file that the device has no reason to refuse, in a session that met   *)
(* no fault, no timeout, no reset of a busy receiver and no older session. *)
Accepted == file \in Good /\ FrameCount[file] \in ValidSizes
Calm == pst \in Active /\ Accepted /\ ~disturbed

(* The line carries the frames of this session only.                       *)
Own(f, where, name, n) ==
    /\ f.cmd = "START" => f.size = FrameCount[name] /\ f.seq = StartSeq
    /\ f.cmd = "DATA" => where = "waitData"
    /\ f.cmd = "END" => where = "waitEnd" /\ f.seq = n % SeqMod
Lines ==
    /\ \A i \in 1..Len(wire) : Own(wire[i], pst, file, sent)
    /\ CanOn => \A i \in 1..Len(fifo) : Own(fifo[i], pst, file, sent)

Empty == wire = <<>> /\ (CanOn => fifo = <<>>)

(* The PC has one status to read: the ACK it waits for.                    *)
Answered(seq) == Len(toPc) = 1 /\ toPc[1].cmd = "ACK" /\ toPc[1].seq = seq

(* The receiver is where the sender takes it to be.                        *)
Place ==
    /\ pst \in {"start", "waitStart"} =>
         \/ mode \notin Receiving /\ toPc = <<>>
         \/ mode = "data" /\ Len(got) = 0 /\ Answered(StartSeq)
    /\ pst \in {"data", "end"} => mode = pst /\ toPc = <<>> /\ Len(got) = sent
    /\ pst = "waitData" =>
         \/ mode = "data" /\ toPc = <<>> /\ Len(got) = sent
         \/ /\ Empty /\ Len(got) = sent + 1
            /\ mode = (IF sent + 1 < FrameCount[file] THEN "data" ELSE "end")
            /\ Answered(sent % SeqMod) /\ toPc[1].code = sent + 1
    /\ pst = "waitEnd" =>
         \/ mode = "end" /\ toPc = <<>> /\ Len(got) = sent
         \/ mode = "install" /\ Empty /\ toPc = <<>> /\ Len(got) = sent
         \/ mode \notin Receiving /\ Empty /\ \A i \in 1..Len(toPc) : IsAck(i)

(* A busy receiver is busy with this file.                                 *)
Content == mode \in Receiving => total = FrameCount[file] /\ Agrees

CalmInv == Calm => Lines /\ Place /\ Content

(* Only a disturbed session that was let in fails.                         *)
FailInv == pst = "failed" /\ tries < MaxTries /\ Accepted => disturbed

CInv == IInv /\ CalmInv /\ FailInv

(* A step that leaves a calm session undisturbed was taken in one.         *)
Before == Calm /\ Lines /\ Place /\ Content /\ ~disturbed'
CalmNext == Calm' => Lines' /\ Place' /\ Content'

(* No step but the start of the tool makes a session calm.                 *)
Goes == UNCHANGED file /\ (pst' \in Active => pst \in Active) /\ (disturbed => disturbed')

LEMMA CalmBefore == ASSUME CInv, Calm', Goes PROVE Before
  BY DEF CInv, CalmInv, Calm, Accepted, Before, Goes

LEMMA StepGoes == ASSUME Next, ~NewSession PROVE Goes
<1>1. CASE BootDone \/ WindowExpires \/ Deliver
  BY <1>1 DEF BootDone, WindowExpires, Deliver, Goes, pc, history
<1>2. CASE Reset \/ Lose
  <2>1. CASE Reset BY <2>1 DEF Reset, Goes, pc
  <2>2. CASE Lose BY <2>2 DEF Lose, Goes, pc
  <2>3. QED BY <1>2, <2>1, <2>2
<1>3. CASE Kill BY <1>3 DEF Kill, Goes, history
<1>4. CASE Sender
  <2>1. UNCHANGED file /\ (UNCHANGED disturbed \/ disturbed')
    BY <1>4 DEF Sender, SendStart, SendData, SendEnd, ReadStatus, PcTimeout, history
  <2>2. pst \in Active
    BY <1>4 DEF Sender, SendStart, SendData, SendEnd, ReadStatus, PcTimeout, Active
  <2>3. QED BY <2>1, <2>2 DEF Goes
<1>5. \A cmd, seq, code : Reply(cmd, seq, code) => (disturbed => disturbed')
  BY DEF Reply, Fault, NoFault
<1>6. \A wrong, seq, code : Refuse(wrong, seq, code) => (disturbed => disturbed')
  BY <1>5 DEF Refuse, Fault
<1>7. CASE Enter
  BY <1>5, <1>7 DEF Enter, NoFault, Unchanged, pc, Goes
<1>8. CASE ReceiveData
  <2>1. \/ UNCHANGED disturbed
        \/ \E cmd, seq, code : Reply(cmd, seq, code)
        \/ \E wrong, seq, code : Refuse(wrong, seq, code)
    BY <1>8 DEF ReceiveData, TakeData, NoFault
  <2>2. QED BY <1>5, <1>6, <1>8, <2>1 DEF ReceiveData, Unchanged, pc, Goes
<1>9. CASE ReceiveEnd
  <2>1. \/ UNCHANGED disturbed
        \/ \E wrong, seq, code : Refuse(wrong, seq, code)
    BY <1>9 DEF ReceiveEnd, AcceptEnd, NoFault
  <2>2. QED BY <1>6, <1>9, <2>1 DEF ReceiveEnd, Unchanged, pc, Goes
<1>10. CASE McuTimeout
  BY <1>10 DEF McuTimeout, Unchanged, pc, Goes
<1>11. CASE Install
  BY <1>5, <1>6, <1>11 DEF Install, Commit, Unchanged, pc, Goes
<1>12. QED
  BY <1>1, <1>2, <1>3, <1>4, <1>7, <1>8, <1>9, <1>10, <1>11 DEF Next, Mcu

(* What a step in a calm session finds.                                    *)
LEMMA CalmFacts ==
  ASSUME CInv, Before
  PROVE  /\ IInv /\ TypeInv /\ Calm /\ Lines /\ Place /\ Content
         /\ ~disturbed' /\ ~Fault /\ pst \in Active /\ file \in Good /\ file \in Files
         /\ FrameCount[file] \in ValidSizes /\ FrameCount[file] \in Nat \ {0}
         /\ sent \in Nat /\ got \in Seq(Chunk) /\ Len(got) \in Nat
         /\ Len(wire) \in Nat /\ Len(fifo) \in Nat /\ Len(toPc) \in Nat
         /\ wire = <<>> <=> Len(wire) = 0
         /\ fifo = <<>> <=> Len(fifo) = 0
         /\ toPc = <<>> <=> Len(toPc) = 0
         /\ \A cmd, seq, code : Reply(cmd, seq, code) => Post(cmd, seq, code)
         /\ \A wrong, seq, code : Refuse(wrong, seq, code) => wrong
<1>1. /\ IInv /\ TypeInv /\ Calm /\ Lines /\ Place /\ Content
      /\ ~disturbed' /\ ~Fault /\ pst \in Active /\ file \in Good /\ file \in Files
      /\ FrameCount[file] \in ValidSizes
  BY FileAssumption DEF CInv, IInv, Before, Calm, Accepted, Fault
<1>2. FrameCount[file] \in Nat \ {0} BY <1>1, FileAssumption
<1>3. /\ sent \in Nat /\ got \in Seq(Chunk) /\ Len(got) \in Nat
      /\ Len(wire) \in Nat /\ Len(fifo) \in Nat /\ Len(toPc) \in Nat
      /\ wire = <<>> <=> Len(wire) = 0
      /\ fifo = <<>> <=> Len(fifo) = 0
      /\ toPc = <<>> <=> Len(toPc) = 0
  BY <1>1, LenProperties, EmptySeq DEF TypeInv
<1>4. \A cmd, seq, code : Reply(cmd, seq, code) => Post(cmd, seq, code)
  BY <1>1 DEF Reply
<1>5. \A wrong, seq, code : Refuse(wrong, seq, code) => wrong
  BY <1>1 DEF Refuse
<1>6. QED BY <1>1, <1>2, <1>3, <1>4, <1>5

(* A status that is posted when none waits is the one the PC reads next.   *)
LEMMA Heard ==
  ASSUME pst \in Active, toPc = <<>>, NEW cmd, NEW seq, NEW code, Post(cmd, seq, code)
  PROVE  /\ Len(toPc') = 1 /\ toPc'[1].cmd = cmd /\ toPc'[1].seq = seq /\ toPc'[1].code = code
  BY DEF Post

(* Frames that are not DATA or END stay those of the session.              *)
LEMMA OwnKept ==
  ASSUME UNCHANGED file, pst \notin {"waitData", "waitEnd"}, NEW f, Own(f, pst, file, sent)
  PROVE  Own(f, pst', file', sent')
  BY DEF Own

LEMMA NewSessionCalm == ASSUME CInv, NewSession PROVE CalmNext
<1>1. /\ pst' = "start" /\ toPc' = <<>> /\ disturbed' = (mode \in Receiving)
      /\ UNCHANGED <<wire, fifo, mode>> /\ wire = <<>> /\ Len(wire') = 0
  BY DEF NewSession, device, CInv, IInv, StepInv, LineInv
<1>2. SUFFICES ASSUME Calm' PROVE Lines' /\ Place' /\ Content'
  BY DEF CalmNext
<1>3. mode' \notin Receiving BY <1>1, <1>2 DEF Calm
<1>4. CanOn' => Len(fifo') = 0
  BY <1>1, <1>3 DEF NewSession, CanOn
<1>5. Lines' BY <1>1, <1>4 DEF Lines
<1>6. QED BY <1>1, <1>3, <1>5 DEF Place, Content

-----------------------------------------------------------------------------
(* The sender, step by step.                                               *)

LEMMA SendCalm == ASSUME CInv, SendStart \/ SendData \/ SendEnd, Before PROVE CalmNext
<1>1. /\ IInv /\ TypeInv /\ Lines /\ Place /\ Content /\ file \in Files
      /\ FrameCount[file] \in Nat /\ sent \in Nat /\ Len(wire) \in Nat
  BY CalmFacts
<1>2. SUFFICES ASSUME Calm' PROVE Lines' /\ Place' /\ Content'
  BY DEF CalmNext
<1>3. PICK cmd \in {"START", "DATA", "END"}, seq \in 0..StartSeq, size \in Nat, data \in Chunk :
        /\ Send(cmd, seq, size, data)
        /\ \/ /\ pst = "start" /\ pst' = "waitStart"
              /\ cmd = "START" /\ seq = StartSeq /\ size = FrameCount[file]
           \/ pst = "data" /\ pst' = "waitData" /\ cmd = "DATA"
           \/ pst = "end" /\ pst' = "waitEnd" /\ cmd = "END" /\ seq = sent % SeqMod
  <2>1. NoChunk \in Chunk /\ <<file, sent + 1>> \in Chunk /\ 0 \in Nat
    BY <1>1 DEF NoChunk, Chunk
  <2>2. StartSeq \in 0..StartSeq /\ sent % SeqMod \in 0..StartSeq
    BY <1>1, SeqNumber
  <2>3. CASE SendStart
    <3>1. tries < MaxTries
      BY <1>2, <2>3 DEF SendStart, Close, Calm, Active, Waiting
    <3>2. QED BY <1>1, <2>1, <2>2, <2>3, <3>1 DEF SendStart
  <2>4. CASE SendData BY <2>1, <2>2, <2>4 DEF SendData
  <2>5. CASE SendEnd BY <2>1, <2>2, <2>5 DEF SendEnd
  <2>6. QED BY <2>3, <2>4, <2>5
<1>4. UNCHANGED <<file, sent, fifo, toPc, mode, total, got>>
  BY <1>2 DEF SendStart, SendData, SendEnd, device, Close, Calm, Active, Waiting
<1>5. /\ Len(wire') = Len(wire) + 1 /\ \A i \in 1..Len(wire) : wire'[i] = wire[i]
      /\ wire'[Len(wire) + 1].cmd = cmd /\ wire'[Len(wire) + 1].seq = seq
      /\ wire'[Len(wire) + 1].size = size
  BY <1>1, <1>3, Sent
<1>6. \A f : Own(f, pst, file, sent) => Own(f, pst', file', sent') BY <1>3, <1>4, OwnKept
<1>7. Own(wire'[Len(wire) + 1], pst', file', sent') BY <1>3, <1>4, <1>5 DEF Own
<1>8. Lines'
  <2>1. \A i \in 1..Len(wire') : i \in 1..Len(wire) \/ i = Len(wire) + 1
    BY <1>1, <1>5
  <2>2. \A i \in 1..Len(wire') : Own(wire'[i], pst', file', sent')
    BY <1>1, <1>5, <1>6, <1>7, <2>1 DEF Lines
  <2>3. CanOn' => CanOn BY <1>4 DEF CanOn
  <2>4. QED BY <1>1, <1>4, <1>6, <2>2, <2>3 DEF Lines
<1>9. Place' BY <1>1, <1>3, <1>4 DEF Place, Answered
<1>10. Content' BY <1>1, <1>4 DEF Content, Agrees
<1>11. QED BY <1>8, <1>9, <1>10

LEMMA PcTimeoutCalm == ASSUME CInv, PcTimeout, Before PROVE CalmNext
<1>1. SUFFICES ASSUME Calm' PROVE Lines' /\ Place' /\ Content'
  BY DEF CalmNext
<1>2. /\ pst = "waitStart" /\ pst' = "start"
      /\ UNCHANGED <<file, sent, wire, fifo, toPc, mode, total, got>>
  BY <1>1 DEF PcTimeout, Close, Calm, Active, Waiting, device
<1>3. Lines /\ Place /\ Content BY CalmFacts
<1>4. \A f : Own(f, pst, file, sent) => Own(f, pst', file', sent') BY <1>2, OwnKept
<1>5. Lines' BY <1>2, <1>3, <1>4 DEF Lines, CanOn
<1>6. QED BY <1>2, <1>3, <1>5 DEF Place, Answered, Content, Agrees

(* The only status a calm session meets is the ACK it waits for.           *)
LEMMA ReadStatusCalm ==
  ASSUME CInv, ReadStatus, Calm PROVE pst' # "failed" /\ (Before => CalmNext)
<1>1. /\ IInv /\ TypeInv /\ Lines /\ Place /\ Content
      /\ pst \in Waiting /\ toPc # <<>> /\ UNCHANGED <<file, fifo, mode, total, got>>
      /\ sent \in Nat
  BY DEF CInv, CalmInv, IInv, TypeInv, ReadStatus, device
<1>2. /\ Head(toPc) = toPc[1] /\ Len(toPc) \in Nat \ {0} /\ (Len(toPc) = 1 => Tail(toPc) = <<>>)
      /\ Len(Tail(toPc)) = Len(toPc) - 1
      /\ \A i \in 1..Len(Tail(toPc)) : i + 1 \in 1..Len(toPc) /\ Tail(toPc)[i] = toPc[i + 1]
  BY <1>1, AfterRead DEF TypeInv
<1>3. pst' \notin Active => CalmNext BY DEF CalmNext, Calm
<1>4. Content' \/ ~(mode \in Receiving)
  BY <1>1 DEF Content, Agrees
<1>5. Content' BY <1>1 DEF Content, Agrees
<1>6. CASE pst = "waitStart"
  <2>1. mode = "data" /\ Len(got) = 0 /\ Answered(StartSeq)
    BY <1>1, <1>6 DEF Place
  <2>2. sent = 0 BY <1>1, <1>6 DEF IInv, StepInv, Position
  <2>3. pst' = "data" /\ toPc' = Tail(toPc) /\ UNCHANGED <<sent, wire>>
    BY <1>2, <1>6, <2>1 DEF ReadStatus, Answered, Ignored, AwaitedSeq, Acknowledged
  <2>4. \A f : Own(f, pst, file, sent) => Own(f, pst', file', sent') BY <1>1, <1>6, OwnKept
  <2>5. Lines' BY <1>1, <2>3, <2>4 DEF Lines, CanOn
  <2>6. Place' BY <1>1, <1>2, <2>1, <2>2, <2>3 DEF Place, Answered
  <2>7. QED BY <1>5, <2>3, <2>5, <2>6 DEF CalmNext
<1>7. CASE pst = "waitData"
  <2>1. /\ Empty /\ Len(got) = sent + 1
        /\ mode = (IF sent + 1 < FrameCount[file] THEN "data" ELSE "end")
        /\ Answered(sent % SeqMod) /\ toPc[1].code = sent + 1
    BY <1>1, <1>7 DEF Place
  <2>2. /\ pst' = (IF sent + 1 < FrameCount[file] THEN "data" ELSE "end")
        /\ sent' = sent + 1 /\ toPc' = Tail(toPc) /\ UNCHANGED wire
    BY <1>2, <1>7, <2>1
    DEF ReadStatus, Answered, Ignored, AwaitedSeq, Acknowledged, CountMatches
  <2>3. Len(wire') = 0 /\ (CanOn' => Len(fifo') = 0)
    BY <1>1, <2>1, <2>2 DEF Empty, CanOn
  <2>4. Lines' BY <2>3 DEF Lines
  <2>5. toPc' = <<>> BY <1>2, <2>1, <2>2 DEF Answered
  <2>6. Place' BY <1>1, <2>1, <2>2, <2>5 DEF Place
  <2>7. pst' # "failed" BY <2>2
  <2>8. QED BY <1>5, <2>4, <2>6, <2>7 DEF CalmNext
<1>8. CASE pst = "waitEnd"
  <2>1. mode \notin Receiving /\ Empty /\ \A i \in 1..Len(toPc) : IsAck(i)
    BY <1>1, <1>8 DEF Place
  <2>2. toPc[1].cmd = "ACK" BY <1>2, <2>1 DEF IsAck
  <2>3. CASE Ignored(toPc[1])
    <3>1. toPc' = Tail(toPc) /\ UNCHANGED <<pst, sent, wire>>
      BY <1>2, <2>3 DEF ReadStatus
    <3>2. Lines' BY <1>1, <3>1 DEF Lines, Own, CanOn
    <3>3. \A i \in 1..Len(toPc') : IsAck(i)'
      BY <1>2, <2>1, <3>1 DEF IsAck
    <3>4. Place' BY <1>1, <1>8, <2>1, <3>1, <3>3 DEF Place, Empty, CanOn
    <3>5. QED BY <1>5, <1>8, <3>1, <3>2, <3>4 DEF CalmNext
  <2>4. CASE ~Ignored(toPc[1])
    <3>1. pst' = "ok"
      BY <1>2, <1>8, <2>2, <2>4 DEF ReadStatus, Acknowledged, Close
    <3>2. QED BY <1>3, <3>1 DEF Active, Waiting
  <2>5. QED BY <2>3, <2>4
<1>9. QED BY <1>1, <1>6, <1>7, <1>8 DEF Waiting

-----------------------------------------------------------------------------
(* The bus and the device, step by step.                                   *)

LEMMA DeliverCalm == ASSUME CInv, Deliver, Before PROVE CalmNext
<1>1. /\ IInv /\ TypeInv /\ Lines /\ Place /\ Content /\ CanOn /\ CanOn' /\ wire # <<>>
      /\ UNCHANGED <<pst, file, sent, toPc, mode, total, got>>
      /\ Len(fifo) \in Nat
  BY CalmFacts DEF Deliver, pc, device, CanOn
<1>2. /\ Head(wire) = wire[1] /\ Len(wire) \in Nat \ {0} /\ wire' = Tail(wire)
      /\ \A i \in 1..Len(Tail(wire)) : i + 1 \in 1..Len(wire) /\ Tail(wire)[i] = wire[i + 1]
  BY <1>1, AfterRead DEF TypeInv, Deliver
<1>3. \A f : Own(f, pst, file, sent) => Own(f, pst', file', sent') BY <1>1 DEF Own
<1>4. \A i \in 1..Len(wire) : Own(wire[i], pst', file', sent') BY <1>1, <1>3 DEF Lines
<1>5. \A i \in 1..Len(fifo) : Own(fifo[i], pst', file', sent') BY <1>1, <1>3 DEF Lines
<1>6. \A i \in 1..Len(wire') : Own(wire'[i], pst', file', sent') BY <1>2, <1>4
<1>7. Own(wire[1], pst', file', sent') BY <1>2, <1>4
<1>8. \A i \in 1..Len(fifo') : Own(fifo'[i], pst', file', sent')
  <2>1. fifo \in Seq(Frame) /\ Head(wire) \in Frame BY <1>1, AfterRead DEF TypeInv
  <2>2. CASE fifo' = Append(fifo, Head(wire))
    <3>1. \A i \in 1..Len(fifo') :
            (i \in 1..Len(fifo) /\ fifo'[i] = fifo[i]) \/ fifo'[i] = wire[1]
      BY <1>1, <1>2, <2>1, <2>2
    <3>2. QED BY <1>5, <1>7, <3>1
  <2>3. CASE fifo' = [fifo EXCEPT ![FifoDepth] = Head(wire)]
    <3>1. Len(fifo') = Len(fifo) /\ \A i \in 1..Len(fifo) : fifo'[i] = fifo[i] \/ fifo'[i] = wire[1]
      BY <1>2, <2>1, <2>3
    <3>2. QED BY <1>5, <1>7, <3>1
  <2>4. QED BY <2>2, <2>3 DEF Deliver
<1>9. Lines' BY <1>6, <1>8 DEF Lines
<1>10. ~Empty BY <1>1 DEF Empty
<1>11. Place' BY <1>1, <1>10 DEF Place, Answered
<1>12. QED BY <1>1, <1>9, <1>11 DEF CalmNext, Content, Agrees

(* A frame has been read, and is one of the session.                       *)
LEMMA OwnRead ==
  ASSUME CInv, Before, CanOn, fifo # <<>>, fifo' = Tail(fifo), UNCHANGED <<pst, file, sent, wire>>
  PROVE  Own(Head(fifo), pst, file, sent) /\ Head(fifo).cmd \in {"START", "DATA", "END"} /\ Lines'
<1>1. IInv /\ Lines BY CalmFacts
<1>2. /\ Head(fifo) = fifo[1] /\ 1 \in 1..Len(fifo) /\ Head(fifo) \in Frame
      /\ \A i \in 1..Len(Tail(fifo)) : i + 1 \in 1..Len(fifo) /\ Tail(fifo)[i] = fifo[i + 1]
  BY <1>1, AfterHead
<1>3. Own(Head(fifo), pst, file, sent) /\ Head(fifo).cmd \in {"START", "DATA", "END"}
  BY <1>1, <1>2 DEF Lines, Frame
<1>4. \A f : Own(f, pst, file, sent) => Own(f, pst', file', sent') BY DEF Own
<1>5. \A i \in 1..Len(fifo) : Own(fifo[i], pst', file', sent') BY <1>1, <1>4 DEF Lines
<1>6. \A i \in 1..Len(wire') : Own(wire'[i], pst', file', sent') BY <1>1, <1>4 DEF Lines
<1>7. \A i \in 1..Len(fifo') : Own(fifo'[i], pst', file', sent') BY <1>2, <1>5
<1>8. QED BY <1>3, <1>6, <1>7 DEF Lines

(* A device that is not busy clears its FIFO, starts or moves on.          *)
LEMMA IdleStep == ASSUME CInv, Before, BootDone \/ WindowExpires \/ Reset PROVE CalmNext
<1>1. Lines /\ Place /\ ~disturbed' BY CalmFacts
<1>2. /\ mode \notin Receiving /\ mode' \notin Receiving /\ fifo' = <<>>
      /\ UNCHANGED <<pst, file, sent, wire, toPc>>
  <2>1. CASE BootDone BY <2>1 DEF BootDone, Receiving, pc
  <2>2. CASE WindowExpires BY <2>2 DEF WindowExpires, Leave, Receiving, pc, net
  <2>3. CASE Reset BY <1>1, <2>3 DEF Reset, Receiving, pc
  <2>4. QED BY <2>1, <2>2, <2>3
<1>3. Len(fifo') = 0 BY <1>2
<1>4. Lines' BY <1>1, <1>2, <1>3 DEF Lines, Own
<1>5. Place' BY <1>1, <1>2 DEF Place, Empty, IsAck, Receiving
<1>6. Content' BY <1>2 DEF Content
<1>7. QED BY <1>4, <1>5, <1>6 DEF CalmNext

(* A START lets the session in, and its ACK is heard.                      *)
LEMMA EnterCalm == ASSUME CInv, Before, Enter PROVE CalmNext
<1>1. /\ Place /\ pst \in Active /\ FrameCount[file] \in ValidSizes
      /\ mode \notin Receiving /\ CanOn /\ fifo # <<>> /\ fifo' = Tail(fifo)
      /\ UNCHANGED <<pst, file, sent, wire>>
  BY CalmFacts DEF Enter, CanOn, Receiving, Unchanged, pc
<1>2. Own(Head(fifo), pst, file, sent) /\ Head(fifo).cmd \in {"START", "DATA", "END"} /\ Lines'
  BY <1>1, OwnRead
<1>3. pst \in {"start", "waitStart"} /\ toPc = <<>>
  BY <1>1 DEF Place, Empty, Active, Waiting, Receiving
<1>4. /\ Head(fifo).cmd = "START" /\ Head(fifo).size = FrameCount[file]
      /\ Head(fifo).seq = StartSeq
  BY <1>2, <1>3 DEF Own
<1>5. /\ Reply("ACK", StartSeq, 0) /\ mode' = "data" /\ total' = FrameCount[file] /\ got' = <<>>
  BY <1>1, <1>4 DEF Enter
<1>6. Post("ACK", StartSeq, 0) BY <1>5, CalmFacts
<1>7. Answered(StartSeq)' BY <1>1, <1>3, <1>6, Heard DEF Answered
<1>8. Len(got') = 0 BY <1>5
<1>9. Place' BY <1>1, <1>3, <1>5, <1>7, <1>8 DEF Place
<1>10. Content' BY <1>1, <1>5, <1>8 DEF Content, Agrees
<1>11. QED BY <1>2, <1>9, <1>10 DEF CalmNext

(* A repeated START is passed over; the DATA frame sent last is taken.     *)
LEMMA ReceiveDataCalm == ASSUME CInv, Before, ReceiveData PROVE CalmNext
<1> DEFINE f == Head(fifo)
<1>1. /\ IInv /\ TypeInv /\ Place /\ Content /\ pst \in Active /\ file \in Good
      /\ FrameCount[file] \in Nat \ {0} /\ sent \in Nat /\ got \in Seq(Chunk)
      /\ mode = "data" /\ CanOn /\ fifo # <<>> /\ fifo' = Tail(fifo)
      /\ UNCHANGED <<pst, file, sent, wire>>
  BY CalmFacts DEF ReceiveData, CanOn, Unchanged, pc
<1>2. Own(f, pst, file, sent) /\ f.cmd \in {"START", "DATA", "END"} /\ Lines'
  BY <1>1, OwnRead
<1>3. total = FrameCount[file] /\ Agrees BY <1>1 DEF Content, Receiving
<1>4. ~Empty BY <1>1 DEF Empty
<1>5. pst # "waitEnd" BY <1>1, <1>4 DEF Place, Receiving
<1>6. CASE f.cmd = "START"
  <2>1. DuplicateStart(f) BY <1>2, <1>3, <1>6 DEF Own, DuplicateStart
  <2>2. UNCHANGED <<toPc, mode, total, got>>
    BY <2>1 DEF ReceiveData, device
  <2>3. Place' BY <1>1, <1>4, <2>2 DEF Place, Answered
  <2>4. Content' BY <1>1, <1>3, <2>2 DEF Content, Agrees
  <2>5. QED BY <1>2, <2>3, <2>4 DEF CalmNext
<1>7. CASE f.cmd = "DATA"
  <2>1. pst = "waitData" BY <1>2, <1>7 DEF Own
  <2>2. toPc = <<>> /\ Len(got) = sent BY <1>1, <1>4, <2>1 DEF Place
  <2>3. Current(f) /\ Tail(fifo) = <<>> /\ wire = <<>>
    BY <1>1, <1>7, <2>1, AfterHead DEF Matters
  <2>4. f.seq = sent % SeqMod /\ f.data = <<file, sent + 1>>
    BY <2>1, <2>3 DEF Current
  <2>5. sent < FrameCount[file] BY <1>1, <2>1 DEF IInv, StepInv, Position
  <2>6. TakeData(f)
    BY <1>7, <2>2, <2>4 DEF ReceiveData, DuplicateStart, Acceptable, Expected
  <2> DEFINE s == Append(got, f.data)
  <2>7. /\ Len(s) = sent + 1 /\ s[sent + 1] = <<file, sent + 1>>
        /\ \A i \in 1..Len(got) : s[i] = got[i]
        /\ \A i \in 1..Len(s) : i \in 1..Len(got) \/ i = sent + 1
    BY <1>1, <2>2, <2>4
  <2>8. \A i \in 1..Len(s) : s[i] = <<file, i>>
    BY <1>3, <2>7 DEF Agrees
  <2> HIDE DEF s
  <2>9. Intact(s, file) BY <1>1, <2>5, <2>7, <2>8 DEF Intact
  <2>10. ~Refuse(~\E g \in Good : Intact(s, g) /\ FrameCount[g] = total, f.seq, 4)
    BY <1>1, <1>3, <2>9, CalmFacts
  <2>11. /\ got' = s /\ mode' = (IF Len(s) < total THEN "data" ELSE "end")
         /\ Reply("ACK", f.seq, Len(s)) /\ UNCHANGED total
    BY <2>6, <2>10 DEF TakeData, s
  <2>12. Post("ACK", f.seq, Len(s)) BY <2>11, CalmFacts
  <2>13. Answered(sent % SeqMod)' /\ toPc'[1].code = sent + 1
    BY <1>1, <2>2, <2>4, <2>7, <2>12, Heard DEF Answered
  <2>14. Empty' BY <1>1, <2>3 DEF Empty
  <2>15. mode' = IF sent + 1 < FrameCount[file] THEN "data" ELSE "end"
    BY <1>3, <2>7, <2>11
  <2>16. Place'
    BY <1>1, <2>1, <2>7, <2>11, <2>13, <2>14, <2>15 DEF Place, Answered
  <2>17. Content' BY <1>1, <1>3, <2>8, <2>11 DEF Content, Agrees
  <2>18. QED BY <1>2, <2>16, <2>17 DEF CalmNext
<1>8. f.cmd # "END" BY <1>2, <1>5 DEF Own
<1>9. QED BY <1>2, <1>6, <1>7, <1>8

(* When the receiver waits for END, nothing but END can come.              *)
LEMMA ReceiveEndCalm == ASSUME CInv, Before, ReceiveEnd PROVE CalmNext
<1>1. /\ IInv /\ TypeInv /\ Place /\ Content /\ pst \in Active
      /\ mode = "end" /\ CanOn /\ fifo # <<>> /\ fifo' = Tail(fifo)
      /\ UNCHANGED <<pst, file, sent, wire>>
  BY CalmFacts DEF ReceiveEnd, CanOn, Unchanged, pc
<1>2. /\ Own(Head(fifo), pst, file, sent) /\ Head(fifo).cmd \in {"START", "DATA", "END"} /\ Lines'
  BY <1>1, OwnRead
<1>3. pst \in {"end", "waitEnd"} /\ toPc = <<>> /\ Len(got) = sent
  BY <1>1 DEF Place, Empty, Active, Waiting, Receiving
<1>4. Head(fifo).cmd # "START"
  <2>1. sent > 0 BY <1>1, <1>3, SomeSent
  <2>2. Head(fifo) = fifo[1] /\ 1 \in 1..Len(fifo) BY <1>1, AfterHead
  <2>3. QED BY <1>1, <2>1, <2>2 DEF IInv, StepInv, LineInv
<1>5. pst = "waitEnd" /\ Head(fifo).cmd = "END" /\ Head(fifo).seq = sent % SeqMod
  BY <1>2, <1>3, <1>4 DEF Own
<1>6. AcceptEnd BY <1>3, <1>5 DEF ReceiveEnd, IsEnd, Expected
<1>7. mode' = "install" /\ UNCHANGED <<toPc, total, got>> BY <1>6 DEF AcceptEnd
<1>8. Tail(fifo) = <<>> /\ wire = <<>>
  BY <1>1, <1>5, AfterHead DEF Matters
<1>9. Place' BY <1>1, <1>3, <1>5, <1>7, <1>8 DEF Place, Empty
<1>10. Content' BY <1>1, <1>7 DEF Content, Agrees, Receiving
<1>11. QED BY <1>2, <1>9, <1>10 DEF CalmNext

(* The whole file is there: it is installed, and the final ACK is heard.   *)
LEMMA InstallCalm == ASSUME CInv, Before, Install PROVE CalmNext
<1>1. /\ IInv /\ Lines /\ Place /\ Content /\ pst \in Active /\ file \in Good
      /\ FrameCount[file] \in Nat /\ mode = "install" /\ CanOn
      /\ UNCHANGED <<pst, file, sent, wire>>
  BY CalmFacts DEF Install, CanOn, Unchanged, pc
<1>2. pst = "waitEnd" /\ wire = <<>> /\ toPc = <<>> /\ Len(got) = sent
  BY <1>1 DEF Place, Active, Waiting, Empty, Receiving
<1>3. sent = FrameCount[file] BY <1>1, <1>2 DEF IInv, StepInv, Position
<1>4. Agrees BY <1>1 DEF Content, Receiving
<1>5. Complete(file) BY <1>1, <1>2, <1>3, <1>4 DEF Complete, Intact, Agrees
<1>6. ~Refuse(~\E f \in Good : Complete(f), Expected, 10)
  BY <1>1, <1>5, CalmFacts
<1>7. PICK f \in Good : Commit(f) BY <1>6 DEF Install
<1>8. mode' = "boot" /\ fifo' = <<>> /\ Reply("ACK", Expected, 0)
  BY <1>7 DEF Commit
<1>9. Post("ACK", Expected, 0) BY <1>8, CalmFacts
<1>10. Len(toPc') = 1 /\ toPc'[1].cmd = "ACK" BY <1>1, <1>2, <1>9, Heard
<1>11. \A i \in 1..Len(toPc') : IsAck(i)' BY <1>10 DEF IsAck
<1>12. Place' BY <1>1, <1>2, <1>8, <1>11 DEF Place, Empty, Receiving
<1>13. Len(wire') = 0 /\ ~CanOn' BY <1>1, <1>2, <1>8 DEF CanOn
<1>14. Lines' BY <1>13 DEF Lines
<1>15. Content' BY <1>8 DEF Content, Receiving
<1>16. QED BY <1>12, <1>14, <1>15 DEF CalmNext

-----------------------------------------------------------------------------
(* Only a disturbed session fails.                                         *)

LEMMA CalmStep == ASSUME CInv, Next, Calm' PROVE CalmNext
<1>1. CASE NewSession BY <1>1, NewSessionCalm
<1>2. CASE ~NewSession
  <2>1. Before BY <1>2, StepGoes, CalmBefore
  <2>2. ~Kill BY DEF Kill, Close, Calm, Active, Waiting
  <2>3. ~Lose /\ ~McuTimeout BY <2>1 DEF Lose, McuTimeout, Before
  <2>4. CASE ReadStatus BY <2>1, <2>4, ReadStatusCalm DEF Before
  <2>5. CASE Sender
    BY <2>1, <2>4, <2>5, SendCalm, PcTimeoutCalm DEF Sender
  <2>6. CASE Mcu \/ Deliver \/ Reset
    BY <2>1, <2>3, <2>6, DeliverCalm, IdleStep, EnterCalm, ReceiveDataCalm, ReceiveEndCalm,
       InstallCalm DEF Mcu
  <2>7. QED BY <1>2, <2>2, <2>3, <2>5, <2>6 DEF Next
<1>3. QED BY <1>1, <1>2

LEMMA FailStep == ASSUME CInv, Next PROVE FailInv'
<1>1. SUFFICES ASSUME pst' = "failed", tries' < MaxTries, Accepted', ~disturbed' PROVE FALSE
  BY DEF FailInv
<1>2. ~NewSession BY <1>1 DEF NewSession
<1>3. Goes BY <1>2, StepGoes
<1>4. Accepted /\ ~disturbed BY <1>1, <1>3 DEF Goes, Accepted
<1>5. CASE pst \in Active
  <2>1. Calm BY <1>4, <1>5 DEF Calm
  <2>2. pst # "failed" BY <1>5 DEF Active, Waiting
  <2>3. ~ReadStatus BY <1>1, <2>1, ReadStatusCalm
  <2>4. ~(SendStart \/ SendData \/ SendEnd \/ PcTimeout \/ Kill)
    BY <1>1 DEF SendStart, SendData, SendEnd, PcTimeout, Kill, Close
  <2>5. UNCHANGED pst
    BY <1>2, <2>3, <2>4 DEF Next, Sender, Mcu, BootDone, Enter, WindowExpires, ReceiveData,
       ReceiveEnd, McuTimeout, Install, Deliver, Lose, Reset, Unchanged, pc
  <2>6. QED BY <1>1, <2>2, <2>5
<1>6. CASE pst \notin Active
  <2>1. ~Sender /\ ~Kill
    BY <1>6 DEF Sender, SendStart, SendData, SendEnd, ReadStatus, PcTimeout, Kill, Active
  <2>2. UNCHANGED <<pst, tries>>
    BY <1>2, <2>1 DEF Next, Mcu, BootDone, Enter, WindowExpires, ReceiveData,
       ReceiveEnd, McuTimeout, Install, Deliver, Lose, Reset, Unchanged, pc
  <2>3. QED BY <1>1, <1>4, <2>2 DEF CInv, FailInv
<1>7. QED BY <1>5, <1>6

LEMMA CalmInit == Init => CInv
  BY InvInit DEF CInv, CalmInv, FailInv, Calm, Init, Active, Waiting

LEMMA CInvStep == CInv /\ [Next]_vars => CInv'
<1>1. ASSUME CInv, [Next]_vars PROVE IInv' BY <1>1, InvStep DEF CInv
<1>2. ASSUME CInv, Next PROVE CalmInv' /\ FailInv'
  <2>1. Calm' => CalmNext BY <1>2, CalmStep
  <2>2. CalmInv' BY <2>1 DEF CalmInv, CalmNext
  <2>3. QED BY <1>2, <2>2, FailStep
<1>3. ASSUME CInv, UNCHANGED vars PROVE CalmInv' /\ FailInv'
  BY <1>3 DEF CInv, CalmInv, FailInv, Calm, Accepted, Lines, Own, Place, Content, Empty, Answered,
              Agrees, IsAck, CanOn, vars, pc, net, device, history
<1>4. QED BY <1>1, <1>2, <1>3 DEF CInv

(* A session that was let in and meets no loss, no timeout, no reset and   *)
(* no busy receiver does not fail when its file is one the device accepts: *)
(* the STARTs it repeats wait in the adapter, overflow the FIFO and are    *)
(* passed over without an answer, however many there are, however deep the *)
(* FIFO is and wherever the sequence numbers wrap.                         *)
THEOREM CanUndisturbed == Spec => []UndisturbedSucceeds
<1>1. CInv => UndisturbedSucceeds
  BY DEF CInv, FailInv, Accepted, UndisturbedSucceeds
<1>2. QED BY <1>1, CalmInit, CInvStep, PTL DEF Spec
=============================================================================
