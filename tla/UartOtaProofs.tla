---------------------------- MODULE UartOtaProofs ----------------------------
(***************************************************************************)
(* The transfer over UART stays in step and keeps the promise of           *)
(* UpdateTransfer: for all files, frame counts, sequence widths and        *)
(* numbers of sessions, faults and resets.                                 *)
(*                                                                         *)
(* The argument follows one frame and its status: at most one of the two   *)
(* is ever under way, and while a frame is, what the receiver holds is     *)
(* what the sender has had acknowledged.                                   *)
(***************************************************************************)
EXTENDS UartOta, SequenceTheorems, TLAPS

Off == {"idle", "failed", "ok"}
Busy == {"data", "end", "install"}
Modes == {"boot", "app", "window", "pause", "start"} \cup Busy

TypeInv ==
    /\ pst \in Active \cup Off /\ file \in Files \cup {NoFile} /\ sent \in Nat
    /\ pst \in Active => file \in Files
    /\ toMcu \in Seq(Frame) /\ toPc \in Seq(Reception)
    /\ mode \in Modes /\ total \in Nat /\ got \in Seq(Chunk) /\ endSeq \in Seqs

(* Where the sender is tells how many frames have been acknowledged.       *)
Position ==
    /\ pst \in {"prompt", "start", "waitStart"} => sent = 0
    /\ pst \in {"data", "waitData"} => sent < FrameCount[file]
    /\ pst \in {"end", "waitEnd"} => sent = FrameCount[file]

(* What the line carries is what the sender sent last, whole or damaged:   *)
(* one frame, or 'u' and START together.                                   *)
LineInv ==
    /\ toMcu # <<>> => pst \notin {"prompt", "data", "end"}
    /\ Len(toMcu) <= 2
    /\ pst \in {"start", "waitData", "waitEnd"} => Len(toMcu) <= 1
    /\ Len(toMcu) = 2 => toMcu[2].cmd = "START" /\ toMcu[1].cmd \in {"u", "BAD"}
    /\ \A i \in 1..Len(toMcu) :
         /\ toMcu[i].cmd = "u" => pst \notin {"waitData", "waitEnd"}
         /\ toMcu[i].cmd = "START" =>
              i = Len(toMcu) /\ toMcu[i].seq = 0 /\ pst \notin {"start", "waitData", "waitEnd"}
         /\ toMcu[i].cmd = "DATA" =>
              /\ Len(toMcu) = 1 /\ pst \notin {"start", "waitStart", "waitEnd"}
              /\ toMcu[i].seq = sent % SeqMod /\ toMcu[i].data = <<file, sent + 1>>
         /\ toMcu[i].cmd = "END" =>
              /\ Len(toMcu) = 1 /\ pst \notin {"start", "waitStart", "waitData"}
              /\ toMcu[i].seq = sent % SeqMod /\ file \in ended

IsAck(i) == i \in 1..Len(toPc) /\ toPc[i].cmd = "ACK"

(* Between two frames no ACK is left; while the sender waits there is at   *)
(* most one, with the right number, and the device has done what it says.  *)
ReplyInv ==
    /\ pst \in {"start", "data", "end"} => \A i \in 1..Len(toPc) : ~IsAck(i)
    /\ pst \in Waiting => \A i \in 1..Len(toPc) : IsAck(i) =>
         /\ toPc[i].seq = AwaitedSeq /\ toMcu = <<>> /\ mode # "install"
         /\ \A j \in 1..Len(toPc) : IsAck(j) => i = j
         /\ pst = "waitData" /\ mode \in {"data", "end"} => Len(got) = sent + 1
         /\ pst = "waitEnd" => landed = file /\ mode \notin Busy
    /\ pst = "prompt" => \A i, j \in 1..Len(toPc) :
         toPc[i].cmd = "PROMPT" /\ i < j => ~IsAck(j)

Agrees == \A i \in 1..Len(got) : got[i] = <<file, i>>

(* A receiver that is busy while the sender is past the prompt is busy     *)
(* with that very session.                                                 *)
StreamInv ==
    /\ pst = "prompt" /\ Prompted => mode \notin Busy
    /\ pst = "start" => mode \notin Busy
    /\ pst = "waitStart" /\ toMcu # <<>> => mode \notin Busy
    /\ pst = "waitStart" => mode \notin {"end", "install"} /\ (mode = "data" => got = <<>>)
    /\ pst \in {"data", "waitData", "end"} => mode # "install"
    /\ pst \in {"data", "waitData", "end", "waitEnd"} /\ mode \in Busy =>
         /\ Agrees /\ Len(got) \in {sent, sent + 1}
         /\ (pst # "waitData" \/ toMcu # <<>>) => Len(got) = sent
    /\ pst = "waitEnd" /\ mode = "install" => toMcu = <<>> /\ endSeq = sent % SeqMod

(* What is about to be installed has been sent to its end, by a sender     *)
(* that may be gone.                                                       *)
InstallInv ==
    /\ \A i \in 1..Len(toMcu) : toMcu[i].cmd = "END" /\ mode \in {"data", "end"} => Agrees
    /\ mode = "install" => \A f \in Good : Complete(f) => f \in ended

IInv == TypeInv /\ Position /\ LineInv /\ ReplyInv /\ StreamInv /\ InstallInv

-----------------------------------------------------------------------------
(* Frames, statuses and numbers.                                           *)

(* Every number on the line is a sequence number.                          *)
LEMMA SeqNumber == 0 \in Seqs /\ \A n \in Nat : n % SeqMod \in Seqs
  BY NumberAssumption DEF Seqs

(* What a read leaves on the line.                                         *)
LEMMA AfterRead ==
  ASSUME TypeInv, toMcu # <<>>
  PROVE  /\ Head(toMcu) = toMcu[1] /\ Head(toMcu) \in Frame
         /\ Len(toMcu) \in Nat \ {0} /\ Len(Tail(toMcu)) = Len(toMcu) - 1
         /\ Tail(toMcu) \in Seq(Frame)
         /\ Len(toMcu) = 1 => Tail(toMcu) = <<>>
         /\ \A i \in 1..Len(Tail(toMcu)) : Tail(toMcu)[i] = toMcu[i + 1]
<1>1. toMcu \in Seq(Frame) BY DEF TypeInv
<1>2. /\ Head(toMcu) \in Frame /\ Tail(toMcu) \in Seq(Frame)
      /\ Len(Tail(toMcu)) = Len(toMcu) - 1
      /\ \A i \in 1..Len(Tail(toMcu)) : Tail(toMcu)[i] = toMcu[i + 1]
  BY <1>1, HeadTailProperties
<1>3. Len(toMcu) \in Nat \ {0} BY <1>1, EmptySeq
<1>4. Head(toMcu) = toMcu[1] BY <1>1, <1>3
<1>5. Len(toMcu) = 1 => Tail(toMcu) = <<>>
  <2>1. Tail(toMcu) # <<>> => Len(Tail(toMcu)) \in Nat \ {0}
    BY <1>2, EmptySeq
  <2>2. QED BY <1>2, <2>1
<1>6. QED BY <1>2, <1>3, <1>4, <1>5

(* Post adds one text or status, or nothing.                               *)
LEMMA Posted ==
  ASSUME TypeInv, NEW cmd \in {"PROMPT", "TEXT", "ACK", "ERROR", "BAD"}, NEW seq \in Seqs,
         Post(cmd, seq)
  PROVE  /\ toPc' \in Seq(Reception)
         /\ \/ toPc' = toPc
            \/ /\ Len(toPc') = Len(toPc) + 1
               /\ \A i \in 1..Len(toPc) : toPc'[i] = toPc[i]
               /\ toPc'[Len(toPc) + 1] = [cmd |-> cmd, seq |-> seq]
<1> DEFINE item == [cmd |-> cmd, seq |-> seq]
<1>1. item \in Reception BY DEF Reception
<1>2. toPc \in Seq(Reception) BY DEF TypeInv
<1>3. toPc' = toPc \/ toPc' = Append(toPc, item) BY DEF Post
<1>4. /\ Append(toPc, item) \in Seq(Reception)
      /\ Len(Append(toPc, item)) = Len(toPc) + 1
      /\ \A i \in 1..Len(toPc) : Append(toPc, item)[i] = toPc[i]
      /\ Append(toPc, item)[Len(toPc) + 1] = item
  BY <1>1, <1>2
<1>5. QED BY <1>2, <1>3, <1>4

(* Send puts one frame behind what is on the line.                         *)
LEMMA Sent ==
  ASSUME TypeInv, NEW cmd \in {"u", "START", "DATA", "END"}, NEW seq \in Seqs,
         NEW size \in Nat, NEW data \in Chunk, Send(cmd, seq, size, data)
  PROVE  /\ toMcu' \in Seq(Frame) /\ Len(toMcu') = Len(toMcu) + 1
         /\ \A i \in 1..Len(toMcu) : toMcu'[i] = toMcu[i]
         /\ toMcu'[Len(toMcu) + 1].cmd = cmd /\ toMcu'[Len(toMcu) + 1].seq = seq
         /\ toMcu'[Len(toMcu) + 1].size = size /\ toMcu'[Len(toMcu) + 1].data = data
<1>1. [cmd |-> cmd, seq |-> seq, size |-> size, data |-> data] \in Frame BY DEF Frame
<1>2. toMcu \in Seq(Frame) BY DEF TypeInv
<1>3. QED BY <1>1, <1>2 DEF Send

-----------------------------------------------------------------------------
(* Types.                                                                  *)

LEMMA TypeInit == Init => TypeInv
  BY SeqNumber DEF Init, TypeInv, Active, Waiting, Off, Modes

(* What Reply adds is a status.                                            *)
LEMMA Replied ==
  ASSUME TypeInv, NEW cmd \in {"ACK", "ERROR"}, NEW seq \in Seqs, Reply(cmd, seq)
  PROVE  toPc' \in Seq(Reception)
<1>1. CASE Post(cmd, seq) BY <1>1, Posted
<1>2. CASE Post("BAD", seq) BY <1>2, Posted
<1>3. CASE UNCHANGED toPc BY <1>3 DEF TypeInv
<1>4. QED BY <1>1, <1>2, <1>3 DEF Reply

(* What every refusal does, whatever the reason.                           *)
Refusal == Leave /\ \E seq \in Seqs : Reply("ERROR", seq) \/ Post("ERROR", seq)

LEMMA RefusalTypes ==
  ASSUME TypeInv, Refusal
  PROVE  /\ toPc' \in Seq(Reception) /\ mode' \in Modes
         /\ total' \in Nat /\ got' \in Seq(Chunk) /\ endSeq' \in Seqs
<1>1. toPc' \in Seq(Reception)
  BY Replied, Posted DEF Refusal
<1>2. <<>> \in Seq(Chunk) BY EmptySeq
<1>3. QED BY <1>1, <1>2, SeqNumber DEF Refusal, Leave, Forget, Modes

LEMMA TypeStep == ASSUME TypeInv, [Next]_vars PROVE TypeInv'
<1> USE DEF TypeInv, pc, device, stream, uart, budget, history
<1>1. CASE NewSession \/ Kill \/ PcTimeout
  BY <1>1 DEF NewSession, Kill, PcTimeout, Stop, Active, Waiting, GivesUp, Off
<1>2. CASE ReadPrompt
  <2>1. PICK n \in 1..Len(toPc) :
          /\ toPc' = SubSeq(toPc, n + 1, Len(toPc))
          /\ \/ Send("u", 0, 0, NoChunk) /\ pst' = "start"
             \/ UNCHANGED <<toMcu, pst>>
    BY <1>2 DEF ReadPrompt
  <2>2. toPc' \in Seq(Reception)
    <3>1. \A i \in n + 1 .. Len(toPc) : toPc[i] \in Reception
      BY ElementOfSeq
    <3>2. QED BY <2>1, <3>1, SubSeqProperties
  <2>3. NoChunk \in Chunk BY DEF NoChunk, Chunk
  <2>4. toMcu' \in Seq(Frame)
    BY <2>1, <2>3, SeqNumber, Sent
  <2>5. QED BY <1>2, <2>1, <2>2, <2>4 DEF ReadPrompt, Active
<1>3. CASE ReadStatus
  <2>1. toPc' \in Seq(Reception)
    BY <1>3, HeadTailProperties DEF ReadStatus
  <2>2. pst' \in Active \cup Off /\ sent' \in Nat
    BY <1>3 DEF ReadStatus, Acknowledged, Stop, Active, Waiting, Off
  <2>3. QED BY <1>3, <2>1, <2>2 DEF ReadStatus, Active
<1>4. CASE SendStart \/ SendData \/ SendEnd
  <2>1. CASE SendStart
    <3>1. FrameCount[file] \in Nat /\ NoChunk \in Chunk
      BY <2>1, FileAssumption DEF SendStart, Active, NoChunk, Chunk
    <3>2. QED BY <2>1, <3>1, SeqNumber, Sent DEF SendStart, Waiting, Active
  <2>2. CASE SendData
    <3>1. sent % SeqMod \in Seqs /\ <<file, sent + 1>> \in Chunk
      BY SeqNumber DEF Chunk
    <3>2. QED BY <2>2, <3>1, Sent DEF SendData, Waiting, Active
  <2>3. CASE SendEnd
    <3>1. sent % SeqMod \in Seqs /\ NoChunk \in Chunk
      BY SeqNumber DEF Chunk, NoChunk
    <3>2. QED BY <2>3, <3>1, Sent DEF SendEnd, Waiting, Active
  <2>4. QED BY <1>4, <2>1, <2>2, <2>3
<1>5. CASE Damage
  <2>1. NoChunk \in Chunk BY DEF Chunk, NoChunk
  <2>2. 1 \in 1..Len(toMcu) /\ toMcu[1] \in Frame
    BY <1>5, AfterRead DEF Damage
  <2>3. [toMcu[1] EXCEPT !.cmd = "BAD", !.data = NoChunk] \in Frame
    BY <2>1, <2>2 DEF Frame
  <2>4. toMcu' = [toMcu EXCEPT ![1] = [toMcu[1] EXCEPT !.cmd = "BAD", !.data = NoChunk]]
    BY <1>5, <2>2 DEF Damage, Frame
  <2>5. toMcu' \in Seq(Frame)
    BY <2>2, <2>3, <2>4, ExceptSeq
  <2>6. QED BY <1>5, <2>5 DEF Damage
<1>6. CASE Missed
  BY <1>6, AfterRead DEF Missed
<1>7. CASE StartApp \/ WindowExpires \/ Reset
  <2>1. <<>> \in Seq(Chunk) BY EmptySeq
  <2>2. CASE StartApp BY <2>2 DEF StartApp, Modes
  <2>3. CASE WindowExpires BY <2>3 DEF WindowExpires, Modes
  <2>4. CASE Reset
    BY <2>1, <2>4, SeqNumber DEF Reset, Restart, Forget, Modes
  <2>5. QED BY <1>7, <2>2, <2>3, <2>4
<1>8. CASE OpenWindow
  BY <1>8, SeqNumber, Posted DEF OpenWindow, Modes
<1>9. CASE ReadWindow
  <2>1. toMcu' \in Seq(Frame)
    BY <1>9, AfterRead DEF ReadWindow
  <2>2. toPc' \in Seq(Reception) /\ mode' \in Modes
    BY <1>9, SeqNumber, Posted DEF ReadWindow, EnterReceiver, Decline, Modes
  <2>3. QED BY <1>9, <2>1, <2>2 DEF ReadWindow
<1>10. CASE ReadOverrun \/ McuTimeout
  <2>1. Expected \in Seqs /\ 0 \in Seqs
    BY SeqNumber, LenProperties DEF Expected
  <2>2. <<>> \in Seq(Chunk) BY EmptySeq
  <2>3. CASE ReadOverrun
    <3>1. Refusal BY <2>1, <2>3 DEF ReadOverrun, Refuse, Refusal
    <3>2. QED BY <2>3, <3>1, RefusalTypes DEF ReadOverrun, Unchanged
  <2>4. CASE McuTimeout
    <3>1. toPc' \in Seq(Reception)
      BY <2>1, <2>4, Posted DEF McuTimeout
    <3>2. QED BY <2>2, <2>4, <3>1, SeqNumber DEF McuTimeout, Leave, Forget, Unchanged, Modes
  <2>5. QED BY <1>10, <2>3, <2>4
<1>11. CASE ReadFrame
  <2> DEFINE f == Head(toMcu)
  <2>1. f \in Frame /\ toMcu' \in Seq(Frame)
    BY <1>11, AfterRead DEF ReadFrame
  <2>2. f.seq \in Seqs /\ f.size \in Nat /\ f.data \in Chunk
    BY <2>1 DEF Frame
  <2>3. Expected \in Seqs /\ 0 \in Seqs
    BY SeqNumber, LenProperties DEF Expected
  <2>4. <<>> \in Seq(Chunk) BY EmptySeq
  <2>5. /\ toPc' \in Seq(Reception) /\ mode' \in Modes
        /\ total' \in Nat /\ got' \in Seq(Chunk) /\ endSeq' \in Seqs
    <3>1. CASE Refusal
      BY <3>1, RefusalTypes
    <3>2. CASE f.size \in ValidSizes /\ TakeStart(f)
      BY <2>2, <2>4, <3>2, Replied DEF TakeStart, Modes, Busy
    <3>3. CASE got' = Append(got, f.data) /\ TakeData(f) /\ mode' \in Busy
      <4>1. CASE Reply("ACK", AckSeq(f)) /\ UNCHANGED <<total, endSeq>>
        BY <2>2, <3>3, <4>1, Replied DEF AckSeq, Modes
      <4>2. QED BY <2>2, <3>1, <3>3, <4>1 DEF TakeData, Refuse, Refusal
    <3>4. CASE AcceptEnd(f)
      BY <2>2, <3>4 DEF AcceptEnd, Modes, Busy
    <3>5. TakeFrame(f) BY <1>11 DEF ReadFrame
    <3>6. QED
      BY <2>2, <2>3, <3>1, <3>2, <3>3, <3>4, <3>5
         DEF TakeFrame, TakeStart, TakeData, Refuse, Refusal, Busy
  <2>6. QED BY <1>11, <2>1, <2>5 DEF ReadFrame, Unchanged
<1>12. CASE Install
  <2>1. (Reply("ACK", endSeq) /\ Restart) \/ Refusal
    BY <1>12 DEF Install, Commit, Refuse, Refusal
  <2>2. CASE Reply("ACK", endSeq) /\ Restart
    <3>1. toPc' \in Seq(Reception) BY <2>2, Replied
    <3>2. <<>> \in Seq(Chunk) BY EmptySeq
    <3>3. QED
      BY <1>12, <2>2, <3>1, <3>2, SeqNumber DEF Install, Unchanged, Restart, Forget, Modes
  <2>3. QED BY <1>12, <2>1, <2>2, RefusalTypes DEF Install, Unchanged
<1>13. CASE UNCHANGED vars
  BY <1>13 DEF vars
<1>14. QED
  BY <1>1, <1>2, <1>3, <1>4, <1>5, <1>6, <1>7, <1>8, <1>9, <1>10, <1>11, <1>12, <1>13
     DEF Next, Sender, Mcu

-----------------------------------------------------------------------------
(* What most steps have in common.                                         *)

(* The device reads a frame, or none.                                      *)
Reads == toMcu' = toMcu \/ (toMcu # <<>> /\ toMcu' = Tail(toMcu))

LEMMA LineKept ==
  ASSUME TypeInv, LineInv, Reads, UNCHANGED <<pst, file, sent, ended>>
  PROVE  LineInv'
<1>1. CASE toMcu' = toMcu BY <1>1 DEF LineInv
<1>2. CASE toMcu # <<>> /\ toMcu' = Tail(toMcu)
  <2>1. /\ Len(toMcu) \in {1, 2} /\ Len(toMcu') = Len(toMcu) - 1
        /\ \A i \in 1..Len(toMcu') : i = 1 /\ toMcu'[i] = toMcu[2] /\ Len(toMcu) = 2
    BY <1>2, AfterRead DEF LineInv
  <2>2. \A i \in 1..Len(toMcu') :
          /\ toMcu'[i].cmd = "START" /\ toMcu'[i].seq = 0 /\ i = Len(toMcu')
          /\ pst \notin {"start", "waitData", "waitEnd"}
    <3>1. Len(toMcu) = 2 => 2 \in 1..Len(toMcu) /\ toMcu[2].cmd = "START"
      BY DEF LineInv
    <3>2. QED BY <2>1, <3>1 DEF LineInv
  <2>3. Len(toMcu') \in {0, 1} BY <2>1
  <2>4. toMcu' # <<>> => pst \notin {"prompt", "data", "end"}
    BY <1>2 DEF LineInv
  <2>5. QED BY <2>2, <2>3, <2>4 DEF LineInv
<1>3. QED BY <1>1, <1>2 DEF Reads

(* A text or an error, or nothing, is added to what waits for the PC.      *)
Chatter ==
    \/ toPc' = toPc
    \/ /\ Len(toPc') = Len(toPc) + 1
       /\ \A i \in 1..Len(toPc) : toPc'[i] = toPc[i]
       /\ toPc'[Len(toPc) + 1].cmd # "ACK"

LEMMA PostIsChatter ==
  ASSUME TypeInv, NEW cmd \in {"PROMPT", "TEXT", "ERROR", "BAD"}, NEW seq \in Seqs,
         Post(cmd, seq)
  PROVE  Chatter
<1>1. cmd \in {"PROMPT", "TEXT", "ACK", "ERROR", "BAD"}
  OBVIOUS
<1>2. [cmd |-> cmd, seq |-> seq].cmd # "ACK"
  OBVIOUS
<1>3. \/ toPc' = toPc
      \/ /\ Len(toPc') = Len(toPc) + 1
         /\ \A i \in 1..Len(toPc) : toPc'[i] = toPc[i]
         /\ toPc'[Len(toPc) + 1] = [cmd |-> cmd, seq |-> seq]
  BY <1>1, Posted
<1>4. QED BY <1>2, <1>3 DEF Chatter

LEMMA RefusalIsChatter == ASSUME TypeInv, Refusal PROVE Chatter /\ mode' \notin Busy
<1>1. Chatter
  BY PostIsChatter DEF Refusal, Reply, Chatter
<1>2. QED BY <1>1 DEF Refusal, Leave, Busy

(* No ACK appears or changes.                                              *)
LEMMA SameAcks ==
  ASSUME TypeInv, Chatter
  PROVE  /\ \A i : IsAck(i)' <=> IsAck(i)
         /\ \A i : IsAck(i) => toPc'[i] = toPc[i]
         /\ Len(toPc) \in Nat /\ Len(toPc') \in Nat /\ Len(toPc) <= Len(toPc')
         /\ \A i \in 1..Len(toPc) : toPc'[i] = toPc[i]
<1>1. Len(toPc) \in Nat BY LenProperties DEF TypeInv
<1>2. QED BY <1>1 DEF Chatter, IsAck

(* A step of the device that ends or does not touch a reception.           *)
LEMMA QuietStep ==
  ASSUME IInv, Reads, Chatter, mode' \notin Busy,
         UNCHANGED <<pst, file, sent, ended, landed>>
  PROVE  (Position /\ LineInv /\ ReplyInv /\ StreamInv /\ InstallInv)'
<1>1. Position' BY DEF IInv, Position
<1>2. LineInv' BY LineKept DEF IInv
<1>3. ReplyInv'
  <2>1. UNCHANGED AwaitedSeq BY DEF AwaitedSeq
  <2>2. toMcu = <<>> => toMcu' = <<>> BY DEF Reads
  <2>3. mode' # "install" /\ mode' \notin {"data", "end"} BY DEF Busy
  <2>4. CASE pst \in {"start", "data", "end"}
    BY <2>4, SameAcks DEF IInv, ReplyInv, IsAck, Waiting
  <2>5. CASE pst \in Waiting
    BY <2>1, <2>2, <2>3, <2>5, SameAcks DEF IInv, ReplyInv, IsAck, Waiting
  <2>6. CASE pst = "prompt"
    BY <2>6, SameAcks DEF IInv, ReplyInv, IsAck, Waiting
  <2>7. QED BY <2>4, <2>5, <2>6 DEF ReplyInv
<1>4. StreamInv' BY DEF IInv, StreamInv, Busy
<1>5. InstallInv' BY DEF InstallInv, Busy
<1>6. QED BY <1>1, <1>2, <1>3, <1>4, <1>5

-----------------------------------------------------------------------------
(* The steps, one lemma each.                                              *)

StepInv == Position /\ LineInv /\ ReplyInv /\ StreamInv /\ InstallInv

LEMMA QuietActions ==
  ASSUME IInv,
         StartApp \/ OpenWindow \/ ReadWindow \/ WindowExpires \/ ReadOverrun \/ McuTimeout \/ Reset
  PROVE  StepInv'
<1> USE DEF pc, uart, device, stream, budget, history, Unchanged, Reads, Chatter
<1>1. TypeInv /\ 0 \in Seqs /\ Expected \in Seqs
  BY SeqNumber, LenProperties DEF IInv, TypeInv, Expected
<1>2. ASSUME Reads, Chatter, mode' \notin Busy, UNCHANGED <<pst, file, sent, ended, landed>>
      PROVE  StepInv'
  BY <1>2, QuietStep DEF StepInv
<1>3. CASE StartApp BY <1>2, <1>3 DEF StartApp, Busy
<1>4. CASE OpenWindow
  <2>1. Chatter BY <1>1, <1>4, PostIsChatter DEF OpenWindow
  <2>2. QED BY <1>2, <1>4, <2>1 DEF OpenWindow, Busy
<1>5. CASE ReadWindow
  <2>1. Chatter
    BY <1>1, <1>5, PostIsChatter DEF ReadWindow, EnterReceiver, Decline
  <2>2. Reads /\ mode' \notin Busy
    BY <1>5 DEF ReadWindow, EnterReceiver, Decline, Busy
  <2>3. QED BY <1>2, <1>5, <2>1, <2>2 DEF ReadWindow
<1>6. CASE WindowExpires BY <1>2, <1>6 DEF WindowExpires, Busy
<1>7. CASE ReadOverrun
  <2>1. Refusal BY <1>1, <1>7 DEF ReadOverrun, Refuse, Refusal
  <2>2. QED BY <1>1, <1>2, <1>7, <2>1, RefusalIsChatter DEF ReadOverrun
<1>8. CASE McuTimeout
  <2>1. Chatter BY <1>1, <1>8, PostIsChatter DEF McuTimeout
  <2>2. QED BY <1>2, <1>8, <2>1 DEF McuTimeout, Leave, Busy
<1>9. CASE Reset BY <1>2, <1>9 DEF Reset, Restart, Busy
<1>10. QED BY <1>3, <1>4, <1>5, <1>6, <1>7, <1>8, <1>9

(* A sender that ends leaves the device to what it was doing.              *)
LEMMA SenderStops ==
  ASSUME IInv, pst' \in Off, UNCHANGED <<file, sent, toMcu, mode, got, ended>>
  PROVE  StepInv'
<1> USE DEF Off, Waiting, Active
<1>1. Position' BY DEF Position
<1>2. LineInv' BY DEF IInv, LineInv
<1>3. ReplyInv' BY DEF ReplyInv
<1>4. StreamInv' BY DEF StreamInv
<1>5. InstallInv' BY DEF IInv, InstallInv, Agrees, Complete, Intact
<1>6. QED BY <1>1, <1>2, <1>3, <1>4, <1>5 DEF StepInv

LEMMA NewSessionStep == ASSUME IInv, NewSession PROVE StepInv'
<1> USE DEF NewSession, device, stream
<1>1. Len(toPc') = 0 /\ Len(toMcu') = 0 OBVIOUS
<1>2. Position' BY DEF Position
<1>3. LineInv' BY <1>1 DEF LineInv
<1>4. ReplyInv' BY <1>1 DEF ReplyInv, Waiting
<1>5. StreamInv' BY <1>1 DEF StreamInv, Prompted
<1>6. InstallInv' BY <1>1 DEF IInv, InstallInv, Complete, Intact
<1>7. QED BY <1>2, <1>3, <1>4, <1>5, <1>6 DEF StepInv

LEMMA MissedStep == ASSUME IInv, Missed PROVE StepInv'
<1> USE DEF Missed, pc, device, stream, budget, history, Reads
<1>1. CASE mode # "install"
  <2>1. mode' \notin Busy BY <1>1 DEF Busy, Listening
  <2>2. QED BY <2>1, QuietStep DEF Chatter, StepInv
<1>2. CASE mode = "install"
  <2>1. Position' BY DEF IInv, Position
  <2>2. LineInv' BY LineKept DEF IInv
  <2>3. ReplyInv'
    <3>1. UNCHANGED AwaitedSeq BY DEF AwaitedSeq
    <3>2. QED BY <3>1 DEF IInv, ReplyInv, IsAck
  <2>4. StreamInv' BY <1>2 DEF IInv, StreamInv, Prompted, Agrees
  <2>5. InstallInv' BY <1>2 DEF IInv, InstallInv, Complete, Intact
  <2>6. QED BY <2>1, <2>2, <2>3, <2>4, <2>5 DEF StepInv
<1>3. QED BY <1>1, <1>2

LEMMA ReadPromptStep == ASSUME IInv, ReadPrompt PROVE StepInv'
<1> USE DEF uart, device, stream, budget, history
<1>1. TypeInv /\ toMcu = <<>> /\ Len(toMcu) = 0 /\ Len(toPc) \in Nat
  BY LenProperties DEF IInv, TypeInv, LineInv, ReadPrompt
<1>2. PICK n \in 1..Len(toPc) :
        /\ toPc' = SubSeq(toPc, n + 1, Len(toPc))
        /\ IF \E i \in 1..n : toPc[i].cmd = "PROMPT"
             THEN Send("u", 0, 0, NoChunk) /\ pst' = "start"
             ELSE UNCHANGED <<toMcu, pst>>
  BY DEF ReadPrompt
<1>3. /\ Len(toPc') \in Nat /\ Len(toPc') = Len(toPc) - n
      /\ \A i \in 1..Len(toPc') : i + n \in 1..Len(toPc) /\ toPc'[i] = toPc[i + n]
  <2>1. \A i \in n + 1 .. Len(toPc) : toPc[i] \in Reception
    BY <1>1, ElementOfSeq DEF TypeInv
  <2>2. /\ Len(toPc') = IF n + 1 <= Len(toPc) THEN Len(toPc) - (n + 1) + 1 ELSE 0
        /\ \A i \in 1 .. Len(toPc) - (n + 1) + 1 : toPc'[i] = toPc[n + 1 + i - 1]
    BY <1>1, <1>2, <2>1, SubSeqProperties
  <2>3. QED BY <1>1, <2>2
<1>4. UNCHANGED <<file, sent, mode, got, total, endSeq, ended, landed>>
  BY DEF ReadPrompt
<1>5. pst = "prompt" BY DEF ReadPrompt
<1>6. CASE \E i \in 1..n : toPc[i].cmd = "PROMPT"
  <2>1. /\ pst' = "start" /\ Len(toMcu') = 1
        /\ toMcu'[1].cmd = "u"
    <3>1. NoChunk \in Chunk BY DEF NoChunk, Chunk
    <3>2. Send("u", 0, 0, NoChunk) BY <1>2, <1>6
    <3>3. Len(toMcu') = Len(toMcu) + 1 /\ toMcu'[Len(toMcu) + 1].cmd = "u"
      BY <1>1, <3>1, <3>2, SeqNumber, Sent
    <3>4. QED BY <1>1, <1>2, <1>6, <3>3
  <2>2. mode \notin Busy
    BY <1>5, <1>6 DEF IInv, StreamInv, Prompted
  <2>3. Position' BY <1>4, <1>5, <2>1 DEF IInv, Position
  <2>4. LineInv' BY <2>1 DEF LineInv
  <2>5. ReplyInv'
    <3>1. \A j \in n + 1 .. Len(toPc) : toPc[j].cmd # "ACK"
      BY <1>1, <1>5, <1>6 DEF IInv, ReplyInv, IsAck
    <3>2. \A i \in 1..Len(toPc') : toPc'[i].cmd # "ACK"
      BY <1>1, <1>3, <3>1
    <3>3. QED BY <2>1, <3>2 DEF ReplyInv, IsAck, Waiting
  <2>6. StreamInv' BY <1>4, <2>1, <2>2 DEF StreamInv
  <2>7. InstallInv' BY <1>4, <2>1, <2>2 DEF InstallInv, Busy
  <2>8. QED BY <2>3, <2>4, <2>5, <2>6, <2>7 DEF StepInv
<1>7. CASE ~\E i \in 1..n : toPc[i].cmd = "PROMPT"
  <2>1. UNCHANGED <<toMcu, pst>> BY <1>2, <1>7
  <2>2. Position' BY <1>4, <2>1 DEF IInv, Position
  <2>3. LineInv' BY <1>4, <2>1 DEF IInv, LineInv
  <2>4. ReplyInv'
    <3>1. \A i, j \in 1..Len(toPc) :
            toPc[i].cmd = "PROMPT" /\ i < j => toPc[j].cmd # "ACK"
      BY <1>5 DEF IInv, ReplyInv, IsAck
    <3>2. \A i, j \in 1..Len(toPc') :
            toPc'[i].cmd = "PROMPT" /\ i < j => toPc'[j].cmd # "ACK"
      <4> TAKE i, j \in 1..Len(toPc')
      <4>1. i + n \in 1..Len(toPc) /\ j + n \in 1..Len(toPc) /\ (i < j => i + n < j + n)
        BY <1>1, <1>3
      <4>2. QED BY <1>3, <3>1, <4>1
    <3>3. QED BY <1>5, <2>1, <3>2 DEF ReplyInv, IsAck, Waiting
  <2>5. StreamInv'
    BY <1>3, <1>4, <1>5, <2>1 DEF IInv, StreamInv, Prompted
  <2>6. InstallInv' BY <1>4, <2>1 DEF IInv, InstallInv, Agrees, Complete, Intact
  <2>7. QED BY <2>2, <2>3, <2>4, <2>5, <2>6 DEF StepInv
<1>8. QED BY <1>6, <1>7

LEMMA SendStartStep == ASSUME IInv, SendStart PROVE StepInv'
<1> USE DEF uart, device, stream, budget, history
<1>1. pst = "start" /\ pst' = "waitStart" /\ TypeInv /\ Len(toMcu) \in {0, 1} /\ sent = 0
  <2>1. Len(toMcu) \in Nat BY LenProperties DEF IInv, TypeInv
  <2>2. pst = "start" /\ pst' = "waitStart" BY DEF SendStart
  <2>3. Len(toMcu) <= 1 BY <2>2 DEF IInv, LineInv
  <2>4. sent = 0 BY <2>2 DEF IInv, Position
  <2>5. TypeInv BY DEF IInv
  <2>6. QED BY <2>1, <2>2, <2>3, <2>4, <2>5
<1>2. UNCHANGED <<file, sent, toPc, mode, got, total, endSeq, ended, landed>>
  BY DEF SendStart
<1>3. /\ Len(toMcu') = Len(toMcu) + 1 /\ \A i \in 1..Len(toMcu) : toMcu'[i] = toMcu[i]
      /\ toMcu'[Len(toMcu) + 1].cmd = "START" /\ toMcu'[Len(toMcu) + 1].seq = 0
  <2>1. FrameCount[file] \in Nat /\ NoChunk \in Chunk
    BY <1>1, FileAssumption DEF TypeInv, Active, NoChunk, Chunk
  <2>2. Send("START", 0, FrameCount[file], NoChunk) BY DEF SendStart
  <2>3. QED BY <1>1, <2>1, <2>2, SeqNumber, Sent
<1>4. \A i \in 1..Len(toMcu) : toMcu[i].cmd \in {"u", "BAD"}
  <2>1. \A i \in 1..Len(toMcu) : toMcu[i] \in Frame BY <1>1, ElementOfSeq DEF TypeInv
  <2>2. QED BY <1>1, <2>1 DEF IInv, LineInv, Frame
<1>5. mode \notin Busy BY <1>1 DEF IInv, StreamInv
<1>6. Position' BY <1>1, <1>2 DEF IInv, Position
<1>7. LineInv' BY <1>1, <1>3, <1>4 DEF LineInv
<1>8. ReplyInv' BY <1>1, <1>2 DEF IInv, ReplyInv, IsAck, Waiting
<1>9. StreamInv' BY <1>1, <1>2, <1>5 DEF StreamInv, Busy
<1>10. InstallInv' BY <1>2, <1>5 DEF InstallInv, Busy
<1>11. QED BY <1>6, <1>7, <1>8, <1>9, <1>10 DEF StepInv

LEMMA SendDataStep == ASSUME IInv, SendData PROVE StepInv'
<1> USE DEF uart, device, stream, budget, history
<1>1. pst = "data" /\ pst' = "waitData" /\ TypeInv BY DEF IInv, SendData
<1>2. toMcu = <<>> /\ Len(toMcu) = 0 BY <1>1 DEF IInv, LineInv
<1>3. UNCHANGED <<file, sent, toPc, mode, got, total, endSeq, ended, landed>>
  BY DEF SendData
<1>4. /\ Len(toMcu') = 1 /\ toMcu'[1].cmd = "DATA"
      /\ toMcu'[1].seq = sent % SeqMod /\ toMcu'[1].data = <<file, sent + 1>>
  <2>1. sent % SeqMod \in Seqs /\ <<file, sent + 1>> \in Chunk
    BY <1>1, SeqNumber DEF TypeInv, Chunk
  <2>2. Send("DATA", sent % SeqMod, 0, <<file, sent + 1>>) BY DEF SendData
  <2>3. QED BY <1>1, <1>2, <2>1, <2>2, Sent
<1>5. Position' BY <1>1, <1>3 DEF IInv, Position
<1>6. LineInv' BY <1>1, <1>3, <1>4 DEF LineInv
<1>7. ReplyInv' BY <1>1, <1>3 DEF IInv, ReplyInv, IsAck, Waiting
<1>8. StreamInv' BY <1>1, <1>3 DEF IInv, StreamInv, Agrees
<1>9. InstallInv' BY <1>3, <1>4 DEF IInv, InstallInv, Complete, Intact
<1>10. QED BY <1>5, <1>6, <1>7, <1>8, <1>9 DEF StepInv

LEMMA SendEndStep == ASSUME IInv, SendEnd PROVE StepInv'
<1> USE DEF uart, device, stream, budget, history
<1>1. pst = "end" /\ pst' = "waitEnd" /\ TypeInv BY DEF IInv, SendEnd
<1>2. toMcu = <<>> /\ Len(toMcu) = 0 BY <1>1 DEF IInv, LineInv
<1>3. UNCHANGED <<file, sent, toPc, mode, got, total, endSeq, landed>>
  BY DEF SendEnd
<1>4. ended' = ended \cup {file} BY DEF SendEnd
<1>5. Len(toMcu') = 1 /\ toMcu'[1].cmd = "END" /\ toMcu'[1].seq = sent % SeqMod
  <2>1. sent % SeqMod \in Seqs /\ NoChunk \in Chunk
    BY <1>1, SeqNumber DEF TypeInv, Chunk, NoChunk
  <2>2. Send("END", sent % SeqMod, 0, NoChunk) BY DEF SendEnd
  <2>3. "END" \in {"u", "START", "DATA", "END"} /\ 0 \in Nat OBVIOUS
  <2>4. Len(toMcu') = Len(toMcu) + 1 /\ toMcu'[Len(toMcu) + 1].cmd = "END"
        /\ toMcu'[Len(toMcu) + 1].seq = sent % SeqMod
    BY <1>1, <2>1, <2>2, <2>3, Sent
  <2>5. QED BY <1>2, <2>4
<1>6. Position' BY <1>1, <1>3 DEF IInv, Position
<1>7. LineInv' BY <1>1, <1>3, <1>4, <1>5 DEF LineInv
<1>8. ReplyInv' BY <1>1, <1>3 DEF IInv, ReplyInv, IsAck, Waiting
<1>9. StreamInv' BY <1>1, <1>3 DEF IInv, StreamInv, Agrees
<1>10. InstallInv'
  <2>1. mode \in {"data", "end"} => Agrees'
    BY <1>1, <1>3 DEF IInv, StreamInv, Agrees, Busy
  <2>2. QED BY <1>3, <1>4, <2>1 DEF IInv, InstallInv, Complete, Intact
<1>11. QED BY <1>6, <1>7, <1>8, <1>9, <1>10 DEF StepInv

LEMMA DamageStep == ASSUME IInv, Damage PROVE StepInv'
<1> USE DEF pc, uart, device, stream
<1>1. TypeInv /\ toMcu # <<>> BY DEF IInv, Damage
<1>2. toMcu \in Seq(Frame) /\ Len(toMcu) \in Nat \ {0} BY <1>1, AfterRead DEF TypeInv
<1>3. /\ Len(toMcu') = Len(toMcu) /\ toMcu' # <<>> /\ toMcu'[1].cmd = "BAD"
      /\ \A i \in 1..Len(toMcu) : i # 1 => toMcu'[i] = toMcu[i]
  BY <1>2 DEF Damage, Frame
<1>4. UNCHANGED <<pst, file, sent, toPc, mode, got, total, endSeq, ended, landed>>
  BY DEF Damage
<1>5. Position' BY <1>4 DEF IInv, Position
<1>6. LineInv'
  <2>1. \A i \in 1..Len(toMcu') : toMcu'[i].cmd = "BAD" \/ toMcu'[i] = toMcu[i]
    BY <1>3
  <2>2. QED BY <1>1, <1>2, <1>3, <1>4, <2>1 DEF IInv, LineInv
<1>7. ReplyInv'
  <2>1. UNCHANGED AwaitedSeq BY <1>4 DEF AwaitedSeq
  <2>2. QED BY <1>1, <1>4, <2>1 DEF IInv, ReplyInv, IsAck, Waiting
<1>8. StreamInv' BY <1>1, <1>4 DEF IInv, StreamInv, Prompted, Agrees
<1>9. InstallInv'
  <2>1. \A i \in 1..Len(toMcu') : toMcu'[i].cmd = "BAD" \/ toMcu'[i] = toMcu[i]
    BY <1>3
  <2>2. QED BY <1>3, <1>4, <2>1 DEF IInv, InstallInv, Agrees, Complete, Intact
<1>10. QED BY <1>5, <1>6, <1>7, <1>8, <1>9 DEF StepInv

(* A status or a text has been read.                                       *)
LEMMA AfterStatus ==
  ASSUME TypeInv, toPc # <<>>, toPc' = Tail(toPc)
  PROVE  /\ Head(toPc) = toPc[1] /\ Len(toPc) \in Nat \ {0} /\ Len(toPc') = Len(toPc) - 1
         /\ \A i \in 1..Len(toPc') : i + 1 \in 1..Len(toPc) /\ toPc'[i] = toPc[i + 1]
<1>1. toPc \in Seq(Reception) BY DEF TypeInv
<1>2. Len(toPc) \in Nat \ {0} BY <1>1, EmptySeq
<1>3. /\ Len(toPc') = Len(toPc) - 1
      /\ \A i \in 1..Len(toPc') : toPc'[i] = toPc[i + 1]
  BY <1>1, HeadTailProperties
<1>4. Head(toPc) = toPc[1] BY <1>1, <1>2
<1>5. QED BY <1>2, <1>3, <1>4

LEMMA ReadStatusStep == ASSUME IInv, ReadStatus PROVE StepInv'
<1> USE DEF uart, device, stream, budget, history
<1>1. TypeInv /\ pst \in Waiting BY DEF IInv, ReadStatus
<1>2. UNCHANGED <<file, toMcu, mode, got, total, endSeq, ended, landed>>
  BY DEF ReadStatus
<1>3. /\ Head(toPc) = toPc[1] /\ 1 \in 1..Len(toPc) /\ Len(toPc) \in Nat
      /\ \A i \in 1..Len(toPc') : i + 1 \in 1..Len(toPc) /\ toPc'[i] = toPc[i + 1]
  BY <1>1, AfterStatus DEF ReadStatus
<1>4. CASE UNCHANGED <<pst, sent>>
  <2>1. Position' BY <1>2, <1>4 DEF IInv, Position
  <2>2. LineInv' BY <1>2, <1>4 DEF IInv, LineInv
  <2>3. ReplyInv'
    <3>1. UNCHANGED AwaitedSeq BY <1>4 DEF AwaitedSeq
    <3>2. \A i \in 1..Len(toPc') : IsAck(i)' =>
            /\ IsAck(i + 1) /\ toPc'[i] = toPc[i + 1]
      BY <1>3 DEF IsAck
    <3>3. ASSUME NEW i \in 1..Len(toPc'), IsAck(i)'
          PROVE  \A j \in 1..Len(toPc') : IsAck(j)' => i = j
      <4>1. \A j \in 1..Len(toPc') : IsAck(j)' => i + 1 = j + 1
        BY <1>1, <1>3, <3>2, <3>3 DEF IInv, ReplyInv
      <4>2. QED BY <4>1
    <3>4. QED BY <1>1, <1>2, <1>3, <1>4, <3>1, <3>2, <3>3 DEF IInv, ReplyInv, Waiting
  <2>4. StreamInv' BY <1>1, <1>2, <1>4 DEF IInv, StreamInv, Agrees, Waiting
  <2>5. InstallInv' BY <1>2 DEF IInv, InstallInv, Agrees, Complete, Intact
  <2>6. QED BY <2>1, <2>2, <2>3, <2>4, <2>5 DEF StepInv
<1>5. CASE Stop("failed") /\ UNCHANGED sent
  BY <1>2, <1>5, SenderStops DEF Stop, Off
<1>6. CASE IsAck(1) /\ toPc[1].seq = AwaitedSeq /\ Acknowledged
  <2>1. toMcu = <<>> /\ mode # "install" /\ \A j \in 1..Len(toPc) : IsAck(j) => j = 1
    BY <1>1, <1>3, <1>6 DEF IInv, ReplyInv
  <2>2. \A i \in 1..Len(toPc') : ~IsAck(i)'
    BY <1>3, <2>1 DEF IsAck
  <2>3. CASE pst = "waitEnd"
    BY <1>2, <1>6, <2>3, SenderStops DEF Acknowledged, Stop, Off
  <2>4. CASE pst \in {"waitStart", "waitData"}
    <3>1. /\ pst' \in {"data", "end"} /\ sent \in Nat /\ file \in Files
          /\ sent' = IF pst = "waitData" THEN sent + 1 ELSE sent
          /\ pst' = IF sent' < FrameCount[file] THEN "data" ELSE "end"
      <4>1. file \in Files /\ FrameCount[file] \in Nat \ {0} /\ sent \in Nat
        BY <1>1, FileAssumption DEF TypeInv, Active
      <4>2. pst = "waitStart" => sent = 0 BY DEF IInv, Position
      <4>3. QED BY <1>6, <2>4, <4>1, <4>2 DEF Acknowledged
    <3>2. FrameCount[file] \in Nat /\ sent' <= FrameCount[file]
      BY <2>4, <3>1, FileAssumption DEF IInv, Position
    <3>3. Position' BY <1>2, <3>1, <3>2 DEF Position
    <3>4. LineInv' BY <1>2, <2>1, <3>1 DEF LineInv
    <3>5. ReplyInv' BY <2>2, <3>1 DEF ReplyInv, Waiting
    <3>6. StreamInv'
      <4>1. ASSUME mode \in Busy PROVE Agrees /\ Len(got) = sent'
        <5>1. mode \in {"data", "end"} BY <2>1, <4>1 DEF Busy
        <5>2. CASE pst = "waitStart"
          BY <1>1, <3>1, <5>1, <5>2 DEF IInv, StreamInv, Position, Agrees
        <5>3. CASE pst = "waitData"
          BY <1>1, <1>3, <1>6, <3>1, <4>1, <5>1, <5>3 DEF IInv, StreamInv, ReplyInv
        <5>4. QED BY <2>4, <5>2, <5>3
      <4>2. QED BY <1>2, <2>1, <3>1, <4>1 DEF StreamInv, Agrees
    <3>7. InstallInv' BY <1>2 DEF IInv, InstallInv, Agrees, Complete, Intact
    <3>8. QED BY <3>3, <3>4, <3>5, <3>6, <3>7 DEF StepInv
  <2>5. QED BY <1>1, <2>3, <2>4 DEF Waiting
<1>7. QED BY <1>3, <1>4, <1>5, <1>6 DEF ReadStatus, IsAck

(* An ACK is sent: it arrives, arrives damaged, or is lost.                *)
LEMMA AckStep ==
  ASSUME IInv, NEW seq \in Seqs, Reply("ACK", seq), UNCHANGED pst,
         pst \notin {"start", "data", "end"}, pst = "prompt" => ~Prompted,
         pst \in Waiting =>
           /\ \A i \in 1..Len(toPc) : ~IsAck(i)
           /\ seq = AwaitedSeq' /\ toMcu' = <<>> /\ mode' # "install"
           /\ pst = "waitData" /\ mode' \in {"data", "end"} => Len(got') = sent' + 1
           /\ pst = "waitEnd" => landed' = file' /\ mode' \notin Busy
  PROVE  ReplyInv'
<1>1. TypeInv /\ Len(toPc) \in Nat BY LenProperties DEF IInv, TypeInv
<1>2. CASE Chatter
  <2>1. /\ \A i : IsAck(i)' <=> IsAck(i)
        /\ Len(toPc') \in Nat /\ Len(toPc) <= Len(toPc')
        /\ \A i \in 1..Len(toPc) : toPc'[i] = toPc[i]
    BY <1>1, <1>2, SameAcks
  <2>2. CASE pst \in Waiting
    BY <2>1, <2>2 DEF ReplyInv, IsAck, Waiting
  <2>3. CASE pst = "prompt"
    BY <1>1, <2>1, <2>3 DEF IInv, ReplyInv, IsAck, Waiting
  <2>4. QED BY <2>2, <2>3 DEF ReplyInv
<1>3. CASE /\ Len(toPc') = Len(toPc) + 1
           /\ \A i \in 1..Len(toPc) : toPc'[i] = toPc[i]
           /\ toPc'[Len(toPc) + 1] = [cmd |-> "ACK", seq |-> seq]
  <2>1. toPc'[Len(toPc) + 1].seq = seq BY <1>3
  <2>2. CASE pst \in Waiting
    <3>1. \A i \in 1..Len(toPc') : IsAck(i)' => i = Len(toPc) + 1
      BY <1>1, <1>3, <2>2 DEF IsAck
    <3>2. QED BY <1>1, <2>1, <2>2, <3>1 DEF ReplyInv, Waiting
  <2>3. CASE pst = "prompt"
    <3>1. \A i \in 1..Len(toPc) : toPc'[i].cmd # "PROMPT"
      BY <1>3, <2>3 DEF Prompted
    <3>2. \A i, j \in 1..Len(toPc') : i < j => i \in 1..Len(toPc)
      BY <1>1, <1>3
    <3>3. QED BY <2>3, <3>1, <3>2 DEF ReplyInv, Waiting
  <2>4. QED BY <2>2, <2>3 DEF ReplyInv
<1>4. Post("ACK", seq) \/ Chatter
  BY <1>1, PostIsChatter DEF Reply, Chatter
<1>5. QED BY <1>1, <1>2, <1>3, <1>4, Posted DEF Chatter

(* What is on the line behind the frame that is read.                      *)
LEMMA FirstFrame ==
  ASSUME IInv, toMcu # <<>>, toMcu' = Tail(toMcu)
  PROVE  /\ Head(toMcu) = toMcu[1] /\ 1 \in 1..Len(toMcu) /\ Head(toMcu) \in Frame
         /\ Len(toMcu) = 1 => toMcu' = <<>> /\ Len(toMcu') = 0
         /\ pst \notin {"prompt", "data", "end"}
         /\ pst \in Waiting => \A i \in 1..Len(toPc) : ~IsAck(i)
<1>1. TypeInv /\ Len(toMcu) \in Nat \ {0} BY AfterRead DEF IInv
<1>2. /\ Head(toMcu) = toMcu[1] /\ Head(toMcu) \in Frame
      /\ Len(toMcu) = 1 => toMcu' = <<>> /\ Len(toMcu') = 0
  BY <1>1, AfterRead
<1>3. pst \notin {"prompt", "data", "end"} BY DEF IInv, LineInv
<1>4. pst \in Waiting => \A i \in 1..Len(toPc) : ~IsAck(i) BY DEF IInv, ReplyInv
<1>5. QED BY <1>1, <1>2, <1>3, <1>4

LEMMA TakeStartStep ==
  ASSUME IInv, toMcu # <<>>, toMcu' = Tail(toMcu), mode = "start",
         Head(toMcu).cmd = "START", Head(toMcu).size \in ValidSizes, TakeStart(Head(toMcu)),
         UNCHANGED <<pst, file, sent, ended, landed>>
  PROVE  StepInv'
<1>1. Reply("ACK", Head(toMcu).seq) /\ mode' = "data" /\ got' = <<>> /\ Len(got') = 0
  BY DEF TakeStart
<1>2. /\ Len(toMcu) = 1 /\ toMcu' = <<>> /\ Head(toMcu).seq = 0 /\ 0 \in Seqs
      /\ pst \in Off \cup {"waitStart"}
  <2>1. Head(toMcu) = toMcu[1] /\ 1 \in 1..Len(toMcu) /\ pst \notin {"prompt", "data", "end"}
    BY FirstFrame
  <2>2. Len(toMcu) = 1 /\ toMcu[1].seq = 0 /\ pst \notin {"start", "waitData", "waitEnd"}
    BY <2>1 DEF IInv, LineInv
  <2>3. pst \in Active \cup Off BY DEF IInv, TypeInv
  <2>4. QED BY <2>1, <2>2, <2>3, FirstFrame, SeqNumber DEF Active, Waiting
<1>3. Position' BY DEF IInv, Position
<1>4. LineInv' BY LineKept DEF IInv, Reads
<1>5. ReplyInv'
  <2>1. pst \in Waiting => pst = "waitStart" BY <1>2 DEF Waiting, Off
  <2>2. AwaitedSeq' = IF pst = "waitStart" THEN 0 ELSE sent % SeqMod BY DEF AwaitedSeq
  <2>3. pst \notin {"start", "data", "end", "prompt"} BY <1>2 DEF Off
  <2>4. QED BY <1>1, <1>2, <2>1, <2>2, <2>3, AckStep, FirstFrame DEF pc
<1>6. StreamInv' BY <1>1, <1>2 DEF StreamInv, Off
<1>7. InstallInv' BY <1>1 DEF InstallInv, Agrees
<1>8. QED BY <1>3, <1>4, <1>5, <1>6, <1>7 DEF StepInv

LEMMA TakeDataStep ==
  ASSUME IInv, toMcu # <<>>, toMcu' = Tail(toMcu), mode = "data",
         Head(toMcu).cmd = "DATA", got' = Append(got, Head(toMcu).data),
         mode' \in {"data", "end"}, Reply("ACK", Head(toMcu).seq),
         UNCHANGED <<pst, file, sent, ended, landed>>
  PROVE  StepInv'
<1>1. /\ Len(toMcu) = 1 /\ toMcu' = <<>> /\ Len(toMcu') = 0 /\ pst \in Off \cup {"waitData"}
      /\ Head(toMcu).seq = sent % SeqMod /\ Head(toMcu).data = <<file, sent + 1>>
      /\ Head(toMcu).seq \in Seqs /\ Head(toMcu).data \in Chunk
  <2>1. /\ Head(toMcu) = toMcu[1] /\ 1 \in 1..Len(toMcu) /\ pst \notin {"prompt", "data", "end"}
        /\ Head(toMcu) \in Frame
    BY FirstFrame
  <2>2. /\ Len(toMcu) = 1 /\ pst \notin {"start", "waitStart", "waitEnd"}
        /\ toMcu[1].seq = sent % SeqMod /\ toMcu[1].data = <<file, sent + 1>>
    BY <2>1 DEF IInv, LineInv
  <2>3. pst \in Active \cup Off BY DEF IInv, TypeInv
  <2>4. Head(toMcu).seq \in Seqs /\ Head(toMcu).data \in Chunk BY <2>1 DEF Frame
  <2>5. QED BY <2>1, <2>2, <2>3, <2>4, FirstFrame DEF Active, Waiting
<1>2. ASSUME pst = "waitData" PROVE Agrees' /\ Len(got') = sent + 1
  <2>1. Agrees /\ Len(got) = sent BY <1>2 DEF IInv, StreamInv, Busy
  <2>2. got \in Seq(Chunk) BY DEF IInv, TypeInv
  <2>3. /\ Len(got') = Len(got) + 1 /\ got'[Len(got) + 1] = <<file, sent + 1>>
        /\ \A i \in 1..Len(got) : got'[i] = got[i]
    BY <1>1, <2>2
  <2>4. Len(got) \in Nat BY <2>2, LenProperties
  <2>5. QED BY <2>1, <2>3, <2>4 DEF Agrees
<1>3. Position' BY DEF IInv, Position
<1>4. LineInv' BY LineKept DEF IInv, Reads
<1>5. ReplyInv'
  <2>1. pst = "waitData" => Len(got') = sent' + 1 BY <1>2
  <2>2. pst \in Waiting => pst = "waitData" BY <1>1 DEF Waiting, Off
  <2>3. AwaitedSeq' = IF pst = "waitStart" THEN 0 ELSE sent % SeqMod BY DEF AwaitedSeq
  <2>4. pst \notin {"start", "data", "end", "prompt"} BY <1>1 DEF Off
  <2>5. QED BY <1>1, <2>1, <2>2, <2>3, <2>4, AckStep, FirstFrame
<1>6. StreamInv' BY <1>1, <1>2 DEF StreamInv, Off
<1>7. InstallInv' BY <1>1 DEF InstallInv
<1>8. QED BY <1>3, <1>4, <1>5, <1>6, <1>7 DEF StepInv

(* A receiver that has all frames of a good file has those of the file     *)
(* the sender has sent.                                                    *)
LEMMA SameFile ==
  ASSUME NEW f \in Good, Agrees, Complete(f) PROVE f = file
<1>1. FrameCount[f] \in Nat \ {0} BY FileAssumption
<1>2. 1 \in 1..Len(got) BY <1>1 DEF Complete
<1>3. QED BY <1>2 DEF Complete, Intact, Agrees

LEMMA AcceptEndStep ==
  ASSUME IInv, toMcu # <<>>, toMcu' = Tail(toMcu), mode = "end",
         Head(toMcu).cmd = "END", AcceptEnd(Head(toMcu)),
         UNCHANGED <<pst, file, sent, ended, landed>>
  PROVE  StepInv'
<1>1. mode' = "install" /\ endSeq' = Head(toMcu).seq /\ UNCHANGED <<toPc, total, got>>
  BY DEF AcceptEnd
<1>2. /\ Len(toMcu) = 1 /\ toMcu' = <<>> /\ Len(toMcu') = 0 /\ pst \in Off \cup {"waitEnd"}
      /\ endSeq' = sent % SeqMod /\ file \in ended /\ Agrees
      /\ pst \in Waiting => \A i \in 1..Len(toPc) : ~IsAck(i)
  <2>1. Head(toMcu) = toMcu[1] /\ 1 \in 1..Len(toMcu) /\ pst \notin {"prompt", "data", "end"}
    BY FirstFrame
  <2>2. /\ Len(toMcu) = 1 /\ pst \notin {"start", "waitStart", "waitData"}
        /\ toMcu[1].seq = sent % SeqMod /\ file \in ended
    BY <2>1 DEF IInv, LineInv
  <2>3. Agrees BY <2>1 DEF IInv, InstallInv
  <2>4. pst \in Active \cup Off BY DEF IInv, TypeInv
  <2>5. QED BY <1>1, <2>1, <2>2, <2>3, <2>4, FirstFrame DEF Active, Waiting
<1>3. Position' BY DEF IInv, Position
<1>4. LineInv' BY LineKept DEF IInv, Reads
<1>5. ReplyInv' BY <1>1, <1>2 DEF ReplyInv, IsAck, Waiting, Off
<1>6. StreamInv'
  <2>1. pst = "waitEnd" => Len(got) = sent /\ Len(got) \in {sent, sent + 1}
    BY DEF IInv, StreamInv, Busy
  <2>2. QED BY <1>1, <1>2, <2>1 DEF StreamInv, Agrees, Off
<1>7. InstallInv'
  <2>1. \A f \in Good : Complete(f)' => f \in ended'
    BY <1>1, <1>2, SameFile DEF Complete, Intact
  <2>2. QED BY <1>1, <2>1 DEF InstallInv
<1>8. QED BY <1>3, <1>4, <1>5, <1>6, <1>7 DEF StepInv

LEMMA ReadFrameStep == ASSUME IInv, ReadFrame PROVE StepInv'
<1> USE DEF Unchanged, pc
<1> DEFINE f == Head(toMcu)
<1>1. /\ toMcu # <<>> /\ toMcu' = Tail(toMcu) /\ TakeFrame(f)
      /\ UNCHANGED <<pst, file, sent, ended, landed>>
  BY DEF ReadFrame
<1>2. TypeInv /\ f.seq \in Seqs /\ 0 \in Seqs /\ Expected \in Seqs
  <2>1. f \in Frame BY <1>1, FirstFrame
  <2>2. QED BY <2>1, SeqNumber, LenProperties DEF IInv, TypeInv, Expected, Frame
<1>3. CASE Refusal
  BY <1>1, <1>2, <1>3, RefusalIsChatter, QuietStep DEF Reads, StepInv
<1>4. CASE mode = "start" /\ f.cmd = "START" /\ f.size \in ValidSizes /\ TakeStart(f)
  BY <1>1, <1>4, TakeStartStep
<1>5. CASE mode = "data" /\ Acceptable(f) /\ TakeData(f) /\ ~Refusal
  <2>1. /\ f.cmd = "DATA" /\ got' = Append(got, f.data) /\ mode' \in {"data", "end"}
        /\ Reply("ACK", f.seq)
    BY <1>2, <1>5 DEF Acceptable, TakeData, AckSeq, Refuse, Refusal
  <2>2. QED BY <1>1, <1>5, <2>1, TakeDataStep
<1>6. CASE mode = "end" /\ f.cmd = "END" /\ AcceptEnd(f)
  BY <1>1, <1>6, AcceptEndStep
<1>7. QED
  BY <1>1, <1>2, <1>3, <1>4, <1>5, <1>6 DEF TakeFrame, TakeStart, Refuse, Refusal

(* A commit is of the file being sent, if the sender is past the prompt.   *)
LEMMA Committed ==
  ASSUME IInv, mode = "install", NEW f \in Good, Complete(f)
  PROVE  /\ f \in ended /\ pst \in Off \cup {"prompt", "waitEnd"}
         /\ pst = "prompt" => ~Prompted
         /\ pst = "waitEnd" =>
              /\ f = file /\ toMcu = <<>> /\ endSeq = sent % SeqMod
              /\ \A i \in 1..Len(toPc) : ~IsAck(i)
<1>1. f \in ended BY DEF IInv, InstallInv
<1>2. pst \in Off \cup {"prompt", "waitEnd"} /\ (pst = "prompt" => ~Prompted)
  <2>1. pst \in Active \cup Off BY DEF IInv, TypeInv
  <2>2. QED BY <2>1 DEF IInv, StreamInv, Active, Waiting, Busy
<1>3. ASSUME pst = "waitEnd" PROVE f = file /\ toMcu = <<>> /\ endSeq = sent % SeqMod
  <2>1. Agrees BY <1>3 DEF IInv, StreamInv, Busy
  <2>2. f = file BY <2>1, SameFile
  <2>3. QED BY <1>3, <2>2 DEF IInv, StreamInv
<1>4. pst = "waitEnd" => \A i \in 1..Len(toPc) : ~IsAck(i)
  BY DEF IInv, ReplyInv, Waiting
<1>5. QED BY <1>1, <1>2, <1>3, <1>4

LEMMA InstallStep == ASSUME IInv, Install PROVE StepInv'
<1> USE DEF Unchanged, pc
<1>1. mode = "install" /\ UNCHANGED <<pst, file, sent, ended, toMcu>> BY DEF Install
<1>2. TypeInv /\ endSeq \in Seqs BY DEF IInv, TypeInv
<1>3. CASE Refusal /\ UNCHANGED landed
  BY <1>1, <1>2, <1>3, RefusalIsChatter, QuietStep DEF Reads, StepInv
<1>4. ASSUME NEW f \in Good, Commit(f) PROVE StepInv'
  <2>1. /\ Complete(f) /\ landed' = f /\ Reply("ACK", endSeq) /\ mode' = "boot"
    BY <1>4 DEF Commit, Restart
  <2>2. /\ pst \in Off \cup {"prompt", "waitEnd"} /\ (pst = "prompt" => ~Prompted)
        /\ pst = "waitEnd" =>
             /\ f = file /\ toMcu = <<>> /\ endSeq = sent % SeqMod
             /\ \A i \in 1..Len(toPc) : ~IsAck(i)
    BY <1>1, <2>1, Committed
  <2>3. Position' BY <1>1 DEF IInv, Position
  <2>4. LineInv' BY <1>1, <1>2, LineKept DEF IInv, Reads
  <2>5. ReplyInv'
    <3>1. pst \in Waiting => pst = "waitEnd" BY <2>2 DEF Waiting, Off
    <3>2. AwaitedSeq' = IF pst = "waitStart" THEN 0 ELSE sent % SeqMod BY <1>1 DEF AwaitedSeq
    <3>3. pst \notin {"start", "data", "end"} /\ mode' \notin Busy BY <2>1, <2>2 DEF Off, Busy
    <3>4. mode' # "install" /\ mode' \notin {"data", "end"} BY <2>1
    <3>5. QED BY <1>1, <1>2, <2>1, <2>2, <3>1, <3>2, <3>3, <3>4, AckStep
  <2>6. StreamInv' BY <2>1 DEF StreamInv, Busy
  <2>7. InstallInv' BY <2>1 DEF InstallInv
  <2>8. QED BY <2>3, <2>4, <2>5, <2>6, <2>7 DEF StepInv
<1>5. QED BY <1>1, <1>2, <1>3, <1>4 DEF Install, Refuse, Refusal

-----------------------------------------------------------------------------
(* The invariant and what follows from it.                                 *)

LEMMA InvInit == Init => IInv
<1> SUFFICES ASSUME Init PROVE IInv
  OBVIOUS
<1>1. Len(toMcu) = 0 /\ Len(toPc) = 0 BY DEF Init
<1>2. TypeInv BY TypeInit
<1>3. Position /\ StreamInv BY DEF Init, Position, StreamInv, Busy
<1>4. LineInv /\ ReplyInv /\ InstallInv
  BY <1>1 DEF Init, LineInv, ReplyInv, InstallInv, Waiting
<1>5. QED BY <1>2, <1>3, <1>4 DEF IInv

LEMMA InvStep == IInv /\ [Next]_vars => IInv'
<1> SUFFICES ASSUME IInv, [Next]_vars PROVE IInv'
  OBVIOUS
<1>1. TypeInv' BY TypeStep DEF IInv
<1>2. StepInv'
  <2>1. CASE \/ StartApp \/ OpenWindow \/ ReadWindow \/ WindowExpires
             \/ ReadOverrun \/ McuTimeout \/ Reset
    BY <2>1, QuietActions
  <2>2. CASE Kill \/ PcTimeout
    BY <2>2, SenderStops DEF Kill, PcTimeout, Stop, Off, device, stream, history
  <2>3. CASE NewSession BY <2>3, NewSessionStep
  <2>4. CASE Missed BY <2>4, MissedStep
  <2>5. CASE Damage BY <2>5, DamageStep
  <2>6. CASE ReadPrompt BY <2>6, ReadPromptStep
  <2>7. CASE SendStart BY <2>7, SendStartStep
  <2>8. CASE SendData BY <2>8, SendDataStep
  <2>9. CASE SendEnd BY <2>9, SendEndStep
  <2>10. CASE ReadStatus BY <2>10, ReadStatusStep
  <2>11. CASE ReadFrame BY <2>11, ReadFrameStep
  <2>12. CASE Install BY <2>12, InstallStep
  <2>13. CASE UNCHANGED vars
    <3>1. /\ UNCHANGED <<pst, file, sent, toMcu, toPc, mode, got, total, endSeq, ended, landed>>
      BY <2>13 DEF vars, pc, device, stream, history
    <3>2. QED
      BY <3>1 DEF IInv, StepInv, Position, LineInv, ReplyInv, StreamInv, InstallInv,
                  IsAck, AwaitedSeq, Prompted, Agrees, Complete, Intact
  <2>14. QED
    BY <2>1, <2>2, <2>3, <2>4, <2>5, <2>6, <2>7, <2>8, <2>9, <2>10, <2>11, <2>12, <2>13
       DEF Next, Sender, Mcu
<1>3. QED BY <1>1, <1>2 DEF IInv, StepInv

THEOREM UartInvariance == Spec => []IInv
  BY InvInit, InvStep, PTL DEF Spec

(* wait_ack compares the number of an ACK strictly and ends the tool when  *)
(* it is another: no older status can ever reach it, whatever the width of *)
(* the numbers, the length of the file and the sessions before.            *)
THEOREM AcksInStep == Spec => []InStep
<1>1. IInv => InStep BY DEF IInv, ReplyInv, InStep, IsAck
<1>2. QED BY <1>1, UartInvariance, PTL

(* The receiver holds what the sender has had acknowledged, or one frame   *)
(* more: the stream handed to the decryption is the file, in order and     *)
(* without a gap, although END is taken whatever its number.               *)
THEOREM StreamFollowsFile == Spec => []StreamsAgree
<1>1. IInv => StreamsAgree
  <2> SUFFICES ASSUME IInv, pst \in Active, sent > 0, mode \in {"data", "end", "install"}
               PROVE  Agrees /\ Len(got) \in {sent, sent + 1}
    BY DEF StreamsAgree, Agrees
  <2>1. pst \notin {"prompt", "start", "waitStart"} BY DEF IInv, Position
  <2>2. QED BY <2>1 DEF IInv, StreamInv, Active, Waiting, Busy
<1>2. QED BY <1>1, UartInvariance, PTL

(* The transfer over UART keeps the promise of UpdateTransfer: success is  *)
(* reported only for a file installed during that run of the tool, and     *)
(* only a file sent to its end is installed, whatever is damaged, lost or  *)
(* reset on the way.                                                       *)
THEOREM UartImplementsTransfer == Spec => ImplementsTransfer
<1> USE DEF pc, device, stream, budget, history
<1>1. Init => UT!Init
  BY DEF Init, UT!Init, Active, Waiting
<1>2. IInv /\ [Next]_vars => [UT!Next]_UT!vars
  <2> SUFFICES ASSUME IInv, [Next]_vars PROVE [UT!Next]_UT!vars
    OBVIOUS
  <2>1. ASSUME pst' = pst \/ {pst, pst'} \subseteq Active,
               UNCHANGED <<file, ended, installed, landed>>
        PROVE  UNCHANGED UT!vars
    BY <2>1 DEF UT!vars
  <2>2. CASE NewSession
    <3>1. pst # "active" BY DEF IInv, TypeInv, Active, Waiting, Off
    <3>2. UT!Start BY <2>2, <3>1 DEF NewSession, UT!Start, Active
    <3>3. QED BY <3>2 DEF UT!Next
  <2>3. CASE Kill \/ PcTimeout
    <3>1. pst \in Active BY <2>3 DEF Kill, PcTimeout, GivesUp, Active
    <3>2. UT!Fail BY <2>3, <3>1 DEF Kill, PcTimeout, Stop, UT!Fail, Active, Waiting
    <3>3. QED BY <3>2 DEF UT!Next
  <2>4. CASE ReadPrompt \/ SendStart \/ SendData
    BY <2>1, <2>4 DEF ReadPrompt, SendStart, SendData, Active, Waiting
  <2>5. CASE SendEnd
    <3>1. UT!SendEnd BY <2>5 DEF SendEnd, UT!SendEnd, Active, Waiting
    <3>2. QED BY <3>1 DEF UT!Next
  <2>6. CASE ReadStatus
    <3>1. pst \in Active /\ UNCHANGED <<file, ended, installed, landed>>
      BY <2>6 DEF ReadStatus, Active
    <3>2. CASE pst' \in Active
      BY <2>1, <3>1, <3>2
    <3>3. CASE pst' = "failed"
      <4>1. UT!Fail BY <3>1, <3>3 DEF UT!Fail, Active, Waiting
      <4>2. QED BY <4>1 DEF UT!Next
    <3>4. CASE pst = "waitEnd" /\ pst' = "ok" /\ IsAck(1)
      <4>1. landed = file
        BY <3>4 DEF IInv, ReplyInv, IsAck, Waiting
      <4>2. UT!Succeed BY <3>1, <3>4, <4>1 DEF UT!Succeed, Active, Waiting
      <4>3. QED BY <4>2 DEF UT!Next
    <3>5. Head(toPc) = toPc[1] /\ 1 \in 1..Len(toPc)
      BY <2>6, AfterStatus DEF IInv, ReadStatus
    <3>6. QED
      BY <2>6, <3>1, <3>2, <3>3, <3>4, <3>5
         DEF ReadStatus, Acknowledged, Stop, IsAck, Active, Waiting
  <2>7. CASE \/ StartApp \/ OpenWindow \/ ReadWindow \/ WindowExpires \/ ReadFrame
             \/ ReadOverrun \/ McuTimeout \/ Missed \/ Damage \/ Reset
    BY <2>1, <2>7 DEF StartApp, OpenWindow, ReadWindow, WindowExpires, ReadFrame,
       ReadOverrun, McuTimeout, Missed, Damage, Reset, Unchanged
  <2>8. CASE Install
    <3>1. ASSUME NEW f \in Good, Commit(f) PROVE UT!Next
      <4>1. mode = "install" /\ Complete(f) BY <2>8, <3>1 DEF Install, Commit
      <4>2. f \in ended BY <4>1, Committed
      <4>3. UT!Install(f)
        BY <2>8, <3>1, <4>2 DEF Install, Commit, Unchanged, UT!Install
      <4>4. QED BY <4>3 DEF UT!Next
    <3>2. CASE UNCHANGED <<installed, landed>>
      BY <2>1, <2>8, <3>2 DEF Install, Unchanged
    <3>3. QED BY <2>8, <3>1, <3>2 DEF Install
  <2>9. CASE UNCHANGED vars
    BY <2>1, <2>9 DEF vars
  <2>10. QED
    BY <2>2, <2>3, <2>4, <2>5, <2>6, <2>7, <2>8, <2>9 DEF Next, Sender, Mcu
<1>3. QED
  BY <1>1, <1>2, UartInvariance, PTL DEF Spec, ImplementsTransfer, UT!Spec

-----------------------------------------------------------------------------
(* A session that nothing disturbs.                                        *)

(* A file that the device has no reason to refuse, in a session that met   *)
(* no fault, no reset and no late end.                                     *)
Accepted == file \in Good /\ FrameCount[file] \in ValidSizes
Calm == pst \in Active /\ Accepted /\ ~disturbed

Alone(cmd) == Len(toMcu) = 1 /\ toMcu[1].cmd = cmd

(* Line and receiver are where the sender takes them to be.                *)
Place ==
    /\ pst = "prompt" /\ Prompted => mode = "window"
    /\ pst = "start" =>
         \/ mode = "window" /\ Alone("u")
         \/ mode = "start" /\ toMcu = <<>>
    /\ pst = "waitStart" =>
         \/ mode = "window" /\ Len(toMcu) = 2 /\ toMcu[1].cmd = "u"
         \/ mode = "start" /\ Alone("START")
         \/ mode = "data" /\ toMcu = <<>>
    /\ pst \in {"data", "end"} => mode = pst /\ toMcu = <<>>
    /\ pst = "waitData" =>
         \/ mode = "data" /\ Alone("DATA")
         \/ mode = (IF sent + 1 < FrameCount[file] THEN "data" ELSE "end") /\ toMcu = <<>>
    /\ pst = "waitEnd" =>
         \/ mode = "end" /\ Alone("END")
         \/ mode \notin {"start", "data", "end"} /\ toMcu = <<>>

(* The receiver expects as many frames as the sender has.                  *)
Sizes ==
    /\ pst # "prompt" /\ mode \in {"data", "end"} => total = FrameCount[file]
    /\ \A i \in 1..Len(toMcu) : toMcu[i].cmd = "START" => toMcu[i].size = FrameCount[file]

(* Nothing but text follows a prompt, and nothing but text and the ACK     *)
(* comes after it.                                                         *)
Text(i) == toPc[i].cmd \in {"PROMPT", "TEXT"}
NoErrors ==
    /\ pst = "prompt" => \A i, j \in 1..Len(toPc) : toPc[i].cmd = "PROMPT" /\ i < j => Text(j)
    /\ pst # "prompt" => \A i \in 1..Len(toPc) : Text(i) \/ toPc[i].cmd = "ACK"

CalmInv == Calm => rdr = "none" /\ ~overrun /\ Place /\ Sizes /\ NoErrors

(* Only a disturbed session fails.                                         *)
FailInv == pst = "failed" /\ Accepted => disturbed

CInv == IInv /\ CalmInv /\ FailInv

(* What the line holds, from the first frame.                              *)
LEMMA LineFacts ==
  ASSUME IInv
  PROVE  /\ Len(toMcu) \in Nat /\ (toMcu = <<>> <=> Len(toMcu) = 0)
         /\ \A cmd : Alone(cmd) => 1 \in 1..Len(toMcu) /\ toMcu # <<>>
         /\ pst = "prompt" => toMcu = <<>>
         /\ toMcu # <<>> /\ toMcu' = Tail(toMcu) =>
              /\ Head(toMcu) = toMcu[1] /\ 1 \in 1..Len(toMcu)
              /\ Len(toMcu) = 1 => toMcu' = <<>>
              /\ Len(toMcu) = 2 => Len(toMcu') = 1 /\ toMcu'[1] = toMcu[2] /\ toMcu[2].cmd = "START"
<1>1. TypeInv /\ Len(toMcu) \in Nat /\ (toMcu = <<>> <=> Len(toMcu) = 0)
  BY LenProperties, EmptySeq DEF IInv, TypeInv
<1>2. pst = "prompt" => toMcu = <<>>
  BY DEF IInv, LineInv
<1>3. ASSUME toMcu # <<>>, toMcu' = Tail(toMcu)
      PROVE  /\ Head(toMcu) = toMcu[1] /\ 1 \in 1..Len(toMcu)
             /\ Len(toMcu) = 1 => toMcu' = <<>>
             /\ Len(toMcu) = 2 => Len(toMcu') = 1 /\ toMcu'[1] = toMcu[2] /\ toMcu[2].cmd = "START"
  <2>1. /\ Head(toMcu) = toMcu[1] /\ Len(Tail(toMcu)) = Len(toMcu) - 1
        /\ Len(toMcu) = 1 => Tail(toMcu) = <<>>
        /\ \A i \in 1..Len(Tail(toMcu)) : Tail(toMcu)[i] = toMcu[i + 1]
    BY <1>1, <1>3, AfterRead
  <2>2. Len(toMcu) = 2 => toMcu[2].cmd = "START" BY DEF IInv, LineInv
  <2>3. QED BY <1>1, <1>3, <2>1, <2>2
<1>4. \A cmd : Alone(cmd) => 1 \in 1..Len(toMcu) /\ toMcu # <<>>
  BY <1>1 DEF Alone
<1>5. QED BY <1>1, <1>2, <1>3, <1>4

(* What may be posted without disturbing the sender.                       *)
LEMMA HarmlessPost ==
  ASSUME TypeInv, NoErrors, NEW cmd \in {"PROMPT", "TEXT", "ACK", "ERROR"}, NEW seq \in Seqs,
         Post(cmd, seq), UNCHANGED pst,
         \/ cmd \in {"PROMPT", "TEXT"}
         \/ pst # "prompt" /\ cmd = "ACK"
         \/ pst = "prompt" /\ ~Prompted
  PROVE  NoErrors' /\ (cmd # "PROMPT" /\ Prompted' => Prompted)
<1>1. Len(toPc) \in Nat BY LenProperties DEF TypeInv
<1>2. CASE toPc' = toPc
  BY <1>2 DEF NoErrors, Text, Prompted
<1>3. CASE /\ Len(toPc') = Len(toPc) + 1
           /\ \A i \in 1..Len(toPc) : toPc'[i] = toPc[i]
           /\ toPc'[Len(toPc) + 1] = [cmd |-> cmd, seq |-> seq]
  <2>1. \A i \in 1..Len(toPc') : i \in 1..Len(toPc) \/ i = Len(toPc) + 1
    BY <1>1, <1>3
  <2>2. toPc'[Len(toPc) + 1].cmd = cmd BY <1>3
  <2>3. cmd # "PROMPT" /\ Prompted' => Prompted
    <3>1. SUFFICES ASSUME cmd # "PROMPT", NEW i \in 1..Len(toPc'), toPc'[i].cmd = "PROMPT"
                   PROVE  Prompted
      BY DEF Prompted
    <3>2. i \in 1..Len(toPc) /\ toPc[i].cmd = "PROMPT"
      BY <1>3, <2>1, <2>2, <3>1
    <3>3. QED BY <3>2 DEF Prompted
  <2>4. CASE pst # "prompt"
    BY <1>3, <2>1, <2>2, <2>3, <2>4 DEF NoErrors, Text
  <2>5. CASE pst = "prompt"
    <3>1. \A i, j \in 1..Len(toPc') : i < j => i \in 1..Len(toPc)
      BY <1>1, <1>3
    <3>2. ASSUME NEW i \in 1..Len(toPc'), NEW j \in 1..Len(toPc'), toPc'[i].cmd = "PROMPT", i < j
          PROVE  Text(j)'
      <4>1. i \in 1..Len(toPc) /\ toPc[i].cmd = "PROMPT"
        BY <1>3, <3>1, <3>2
      <4>2. Prompted BY <4>1 DEF Prompted
      <4>3. CASE j \in 1..Len(toPc)
        BY <1>3, <2>5, <3>2, <4>1, <4>3 DEF NoErrors, Text
      <4>4. CASE j = Len(toPc) + 1
        <5>1. cmd \in {"PROMPT", "TEXT"} BY <2>5, <4>2
        <5>2. QED BY <2>2, <4>4, <5>1 DEF Text
      <4>5. QED BY <2>1, <4>3, <4>4
    <3>3. QED BY <2>3, <2>5, <3>2 DEF NoErrors
  <2>6. QED BY <2>3, <2>4, <2>5
<1>4. QED BY <1>2, <1>3, Posted

(* A step that leaves a calm session undisturbed was taken in one.         *)
CalmNext == Calm' => rdr' = "none" /\ ~overrun' /\ Place' /\ Sizes' /\ NoErrors'

LEMMA NewSessionCalm == ASSUME CInv, NewSession PROVE CalmNext
<1>1. /\ pst' = "prompt" /\ toPc' = <<>> /\ toMcu' = <<>> /\ Len(toPc') = 0 /\ Len(toMcu') = 0
      /\ disturbed' = (rdr # "none" \/ overrun) /\ UNCHANGED <<rdr, overrun>>
  BY DEF NewSession, uart
<1>2. Calm' => rdr' = "none" /\ ~overrun'
  BY <1>1 DEF Calm
<1>3. Place' /\ Sizes' /\ NoErrors'
  BY <1>1 DEF Place, Sizes, NoErrors, Prompted
<1>4. QED BY <1>2, <1>3 DEF CalmNext

(* The session before such a step.                                         *)
Before == Calm /\ rdr = "none" /\ ~overrun /\ Place /\ Sizes /\ NoErrors /\ ~disturbed'

(* No step but the start of the tool makes a session calm.                 *)
Goes == UNCHANGED file /\ (pst' \in Active => pst \in Active) /\ (disturbed => disturbed')

LEMMA CalmBefore == ASSUME CInv, Calm', Goes PROVE Before
  BY DEF CInv, CalmInv, Calm, Accepted, Before, Goes

LEMMA StepGoes == ASSUME Next, ~NewSession PROVE Goes
<1>1. CASE \/ StartApp \/ OpenWindow \/ ReadWindow \/ WindowExpires
           \/ Missed \/ Reset \/ Kill \/ Damage
  <2>1. CASE StartApp \/ OpenWindow \/ ReadWindow \/ Missed
    BY <2>1 DEF StartApp, OpenWindow, ReadWindow, Missed, Goes, pc, history
  <2>2. CASE WindowExpires \/ Reset
    BY <2>2 DEF WindowExpires, Reset, Goes, pc
  <2>3. CASE Kill BY <2>3 DEF Kill, Goes, history
  <2>4. CASE Damage BY <2>4 DEF Damage, Goes, pc
  <2>5. QED BY <1>1, <2>1, <2>2, <2>3, <2>4
<1>2. CASE Sender
  <2>1. UNCHANGED <<file, disturbed>> \/ PcTimeout
    BY <1>2 DEF Sender, ReadPrompt, SendStart, SendData, SendEnd, ReadStatus, history
  <2>2. PcTimeout => UNCHANGED file /\ disturbed'
    BY DEF PcTimeout
  <2>3. pst \in Active
    BY <1>2 DEF Sender, ReadPrompt, SendStart, SendData, SendEnd, ReadStatus, PcTimeout, GivesUp,
                Active
  <2>4. QED BY <2>1, <2>2, <2>3 DEF Goes
<1>3. \A cmd, seq : Reply(cmd, seq) => (disturbed => disturbed')
  BY DEF Reply, Fault, NoFault
<1>4. \A wrong, seq : Refuse(wrong, seq) => (disturbed => disturbed')
  BY <1>3 DEF Refuse, Fault
<1>5. CASE ReadFrame
  <2>1. TakeFrame(Head(toMcu)) /\ UNCHANGED <<pst, file>>
    BY <1>5 DEF ReadFrame, Unchanged, pc
  <2>2. disturbed => disturbed'
    BY <1>3, <1>4, <2>1 DEF TakeFrame, TakeStart, TakeData, AcceptEnd, NoFault
  <2>3. QED BY <2>1, <2>2 DEF Goes
<1>6. CASE ReadOverrun
  BY <1>4, <1>6 DEF ReadOverrun, Unchanged, pc, Goes
<1>7. CASE McuTimeout
  BY <1>7 DEF McuTimeout, Unchanged, pc, Goes
<1>8. CASE Install
  BY <1>3, <1>4, <1>8 DEF Install, Commit, Unchanged, pc, Goes
<1>9. QED BY <1>1, <1>2, <1>5, <1>6, <1>7, <1>8 DEF Next, Mcu

(* Before it has seen the prompt the sender is out of what the device      *)
(* does, as long as that ends with no prompt or with an open window.       *)
LEMMA BeforePrompt ==
  ASSUME IInv, Before, pst = "prompt", UNCHANGED <<pst, file, toMcu>>,
         rdr' = "none", ~overrun', NoErrors', Prompted' => mode' = "window"
  PROVE  CalmNext
  BY DEF CalmNext, Before, Place, Sizes

(* Of the device the sender has not seen a prompt while it does anything   *)
(* but wait in its window.                                                 *)
LEMMA NotPrompted ==
  ASSUME Before, pst = "prompt", mode # "window" \/ WindowExpires PROVE ~Prompted
<1>1. CASE mode # "window" BY <1>1 DEF Before, Place
<1>2. CASE WindowExpires
  BY <1>2 DEF Before, WindowExpires, Handshaking, Active
<1>3. QED BY <1>1, <1>2

-----------------------------------------------------------------------------
(* The sender, step by step.                                               *)

LEMMA ReadPromptCalm == ASSUME CInv, ReadPrompt, Before PROVE CalmNext
<1>1. /\ IInv /\ TypeInv /\ Calm /\ Place /\ Sizes /\ NoErrors /\ rdr = "none" /\ ~overrun
      /\ pst = "prompt" /\ toMcu = <<>> /\ Len(toMcu) = 0 /\ Len(toPc) \in Nat
      /\ UNCHANGED <<file, mode, rdr, overrun, total>>
  BY LineFacts, LenProperties DEF CInv, IInv, TypeInv, Before, ReadPrompt, device, stream, uart
<1>2. PICK n \in 1..Len(toPc) :
        /\ toPc' = SubSeq(toPc, n + 1, Len(toPc))
        /\ IF \E i \in 1..n : toPc[i].cmd = "PROMPT"
             THEN Send("u", 0, 0, NoChunk) /\ pst' = "start"
             ELSE UNCHANGED <<toMcu, pst>>
  BY DEF ReadPrompt
<1>3. /\ Len(toPc') = Len(toPc) - n
      /\ \A i \in 1..Len(toPc') : i + n \in 1..Len(toPc) /\ n < i + n /\ toPc'[i] = toPc[i + n]
  BY <1>1, <1>2 DEF TypeInv
<1>4. CASE \E k \in 1..n : toPc[k].cmd = "PROMPT"
  <2>1. PICK k \in 1..n : toPc[k].cmd = "PROMPT" BY <1>4
  <2>2. k \in 1..Len(toPc) BY <1>1, <2>1
  <2>3. mode = "window" BY <1>1, <2>1, <2>2 DEF Place, Prompted
  <2>4. Len(toMcu') = 1 /\ toMcu'[1].cmd = "u" /\ pst' = "start"
    BY <1>1, <1>2, <1>4, Sent, SeqNumber DEF NoChunk, Chunk
  <2>5. \A i \in 1..Len(toPc') : Text(i)'
    <3>1. TAKE i \in 1..Len(toPc')
    <3>2. i + n \in 1..Len(toPc) /\ k < i + n /\ toPc'[i] = toPc[i + n]
      BY <1>1, <1>3, <2>1
    <3>3. QED BY <1>1, <2>1, <2>2, <3>2 DEF NoErrors, Text
  <2>6. NoErrors' BY <2>4, <2>5 DEF NoErrors
  <2>7. Place' BY <1>1, <2>3, <2>4 DEF Place, Alone
  <2>8. Sizes' BY <1>1, <2>3, <2>4 DEF Sizes
  <2>9. QED BY <1>1, <2>6, <2>7, <2>8 DEF CalmNext
<1>5. CASE ~\E k \in 1..n : toPc[k].cmd = "PROMPT"
  <2>1. UNCHANGED <<toMcu, pst>> BY <1>2, <1>5
  <2>2. Prompted' => mode' = "window"
    <3>1. Prompted' => Prompted BY <1>3 DEF Prompted
    <3>2. QED BY <1>1, <3>1 DEF Place
  <2>3. NoErrors'
    <3>1. SUFFICES ASSUME NEW i \in 1..Len(toPc'), NEW j \in 1..Len(toPc'),
                          toPc'[i].cmd = "PROMPT", i < j
                   PROVE  Text(j)'
      BY <1>1, <2>1 DEF NoErrors
    <3>2. /\ i + n \in 1..Len(toPc) /\ j + n \in 1..Len(toPc) /\ i + n < j + n
          /\ toPc'[i] = toPc[i + n] /\ toPc'[j] = toPc[j + n]
      BY <1>1, <1>3, <3>1
    <3>3. QED BY <1>1, <3>1, <3>2 DEF NoErrors, Text
  <2>4. QED BY <1>1, <2>1, <2>2, <2>3, BeforePrompt
<1>6. QED BY <1>4, <1>5

LEMMA SendCalm == ASSUME CInv, SendStart \/ SendData \/ SendEnd, Before PROVE CalmNext
<1>1. /\ IInv /\ TypeInv /\ Calm /\ Place /\ Sizes /\ NoErrors /\ rdr = "none" /\ ~overrun
      /\ Len(toMcu) \in Nat /\ (toMcu = <<>> => Len(toMcu) = 0)
      /\ file \in Files /\ sent \in Nat
      /\ UNCHANGED <<file, sent, toPc, mode, rdr, overrun, total>>
  BY LineFacts DEF CInv, IInv, TypeInv, Before, Calm, SendStart, SendData, SendEnd,
                   device, stream, uart, pc
<1>2. pst # "prompt" /\ pst' # "prompt"
  BY DEF SendStart, SendData, SendEnd
<1>3. NoErrors' BY <1>1, <1>2 DEF NoErrors, Text
<1>4. CASE SendStart
  <2>1. Send("START", 0, FrameCount[file], NoChunk) /\ pst = "start" /\ pst' = "waitStart"
    BY <1>4 DEF SendStart
  <2>2. FrameCount[file] \in Nat /\ NoChunk \in Chunk
    BY <1>1, FileAssumption DEF NoChunk, Chunk
  <2>3. /\ Len(toMcu') = Len(toMcu) + 1 /\ \A i \in 1..Len(toMcu) : toMcu'[i] = toMcu[i]
        /\ toMcu'[Len(toMcu) + 1].cmd = "START"
        /\ toMcu'[Len(toMcu) + 1].size = FrameCount[file]
    BY <1>1, <2>1, <2>2, Sent, SeqNumber
  <2>4. Place' BY <1>1, <2>1, <2>3 DEF Place, Alone
  <2>5. Sizes'
    <3>1. mode' \notin {"data", "end"} BY <1>1, <2>1 DEF Place
    <3>2. \A i \in 1..Len(toMcu') : i \in 1..Len(toMcu) \/ i = Len(toMcu) + 1
      BY <1>1, <2>3
    <3>3. QED BY <1>1, <2>3, <3>1, <3>2 DEF Sizes
  <2>6. QED BY <1>1, <1>3, <2>4, <2>5 DEF CalmNext
<1>5. CASE SendData \/ SendEnd
  <2>1. PICK cmd \in {"DATA", "END"}, data \in Chunk :
          /\ Send(cmd, sent % SeqMod, 0, data) /\ mode = pst
          /\ \/ pst = "data" /\ pst' = "waitData" /\ cmd = "DATA"
             \/ pst = "end" /\ pst' = "waitEnd" /\ cmd = "END"
    BY <1>1, <1>5 DEF SendData, SendEnd, NoChunk, Chunk, Place
  <2>2. Len(toMcu) = 0 BY <1>1, <2>1 DEF Place
  <2>3. Len(toMcu') = 1 /\ toMcu'[1].cmd = cmd
    <3>1. cmd \in {"u", "START", "DATA", "END"} /\ sent % SeqMod \in Seqs
      BY <1>1, SeqNumber
    <3>2. Len(toMcu') = Len(toMcu) + 1 /\ toMcu'[Len(toMcu) + 1].cmd = cmd
      BY <1>1, <2>1, <3>1, Sent
    <3>3. QED BY <2>2, <3>2
  <2>4. Place' BY <1>1, <2>1, <2>3 DEF Place, Alone
  <2>5. Sizes' BY <1>1, <2>1, <2>3 DEF Sizes
  <2>6. QED BY <1>1, <1>3, <2>4, <2>5 DEF CalmNext
<1>6. QED BY <1>4, <1>5

(* Before a calm session only text and the ACK of the last frame wait.     *)
LEMMA ReadStatusCalm ==
  ASSUME CInv, ReadStatus, Calm PROVE pst' # "failed" /\ (Before => CalmNext)
<1>1. /\ IInv /\ TypeInv /\ Calm /\ Place /\ Sizes /\ NoErrors /\ rdr = "none" /\ ~overrun
      /\ pst \in Waiting /\ pst # "prompt" /\ toPc # <<>> /\ toPc' = Tail(toPc)
      /\ UNCHANGED <<file, toMcu, mode, rdr, overrun, total>>
  BY DEF CInv, CalmInv, IInv, ReadStatus, Waiting, device, stream, uart
<1>2. /\ Head(toPc) = toPc[1] /\ Len(toPc) \in Nat \ {0} /\ Len(toPc') = Len(toPc) - 1
      /\ \A i \in 1..Len(toPc') : i + 1 \in 1..Len(toPc) /\ toPc'[i] = toPc[i + 1]
  BY <1>1, AfterStatus
<1>3. 1 \in 1..Len(toPc) BY <1>2
<1>4. Text(1) \/ IsAck(1) BY <1>1, <1>3 DEF NoErrors, IsAck
<1>5. ASSUME pst' # "prompt", pst' \in Active => Place' /\ Sizes' PROVE pst' \in Active => CalmNext
  <2>1. NoErrors' BY <1>1, <1>2, <1>5 DEF NoErrors, Text
  <2>2. QED BY <1>1, <1>5, <2>1 DEF CalmNext
<1>6. pst' \notin Active => CalmNext BY DEF CalmNext, Calm
<1>7. CASE Text(1)
  <2>1. UNCHANGED <<pst, sent>> BY <1>2, <1>7 DEF ReadStatus, Skipped, Text
  <2>2. Place' /\ Sizes' BY <1>1, <2>1 DEF Place, Sizes, Alone
  <2>3. pst' # "failed" /\ pst' # "prompt" BY <1>1, <2>1 DEF Waiting
  <2>4. QED BY <1>5, <1>6, <2>2, <2>3
<1>8. CASE IsAck(1)
  <2>1. toPc[1].cmd = "ACK" /\ toPc[1].seq = AwaitedSeq /\ toMcu = <<>>
    BY <1>1, <1>3, <1>8 DEF IInv, ReplyInv, IsAck
  <2>2. Acknowledged BY <1>2, <2>1 DEF ReadStatus, Skipped
  <2>3. ~\E cmd : Alone(cmd) BY <1>1, <2>1, LineFacts
  <2>4. Len(toMcu) = 0 BY <1>1, <2>1, LineFacts
  <2>5. pst' # "failed" /\ pst' # "prompt" BY <2>2 DEF Acknowledged, Stop
  <2>6. CASE pst = "waitStart"
    <3>1. pst' = "data" BY <2>2, <2>6 DEF Acknowledged
    <3>2. mode = "data" BY <1>1, <2>3, <2>4, <2>6 DEF Place
    <3>3. QED BY <1>1, <1>5, <1>6, <2>1, <2>5, <3>1, <3>2 DEF Place, Sizes
  <2>7. CASE pst = "waitData"
    <3>1. pst' = IF sent + 1 < FrameCount[file] THEN "data" ELSE "end"
      BY <2>2, <2>7 DEF Acknowledged
    <3>2. mode = pst' BY <1>1, <2>3, <2>7, <3>1 DEF Place
    <3>3. QED BY <1>1, <1>5, <1>6, <2>1, <2>5, <3>1, <3>2 DEF Place, Sizes
  <2>8. CASE pst = "waitEnd"
    <3>1. pst' = "ok" BY <2>2, <2>8 DEF Acknowledged, Stop
    <3>2. QED BY <1>6, <2>5, <3>1 DEF Active, Waiting
  <2>9. QED BY <1>1, <2>6, <2>7, <2>8 DEF Waiting
<1>9. QED BY <1>4, <1>7, <1>8

-----------------------------------------------------------------------------
(* The device, step by step.                                               *)

(* What every step of it finds.                                            *)
LEMMA DeviceFacts ==
  ASSUME CInv, Before
  PROVE  /\ IInv /\ TypeInv /\ Calm /\ Place /\ Sizes /\ NoErrors /\ rdr = "none" /\ ~overrun
         /\ ~disturbed /\ ~disturbed' /\ pst \in Active /\ file \in Good
         /\ FrameCount[file] \in ValidSizes
         /\ 0 \in Seqs /\ endSeq \in Seqs /\ Expected \in Seqs
         /\ pst = "prompt" => toMcu = <<>> /\ Len(toMcu) = 0
         /\ \A seq : Reply("ACK", seq) => Post("ACK", seq)
         /\ \A seq : Reply("ERROR", seq) => Post("ERROR", seq)
         /\ \A wrong, seq : Refuse(wrong, seq) => wrong /\ Leave /\ Post("ERROR", seq)
<1>1. /\ IInv /\ TypeInv /\ Calm /\ Place /\ Sizes /\ NoErrors /\ rdr = "none" /\ ~overrun
      /\ ~disturbed /\ ~disturbed' /\ pst \in Active /\ file \in Good
      /\ FrameCount[file] \in ValidSizes
  BY DEF CInv, IInv, Before, Calm, Accepted
<1>2. 0 \in Seqs /\ endSeq \in Seqs /\ Expected \in Seqs
  BY <1>1, SeqNumber, LenProperties DEF TypeInv, Expected
<1>3. pst = "prompt" => toMcu = <<>> /\ Len(toMcu) = 0
  BY <1>1, LineFacts
<1>4. ~Fault BY <1>1 DEF Fault
<1>5. /\ \A seq : Reply("ACK", seq) => Post("ACK", seq)
      /\ \A seq : Reply("ERROR", seq) => Post("ERROR", seq)
  BY <1>4 DEF Reply
<1>6. \A wrong, seq : Refuse(wrong, seq) => wrong /\ Leave /\ Post("ERROR", seq)
  BY <1>4, <1>5 DEF Refuse
<1>7. QED BY <1>1, <1>2, <1>3, <1>5, <1>6

(* What the device does before the sender has seen a prompt.               *)
LEMMA PromptStep ==
  ASSUME CInv, Before, pst = "prompt",
         StartApp \/ OpenWindow \/ WindowExpires \/ McuTimeout \/ Install \/ Reset
  PROVE  CalmNext
<1>1. /\ TypeInv /\ NoErrors /\ rdr = "none" /\ ~overrun /\ ~disturbed' /\ toMcu = <<>>
      /\ 0 \in Seqs /\ endSeq \in Seqs /\ Expected \in Seqs
  BY DeviceFacts
<1>2. ~Prompted
  <2>1. CASE Reset
    BY <2>1 DEF Reset, Handshaking, Before, Active
  <2>2. CASE ~Reset
    <3>1. mode # "window" \/ WindowExpires
      BY <2>2 DEF StartApp, OpenWindow, McuTimeout, Expires, Install
    <3>2. QED BY <3>1, NotPrompted
  <2>3. QED BY <2>1, <2>2
<1>3. /\ UNCHANGED <<pst, file, toMcu>> /\ rdr' = "none" /\ ~overrun'
      /\ \/ toPc' = toPc
         \/ Post("PROMPT", 0) /\ mode' = "window"
         \/ \E cmd \in {"ACK", "ERROR"}, seq \in Seqs : Post(cmd, seq)
  <2>1. CASE StartApp \/ OpenWindow \/ WindowExpires \/ Reset
    <3>1. CASE StartApp BY <1>1, <3>1 DEF StartApp, pc, uart
    <3>5. CASE OpenWindow BY <1>1, <3>5 DEF OpenWindow, pc, uart
    <3>2. CASE WindowExpires BY <1>1, <3>2 DEF WindowExpires, pc, uart
    <3>3. CASE Reset BY <1>1, <3>3 DEF Reset, Restart, pc
    <3>4. QED BY <2>1, <3>1, <3>2, <3>3, <3>5
  <2>2. CASE McuTimeout
    BY <1>1, <2>2 DEF McuTimeout, Unchanged, pc, uart
  <2>3. CASE Install
    <3>1. UNCHANGED <<pst, file, toMcu>> BY <2>3 DEF Install, Unchanged, pc
    <3>2. CASE \E f \in Good : Commit(f)
      BY <1>1, <3>1, <3>2, DeviceFacts DEF Commit, Restart
    <3>3. CASE Refuse(~\E f \in Good : Complete(f), endSeq) /\ UNCHANGED uart
      BY <1>1, <3>1, <3>3, DeviceFacts DEF uart
    <3>4. QED BY <2>3, <3>2, <3>3 DEF Install
  <2>4. QED BY <2>1, <2>2, <2>3
<1>4. NoErrors' /\ (Prompted' => mode' = "window")
  <2>1. CASE toPc' = toPc
    BY <1>1, <1>2, <1>3, <2>1 DEF NoErrors, Text, Prompted
  <2>2. CASE Post("PROMPT", 0) /\ mode' = "window"
    BY <1>1, <1>3, <2>2, HarmlessPost
  <2>3. ASSUME NEW cmd \in {"ACK", "ERROR"}, NEW seq \in Seqs, Post(cmd, seq)
        PROVE  NoErrors' /\ ~Prompted'
    <3>1. cmd \in {"PROMPT", "TEXT", "ACK", "ERROR"} /\ cmd # "PROMPT" /\ UNCHANGED pst
      BY <1>3
    <3>2. NoErrors' /\ (cmd # "PROMPT" /\ Prompted' => Prompted)
      BY <1>1, <1>2, <2>3, <3>1, HarmlessPost
    <3>3. QED BY <1>2, <3>1, <3>2
  <2>4. QED BY <1>3, <2>1, <2>2, <2>3
<1>5. IInv BY DEF CInv
<1>6. QED BY <1>3, <1>4, <1>5, BeforePrompt

(* Once the prompt has been seen, the device waits for nothing in vain.    *)
LEMMA NoLateStep ==
  ASSUME CInv, Before, pst # "prompt"
  PROVE  ~(WindowExpires \/ McuTimeout \/ Reset \/ Damage \/ ReadOverrun \/ Missed)
<1>1. /\ IInv /\ Place /\ ~overrun /\ ~disturbed' /\ pst \in Active
  BY DeviceFacts
<1>2. Handshaking BY <1>1 DEF Handshaking
<1>3. ~(WindowExpires \/ McuTimeout \/ Reset \/ Damage \/ ReadOverrun)
  BY <1>1, <1>2 DEF WindowExpires, McuTimeout, Reset, Damage, ReadOverrun
<1>4. toMcu # <<>> => mode \in Listening
  BY <1>1 DEF Place, Listening, Active, Waiting
<1>5. QED BY <1>3, <1>4 DEF Missed

LEMMA NoMissed ==
  ASSUME CInv, Before, pst = "prompt"
  PROVE  ~(Damage \/ ReadOverrun \/ Missed \/ ReadWindow \/ ReadFrame)
<1>1. ~overrun /\ toMcu = <<>> /\ rdr = "none" BY DeviceFacts
<1>2. QED BY <1>1 DEF Damage, ReadOverrun, Missed, ReadWindow, ReadFrame

(* The receiver is opened by the 'u' that answered the prompt.             *)
LEMMA ReadWindowCalm ==
  ASSUME CInv, Before, pst # "prompt", ReadWindow PROVE CalmNext
<1>1. /\ IInv /\ TypeInv /\ Place /\ Sizes /\ NoErrors /\ rdr = "none" /\ ~overrun
      /\ pst \in Active /\ 0 \in Seqs
  BY DeviceFacts
<1>2. /\ mode = "window" /\ toMcu # <<>> /\ toMcu' = Tail(toMcu)
      /\ IF Head(toMcu).cmd = "u" THEN EnterReceiver /\ UNCHANGED uart
           ELSE Decline /\ Pending(Head(toMcu))
      /\ UNCHANGED <<pst, file, sent, total>>
  BY <1>1 DEF ReadWindow, pc, stream
<1>3. \/ pst = "start" /\ Alone("u")
      \/ pst = "waitStart" /\ Len(toMcu) = 2 /\ toMcu[1].cmd = "u"
  BY <1>1, <1>2 DEF Place, Active, Waiting
<1>4. /\ Head(toMcu) = toMcu[1]
      /\ Len(toMcu) = 1 => toMcu' = <<>>
      /\ Len(toMcu) = 2 => Len(toMcu') = 1 /\ toMcu'[1] = toMcu[2] /\ toMcu[2].cmd = "START"
  BY <1>1, <1>2, LineFacts
<1>5. mode' = "start" /\ Post("TEXT", 0) /\ UNCHANGED uart
  BY <1>2, <1>3, <1>4 DEF Alone, EnterReceiver
<1>6. NoErrors' BY <1>1, <1>2, <1>5, HarmlessPost
<1>7. Place'
  BY <1>2, <1>3, <1>4, <1>5 DEF Place, Alone
<1>8. Sizes'
  <2>1. CASE pst = "start"
    <3>1. Len(toMcu') = 0 BY <1>3, <1>4, <2>1 DEF Alone
    <3>2. QED BY <1>5, <3>1 DEF Sizes
  <2>2. CASE pst = "waitStart"
    <3>1. Len(toMcu') = 1 /\ toMcu'[1] = toMcu[2] /\ 2 \in 1..Len(toMcu)
      BY <1>3, <1>4, <2>2
    <3>2. QED BY <1>1, <1>2, <1>5, <3>1 DEF Sizes
  <2>3. QED BY <1>3, <2>1, <2>2
<1>9. QED BY <1>1, <1>5, <1>6, <1>7, <1>8 DEF CalmNext, uart

(* Every frame of the session is taken.                                    *)
LEMMA ReadFrameCalm ==
  ASSUME CInv, Before, pst # "prompt", ReadFrame PROVE CalmNext
<1>1. /\ IInv /\ TypeInv /\ Place /\ Sizes /\ NoErrors /\ rdr = "none" /\ ~overrun
      /\ pst \in Active /\ file \in Good /\ FrameCount[file] \in ValidSizes
      /\ sent \in Nat /\ got \in Seq(Chunk)
  BY DeviceFacts DEF TypeInv
<1>2. /\ mode \in {"start", "data", "end"} /\ toMcu # <<>> /\ toMcu' = Tail(toMcu)
      /\ TakeFrame(Head(toMcu)) /\ UNCHANGED <<pst, file, sent>>
      /\ UNCHANGED uart \/ Head(toMcu).cmd = "BAD"
  BY DEF ReadFrame, Listening, Unchanged, pc
<1>3. \/ mode = "start" /\ pst = "waitStart" /\ Alone("START")
      \/ mode = "data" /\ pst = "waitData" /\ Alone("DATA")
      \/ mode = "end" /\ pst = "waitEnd" /\ Alone("END")
  BY <1>1, <1>2 DEF Place, Active, Waiting
<1>4. Head(toMcu) = toMcu[1] /\ toMcu' = <<>> /\ Len(toMcu') = 0 /\ 1 \in 1..Len(toMcu)
      /\ Head(toMcu) \in Frame
  BY <1>1, <1>2, <1>3, FirstFrame DEF Alone
<1>5. UNCHANGED uart BY <1>2, <1>3, <1>4 DEF Alone
<1>6. Head(toMcu).seq \in Seqs BY <1>4 DEF Frame
<1>7. ASSUME NEW seq \in Seqs, Reply("ACK", seq) PROVE NoErrors'
  <2>1. Post("ACK", seq) BY <1>7, DeviceFacts
  <2>2. QED BY <1>1, <1>2, <2>1, HarmlessPost
<1>8. CASE mode = "start"
  <2>1. Head(toMcu).cmd = "START" /\ Head(toMcu).size = FrameCount[file] /\ pst = "waitStart"
    BY <1>1, <1>3, <1>4, <1>8 DEF Alone, Sizes
  <2>2. TakeStart(Head(toMcu)) BY <1>2, <1>8, <2>1 DEF TakeFrame
  <2>3. Reply("ACK", Head(toMcu).seq) /\ mode' = "data" /\ total' = FrameCount[file]
    BY <1>1, <2>1, <2>2 DEF TakeStart
  <2>4. Place' BY <1>2, <1>4, <2>1, <2>3 DEF Place
  <2>5. Sizes' BY <1>2, <1>4, <2>1, <2>3 DEF Sizes
  <2>6. QED BY <1>1, <1>5, <1>6, <1>7, <2>3, <2>4, <2>5 DEF CalmNext, uart
<1>9. CASE mode = "data"
  <2>1. /\ pst = "waitData" /\ Head(toMcu).cmd = "DATA" /\ Head(toMcu).seq = sent % SeqMod
        /\ Head(toMcu).data = <<file, sent + 1>>
    BY <1>1, <1>3, <1>4, <1>9 DEF Alone, IInv, LineInv
  <2>2. Agrees /\ Len(got) = sent /\ sent < FrameCount[file] /\ total = FrameCount[file]
    BY <1>1, <1>2, <1>9, <2>1 DEF IInv, StreamInv, Busy, Position, Sizes
  <2>3. TakeData(Head(toMcu))
    BY <1>2, <1>9, <2>1, <2>2 DEF TakeFrame, Acceptable, Expected
  <2>4. Intact(Append(got, Head(toMcu).data), file)
    BY <1>1, <2>1, <2>2, FileAssumption DEF Intact, Agrees
  <2>5. ~Refuse(~\E g \in Good : Intact(Append(got, Head(toMcu).data), g) /\ FrameCount[g] = total,
                Head(toMcu).seq)
    BY <1>1, <2>2, <2>4, DeviceFacts
  <2>6. /\ mode' = (IF Len(Append(got, Head(toMcu).data)) < total THEN "data" ELSE "end")
        /\ Reply("ACK", Head(toMcu).seq) /\ UNCHANGED total
    BY <2>3, <2>5 DEF TakeData, AckSeq
  <2>7. mode' = IF sent + 1 < FrameCount[file] THEN "data" ELSE "end"
    BY <1>1, <2>2, <2>6
  <2>8. Place' BY <1>2, <1>4, <2>1, <2>7 DEF Place
  <2>9. Sizes' BY <1>2, <1>4, <2>1, <2>2, <2>6 DEF Sizes
  <2>10. QED BY <1>1, <1>5, <1>6, <1>7, <2>6, <2>8, <2>9 DEF CalmNext, uart
<1>10. CASE mode = "end"
  <2>1. pst = "waitEnd" /\ Head(toMcu).cmd = "END"
    BY <1>3, <1>4, <1>10 DEF Alone
  <2>2. mode' = "install" /\ UNCHANGED toPc
    BY <1>2, <1>10, <2>1 DEF TakeFrame, AcceptEnd
  <2>3. Place' /\ Sizes' /\ NoErrors'
    BY <1>1, <1>2, <1>4, <2>1, <2>2 DEF Place, Sizes, NoErrors, Text
  <2>4. QED BY <1>1, <1>5, <2>3 DEF CalmNext, uart
<1>11. QED BY <1>2, <1>8, <1>9, <1>10

(* Nothing is left on the line once the receiver has taken END.            *)
LEMMA AfterEnd ==
  ASSUME CInv, Before, pst # "prompt", StartApp \/ OpenWindow \/ Install PROVE CalmNext
<1>1. /\ IInv /\ TypeInv /\ Place /\ Sizes /\ NoErrors /\ rdr = "none" /\ ~overrun
      /\ pst \in Active /\ file \in Good /\ 0 \in Seqs /\ endSeq \in Seqs
  BY DeviceFacts
<1>2. pst = "waitEnd" /\ toMcu = <<>> /\ Len(toMcu) = 0
  <2>1. mode \in {"boot", "pause", "install"}
    BY DEF StartApp, OpenWindow, Install
  <2>2. pst = "waitEnd" /\ toMcu = <<>>
    BY <1>1, <2>1 DEF Place, Active, Waiting
  <2>3. QED BY <1>1, <2>2, LineFacts
<1>3. UNCHANGED <<pst, file, toMcu>>
  BY DEF StartApp, OpenWindow, Install, Unchanged, pc
<1>4. /\ mode' \in {"app", "window", "boot"} /\ rdr' = "none" /\ ~overrun' /\ NoErrors'
  <2>1. CASE StartApp
    BY <1>1, <1>3, <2>1 DEF StartApp, uart, NoErrors, Text
  <2>2. CASE OpenWindow
    BY <1>1, <1>3, <2>2, HarmlessPost DEF OpenWindow, uart
  <2>3. CASE Install
    <3>1. sent = FrameCount[file] /\ Agrees /\ Len(got) = sent
      BY <1>1, <1>2, <2>3 DEF IInv, Position, StreamInv, Busy, Install
    <3>2. Complete(file)
      BY <1>1, <3>1, FileAssumption DEF Complete, Intact, Agrees
    <3>3. PICK f \in Good : Commit(f)
      BY <1>1, <2>3, <3>2, DeviceFacts DEF Install
    <3>4. Post("ACK", endSeq) /\ Restart BY <3>3, DeviceFacts DEF Commit
    <3>5. NoErrors' BY <1>1, <1>2, <1>3, <3>4, HarmlessPost
    <3>6. QED BY <3>4, <3>5 DEF Restart
  <2>4. QED BY <2>1, <2>2, <2>3
<1>5. Place' /\ Sizes'
  BY <1>2, <1>3, <1>4 DEF Place, Sizes
<1>6. QED BY <1>4, <1>5 DEF CalmNext

-----------------------------------------------------------------------------
(* Only a disturbed session fails.                                         *)

LEMMA CalmStep == ASSUME CInv, Next, Calm' PROVE CalmNext
<1>1. CASE NewSession BY <1>1, NewSessionCalm
<1>2. CASE ~NewSession
  <2>1. Before BY <1>2, StepGoes, CalmBefore
  <2>2. CASE ReadPrompt BY <2>1, <2>2, ReadPromptCalm
  <2>3. CASE SendStart \/ SendData \/ SendEnd BY <2>1, <2>3, SendCalm
  <2>4. CASE ReadStatus BY <2>1, <2>4, ReadStatusCalm DEF Before
  <2>5. CASE PcTimeout \/ Kill
    BY <2>5 DEF PcTimeout, Kill, Stop, Calm, Active, Waiting
  <2>6. CASE pst = "prompt"
    BY <1>2, <2>1, <2>2, <2>3, <2>4, <2>5, <2>6, NoMissed, PromptStep DEF Next, Sender, Mcu
  <2>7. CASE pst # "prompt"
    BY <1>2, <2>1, <2>2, <2>3, <2>4, <2>5, <2>7, NoLateStep, ReadWindowCalm, ReadFrameCalm, AfterEnd
    DEF Next, Sender, Mcu
  <2>8. QED BY <2>6, <2>7
<1>3. QED BY <1>1, <1>2

LEMMA FailStep == ASSUME CInv, Next PROVE FailInv'
<1>1. SUFFICES ASSUME pst' = "failed", Accepted', ~disturbed' PROVE FALSE
  BY DEF FailInv
<1>2. ~NewSession BY <1>1 DEF NewSession
<1>3. Goes BY <1>2, StepGoes
<1>4. Accepted /\ ~disturbed BY <1>1, <1>3 DEF Goes, Accepted
<1>5. CASE pst \in Active
  <2>1. Calm BY <1>4, <1>5 DEF Calm
  <2>2. pst # "failed" BY <1>5 DEF Active, Waiting
  <2>3. ~ReadStatus BY <1>1, <2>1, ReadStatusCalm
  <2>4. ~(ReadPrompt \/ SendStart \/ SendData \/ SendEnd \/ PcTimeout \/ Kill)
    BY <1>1, <2>2 DEF ReadPrompt, SendStart, SendData, SendEnd, PcTimeout, Kill, Stop
  <2>5. UNCHANGED pst
    BY <1>2, <2>3, <2>4 DEF Next, Sender, Mcu, StartApp, OpenWindow, ReadWindow, WindowExpires,
       ReadFrame, ReadOverrun, McuTimeout, Install, Missed, Damage, Reset, Unchanged, pc
  <2>6. QED BY <1>1, <2>2, <2>5
<1>6. CASE pst \notin Active
  <2>1. ~Sender /\ ~Kill
    BY <1>6 DEF Sender, ReadPrompt, SendStart, SendData, SendEnd, ReadStatus, PcTimeout, GivesUp,
                Kill, Active
  <2>2. UNCHANGED pst
    BY <1>2, <2>1 DEF Next, Mcu, StartApp, OpenWindow, ReadWindow, WindowExpires,
       ReadFrame, ReadOverrun, McuTimeout, Install, Missed, Damage, Reset, Unchanged, pc
  <2>3. pst = "failed" BY <1>1, <2>2
  <2>4. QED BY <1>4, <2>3 DEF CInv, FailInv
<1>7. QED BY <1>5, <1>6

LEMMA CalmInit == Init => CInv
  BY InvInit DEF CInv, CalmInv, FailInv, Calm, Init, Active, Waiting

LEMMA CInvStep == CInv /\ [Next]_vars => CInv'
<1>1. ASSUME CInv, [Next]_vars PROVE IInv' BY <1>1, InvStep DEF CInv
<1>2. ASSUME CInv, Next PROVE CalmInv' /\ FailInv'
  <2>1. Calm' => CalmNext BY <1>2, CalmStep
  <2>2. CalmInv' BY <2>1 DEF CalmInv, CalmNext
  <2>3. QED BY <1>2, <2>2, FailStep
<1>3. ASSUME CInv, UNCHANGED vars PROVE CalmInv' /\ FailInv'
  BY <1>3 DEF CInv, CalmInv, FailInv, Calm, Accepted, Place, Sizes, NoErrors, Text, Alone, Prompted,
              vars, pc, uart, device, stream, history
<1>4. QED BY <1>1, <1>2, <1>3 DEF CInv

(* A session that meets no fault, no reset and no late end does not fail   *)
(* when its file is one the device accepts: no byte of it is lost to the   *)
(* line without flow control, no number is refused, no old status is met,  *)
(* whatever the device was doing when the tool was started.                *)
THEOREM UartUndisturbed == Spec => []UndisturbedSucceeds
<1>1. CInv => UndisturbedSucceeds
  BY DEF CInv, FailInv, Accepted, UndisturbedSucceeds
<1>2. QED BY <1>1, CalmInit, CInvStep, PTL DEF Spec
=============================================================================
