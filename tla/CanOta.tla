------------------------------- MODULE CanOta -------------------------------
(***************************************************************************)
(* The transfer of an update over CAN: pc_tool/send_can.py on one side,    *)
(* ota_transport_can.c on the other, and between them the transmit queue   *)
(* of the PC adapter, the receive FIFO of the controller and the status    *)
(* frames on their way back.                                               *)
(*                                                                         *)
(* The stream is counted in DATA frames instead of bytes.  What the device *)
(* does with a complete stream is module Bootloader; here the content      *)
(* checks only tell the frames of one good file, in order, from everything *)
(* else.                                                                   *)
(***************************************************************************)
EXTENDS Naturals, Sequences

CONSTANTS
    Files,        \* update files on the PC
    Good,         \* files that pass every check of the device
    FrameCount,   \* FrameCount[f]: DATA frames needed for file f
    ValidSizes,   \* totals, in frames, that fit slot B
    NoFile,
    SeqMod,       \* sequence numbers are taken modulo this (2^16)
    FifoDepth,    \* receive FIFO of the CAN controller (3)
    MaxTries,     \* START frames of one session
    MaxSessions,  \* bound: times the sender is run
    MaxFaults,    \* bound: frames lost, statuses not sent, flash errors
    MaxResets     \* bound: resets of the board

ASSUME FileAssumption ==
    Good \subseteq Files /\ NoFile \notin Files /\ FrameCount \in [Files -> Nat \ {0}]
ASSUME SizeAssumption == ValidSizes \subseteq Nat \ {0}
ASSUME NumberAssumption ==
    /\ SeqMod \in Nat \ {0} /\ FifoDepth \in Nat \ {0}
    /\ MaxTries \in Nat /\ MaxSessions \in Nat /\ MaxFaults \in Nat /\ MaxResets \in Nat

VARIABLES
    pst,        \* PC: where main() of send_can.py is
    file,       \* PC: the file being sent
    sent,       \* PC: frames acknowledged in this session
    tries,      \* PC: START frames sent in this session
    wire,       \* frames queued in the PC adapter
    fifo,       \* frames in the receive FIFO of the device
    toPc,       \* statuses queued for the PC
    mode,       \* device: where the receiver is
    inLoop,     \* device: in ota_wait_for_update_can, not in the boot window
    total,      \* device: total_size, in frames
    got,        \* device: the frames taken so far
    sessions, faults, resets,
    disturbed,  \* history: a fault, a timeout, a reset or an older session met this one
    ended,      \* history: files for which a sender has sent END
    installed,  \* history: files the device has committed
    landed      \* history: the file committed during this session, or NoFile

pc      == <<pst, file, sent, tries>>
net     == <<wire, fifo, toPc>>
device  == <<mode, inLoop, total, got>>
budget  == <<sessions, faults, resets>>
history == <<disturbed, ended, installed, landed>>
vars == <<pc, net, device, budget, history>>

Chunk == (Files \cup {NoFile}) \X Nat
NoChunk == <<NoFile, 0>>

StartSeq == SeqMod - 1
Frame  == [cmd : {"START", "DATA", "END"}, seq : 0..StartSeq, size : Nat, data : Chunk]
Status == [cmd : {"ACK", "ERROR"}, seq : 0..StartSeq, code : Nat]

Waiting   == {"waitStart", "waitData", "waitEnd"}
Active    == Waiting \cup {"start", "data", "end"}
Receiving == {"data", "end", "install"}

Init ==
    /\ pst = "idle" /\ file = NoFile /\ sent = 0 /\ tries = 0
    /\ wire = <<>> /\ fifo = <<>> /\ toPc = <<>>
    /\ mode = "boot" /\ inLoop = FALSE /\ total = 0 /\ got = <<>>
    /\ sessions = 0 /\ faults = 0 /\ resets = 0
    /\ disturbed = FALSE /\ ended = {} /\ installed = {} /\ landed = NoFile

(* The CAN peripheral runs; the application does not use it.               *)
CanOn == mode \notin {"boot", "app"}

-----------------------------------------------------------------------------
(* The sender.                                                             *)

Send(cmd, seq, size, data) ==
    wire' = Append(wire, [cmd |-> cmd, seq |-> seq, size |-> size, data |-> data])

(* A user starts the tool; the bus is opened with an empty receive queue.  *)
(* By then the device has read what was in its FIFO, or is busy with the   *)
(* last frame of an older session (verification, erase).                   *)
NewSession ==
    /\ pst \notin Active /\ sessions < MaxSessions
    /\ ~CanOn \/ fifo = <<>> \/ (Len(fifo) = 1 /\ mode \in Receiving)
    /\ sessions' = sessions + 1
    /\ file' \in Files /\ sent' = 0 /\ tries' = 0 /\ pst' = "start"
    /\ toPc' = <<>> /\ landed' = NoFile /\ disturbed' = (mode \in Receiving)
    /\ UNCHANGED <<wire, fifo, device, faults, resets, ended, installed>>

(* The tool ends: "with can.Bus" closes the adapter, whose queues go.      *)
Close(result) == pst' = result /\ wire' = <<>> /\ toPc' = <<>>

Kill ==
    /\ pst \in Active /\ Close("idle")
    /\ UNCHANGED <<file, sent, tries, fifo, device, budget, history>>

SendStart ==
    /\ pst = "start"
    /\ IF tries < MaxTries
         THEN /\ Send("START", StartSeq, FrameCount[file], NoChunk)
              /\ tries' = tries + 1 /\ pst' = "waitStart" /\ UNCHANGED toPc
         ELSE Close("failed") /\ UNCHANGED tries
    /\ UNCHANGED <<file, sent, fifo, device, budget, history>>

SendData ==
    /\ pst = "data"
    /\ Send("DATA", sent % SeqMod, 0, <<file, sent + 1>>)
    /\ pst' = "waitData"
    /\ UNCHANGED <<file, sent, tries, fifo, toPc, device, budget, history>>

SendEnd ==
    /\ pst = "end"
    /\ Send("END", sent % SeqMod, 0, NoChunk)
    /\ pst' = "waitEnd" /\ ended' = ended \cup {file}
    /\ UNCHANGED <<file, sent, tries, fifo, toPc, device, budget,
                   disturbed, installed, landed>>

AwaitedSeq == IF pst = "waitStart" THEN StartSeq ELSE sent % SeqMod

(* wait_status: a status for another sequence number is dropped, be it an  *)
(* ACK or an ERROR; the count in the ACK is compared for DATA only.        *)
Ignored(s) == s.seq # AwaitedSeq

CountIgnored(s) == TRUE    \* mutant: the ACK value is not compared
CountMatches(s) == s.code = sent + 1

Acknowledged(s) ==
    \/ /\ pst = "waitStart"
       /\ pst' = "data" /\ toPc' = Tail(toPc) /\ UNCHANGED <<sent, wire>>
    \/ /\ pst = "waitData" /\ CountMatches(s)
       /\ sent' = sent + 1 /\ toPc' = Tail(toPc) /\ UNCHANGED wire
       /\ pst' = IF sent + 1 < FrameCount[file] THEN "data" ELSE "end"
    \/ /\ pst = "waitData" /\ ~CountMatches(s)
       /\ Close("failed") /\ UNCHANGED sent
    \/ /\ pst = "waitEnd"
       /\ Close("ok") /\ UNCHANGED sent

ReadStatus ==
    /\ pst \in Waiting /\ toPc # <<>>
    /\ LET s == Head(toPc) IN
         \/ Ignored(s) /\ toPc' = Tail(toPc) /\ UNCHANGED <<pst, sent, wire>>
         \/ ~Ignored(s) /\ s.cmd = "ERROR" /\ Close("failed") /\ UNCHANGED sent
         \/ ~Ignored(s) /\ s.cmd = "ACK" /\ Acknowledged(s)
    /\ UNCHANGED <<file, tries, fifo, device, budget, history>>

(* Nothing is on its way to the device: the bus needs milliseconds, the    *)
(* device seconds at most, the timeouts are 3 s there and 60 s here.       *)
Quiet == CanOn => wire = <<>> /\ fifo = <<>> /\ mode # "install"

NeverGivesUp == FALSE    \* mutant: no deadline in wait_status
GivesUp == pst # "waitStart" /\ Quiet

(* A START is repeated after 0.2 s, which may be too soon; a DATA or END   *)
(* frame is given up.                                                      *)
PcTimeout ==
    /\ pst \in Waiting /\ toPc = <<>>
    /\ \/ pst = "waitStart" /\ pst' = "start" /\ UNCHANGED <<wire, toPc, disturbed>>
       \/ GivesUp /\ Close("failed") /\ disturbed' = TRUE
    /\ UNCHANGED <<file, sent, tries, fifo, device, budget, ended, installed, landed>>

-----------------------------------------------------------------------------
(* The bus.                                                                *)

(* The adapter repeats a frame until a node acknowledges it, so frames     *)
(* wait while the device is in reset or in its application.  A full FIFO   *)
(* that is not locked overwrites its newest frame.                         *)
Deliver ==
    /\ CanOn /\ wire # <<>>
    /\ wire' = Tail(wire)
    /\ fifo' = IF Len(fifo) < FifoDepth THEN Append(fifo, Head(wire))
                                        ELSE [fifo EXCEPT ![FifoDepth] = Head(wire)]
    /\ UNCHANGED <<pc, toPc, device, budget, history>>

Lose ==
    /\ wire # <<>> /\ faults < MaxFaults
    /\ wire' = Tail(wire) /\ faults' = faults + 1 /\ disturbed' = TRUE
    /\ UNCHANGED <<pc, fifo, toPc, device, sessions, resets, ended, installed, landed>>

-----------------------------------------------------------------------------
(* The device.                                                             *)

Fault == faults < MaxFaults /\ faults' = faults + 1 /\ disturbed' = TRUE
NoFault == UNCHANGED <<faults, disturbed>>

Post(cmd, seq, code) ==
    toPc' = IF pst \in Active THEN Append(toPc, [cmd |-> cmd, seq |-> seq, code |-> code])
                              ELSE toPc

(* can_send_status: nobody looks at its result, so a status that cannot be *)
(* sent changes nothing else.                                              *)
Reply(cmd, seq, code) == \/ Post(cmd, seq, code) /\ NoFault
                         \/ Fault /\ UNCHANGED toPc

(* Return from the receiver: to the boot attempt, which starts an          *)
(* application or ends in the final loop, or to that loop.                 *)
Leave ==
    /\ total' = 0 /\ got' = <<>>
    /\ \/ inLoop /\ mode' = "wait" /\ UNCHANGED inLoop
       \/ ~inLoop /\ mode' = "app" /\ UNCHANGED inLoop
       \/ ~inLoop /\ mode' = "wait" /\ inLoop' = TRUE

Expected == Len(got) % SeqMod

Unchanged == UNCHANGED <<pc, wire, sessions, resets, ended>>

(* Reset handler and peripheral start: the FIFO comes up empty.            *)
BootDone ==
    /\ mode = "boot" /\ mode' = "window"
    /\ fifo' = <<>>
    /\ UNCHANGED <<pc, wire, toPc, inLoop, total, got, budget, history>>

(* ota_can_should_enter_update_mode on a frame: START is acknowledged      *)
(* before its size is looked at, anything else ends the boot window.       *)
Enter ==
    /\ mode \in {"window", "wait"} /\ fifo # <<>>
    /\ fifo' = Tail(fifo)
    /\ LET f == Head(fifo) IN
         \/ /\ f.cmd = "START" /\ Reply("ACK", f.seq, 0)
            /\ IF f.size \in ValidSizes
                 THEN mode' = "data" /\ total' = f.size /\ got' = <<>> /\ UNCHANGED inLoop
                 ELSE Leave
         \/ /\ f.cmd # "START" /\ Leave /\ NoFault /\ UNCHANGED toPc
    /\ Unchanged /\ UNCHANGED <<installed, landed>>

WindowExpires ==
    /\ mode = "window" /\ fifo = <<>>
    /\ Leave
    /\ UNCHANGED <<pc, net, budget, history>>

(* The frames so far are the beginning of one good file.                   *)
Intact(s, f) == Len(s) <= FrameCount[f] /\ \A i \in 1..Len(s) : s[i] = <<f, i>>

NoDuplicate(f) == FALSE    \* mutant: a repeated START is an error
DuplicateStart(f) == f.cmd = "START" /\ f.size = total

Acceptable(f) == f.cmd = "DATA" /\ f.seq = Expected

(* An error status and the way out.  A flash error refuses anything; the   *)
(* checks of header, key, signature, tag and hash refuse what is wrong.    *)
Refuse(wrong, seq, code) ==
    /\ Leave
    /\ \/ wrong /\ Reply("ERROR", seq, code)
       \/ ~wrong /\ Fault /\ Post("ERROR", seq, code)

(* Wrong frames may pass for a while, and are refused sooner or later.     *)
TakeData(f) ==
    LET s == Append(got, f.data)
        good == \E g \in Good : Intact(s, g) /\ FrameCount[g] = total IN
    \/ /\ got' = s /\ mode' = (IF Len(s) < total THEN "data" ELSE "end")
       /\ Reply("ACK", f.seq, Len(s))
       /\ UNCHANGED <<inLoop, total>>
    \/ Refuse(~good, f.seq, 4)

ReceiveData ==
    /\ mode = "data" /\ fifo # <<>>
    /\ fifo' = Tail(fifo)
    /\ LET f == Head(fifo) IN
         \/ DuplicateStart(f) /\ NoFault /\ UNCHANGED <<device, toPc>>
         \/ ~DuplicateStart(f) /\ Acceptable(f) /\ TakeData(f)
         \/ /\ ~DuplicateStart(f) /\ ~Acceptable(f)
            /\ Refuse(TRUE, Expected, 6)
    /\ Unchanged /\ UNCHANGED <<installed, landed>>

AnyFrameEnds(f) == f.seq = Expected    \* mutant: the command is not compared
IsEnd(f) == f.cmd = "END" /\ f.seq = Expected

AcceptEnd == mode' = "install" /\ NoFault /\ UNCHANGED <<inLoop, total, got, toPc>>

ReceiveEnd ==
    /\ mode = "end" /\ fifo # <<>>
    /\ fifo' = Tail(fifo)
    /\ \/ IsEnd(Head(fifo)) /\ AcceptEnd
       \/ ~IsEnd(Head(fifo)) /\ Refuse(TRUE, Expected, 9)
    /\ Unchanged /\ UNCHANGED <<installed, landed>>

(* Mutant: END is waited for without a timeout.                            *)
ExpiresInData == mode = "data" /\ Quiet
(* Nothing arrives for OTA_CAN_FRAME_TIMEOUT_MS.                           *)
Expires == mode \in {"data", "end"} /\ Quiet

McuTimeout ==
    /\ Expires
    /\ Leave /\ disturbed' = TRUE
    /\ \/ Post("ERROR", Expected, IF mode = "data" THEN 6 ELSE 9) /\ UNCHANGED faults
       \/ Fault /\ UNCHANGED toPc
    /\ Unchanged /\ UNCHANGED <<fifo, installed, landed>>

(* The whole stream is one good file.                                      *)
Complete(f) == Intact(got, f) /\ Len(got) = FrameCount[f]

(* Tag, hash, manifest, verification and metadata, then the final ACK and  *)
(* a reset.                                                                *)
Commit(f) ==
    /\ f \in Good /\ Complete(f)
    /\ installed' = installed \cup {f} /\ landed' = f
    /\ Reply("ACK", Expected, 0)
    /\ mode' = "boot" /\ inLoop' = FALSE /\ total' = 0 /\ got' = <<>>
    /\ fifo' = <<>>

Install ==
    /\ mode = "install"
    /\ \/ \E f \in Good : Commit(f)
       \/ /\ Refuse(~\E f \in Good : Complete(f), Expected, 10)
          /\ UNCHANGED <<fifo, installed, landed>>
    /\ Unchanged

Reset ==
    /\ resets < MaxResets /\ resets' = resets + 1
    /\ mode' = "boot" /\ inLoop' = FALSE /\ total' = 0 /\ got' = <<>>
    /\ fifo' = <<>> /\ disturbed' = (disturbed \/ mode \in Receiving)
    /\ UNCHANGED <<pc, wire, toPc, sessions, faults, ended, installed, landed>>

-----------------------------------------------------------------------------
Sender == SendStart \/ SendData \/ SendEnd \/ ReadStatus \/ PcTimeout

Mcu == \/ BootDone \/ Enter \/ WindowExpires
       \/ ReceiveData \/ ReceiveEnd \/ McuTimeout \/ Install

Next == Sender \/ Mcu \/ Deliver \/ NewSession \/ Kill \/ Lose \/ Reset

(* Both programs run, every wait of theirs has a deadline, and the         *)
(* adapter keeps repeating what it holds.                                  *)
Fairness == WF_vars(Sender) /\ WF_vars(Mcu) /\ WF_vars(Deliver)

Spec == Init /\ [][Next]_vars /\ Fairness

-----------------------------------------------------------------------------
(* Properties.                                                             *)

(* Once frames of a session are acknowledged, what the receiver holds is   *)
(* this file up to there, or one frame further: the sequence numbers wrap  *)
(* and repeat, the byte count in the ACK tells sessions apart.             *)
StreamsAgree ==
    pst \in Active /\ sent > 0 /\ mode \in Receiving =>
        /\ \A i \in 1..Len(got) : got[i] = <<file, i>>
        /\ Len(got) \in {sent, sent + 1}

(* The transfer over CAN implements the promise of a transfer: success on  *)
(* the PC (send_can.py:176) means that the device has committed this file  *)
(* during this very session, whatever earlier sessions left in queues and  *)
(* in the receiver and although wait_status ignores the code of the final  *)
(* ACK; nothing is installed that no sender finished.                      *)
UT == INSTANCE UpdateTransfer WITH sender <- IF pst \in Active THEN "active" ELSE pst
ImplementsTransfer == UT!Spec

(* If nothing is lost, late or reset, a transfer of a good file that was   *)
(* let in does not fail: repeated STARTs that waited in the adapter and    *)
(* overflow the FIFO do not hurt it.                                       *)
UndisturbedSucceeds ==
    pst = "failed" /\ tries < MaxTries /\ file \in Good /\ FrameCount[file] \in ValidSizes =>
        disturbed

(* Every run of the tool ends.                                             *)
SenderEnds == pst \in Active ~> pst \notin Active

(* The receiver does not stay in update mode, whatever senders do.         *)
ReceiverReturns == mode \in Receiving ~> mode \notin Receiving
=============================================================================
