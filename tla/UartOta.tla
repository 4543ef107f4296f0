------------------------------- MODULE UartOta -------------------------------
(***************************************************************************)
(* The transfer of an update over UART: pc_tool/send_uart.py on one side,  *)
(* ota_transport_uart.c on the other.  Commands, text and statuses share   *)
(* one line without flow control: the device polls its receiver, and what  *)
(* arrives while it does something else is lost but for one byte, and      *)
(* leaves an overrun error behind.                                         *)
(*                                                                         *)
(* The stream is counted in frames, as in CanOta.  The caller of           *)
(* ota_wait_for_update is external: main.c starts the CAN receiver.        *)
(***************************************************************************)
EXTENDS Naturals, Sequences

CONSTANTS
    Files,        \* update files on the PC
    Good,         \* files that pass every check of the device
    FrameCount,   \* FrameCount[f]: DATA frames needed for file f
    ValidSizes,   \* totals, in frames, that fit slot B
    NoFile,
    SeqMod,       \* sequence numbers are taken modulo this (2^16)
    MaxSessions,  \* bound: times the sender is run
    MaxFaults,    \* bound: frames and statuses damaged or lost, flash errors
    MaxResets     \* bound: resets of the board

ASSUME FileAssumption ==
    Good \subseteq Files /\ NoFile \notin Files /\ FrameCount \in [Files -> Nat \ {0}]
ASSUME NumberAssumption ==
    /\ ValidSizes \subseteq Nat \ {0} /\ SeqMod \in Nat \ {0}
    /\ MaxSessions \in Nat /\ MaxFaults \in Nat /\ MaxResets \in Nat

VARIABLES
    pst,        \* PC: where main() of send_uart.py is
    file,       \* PC: the file being sent
    sent,       \* PC: frames acknowledged in this session
    toMcu,      \* bytes on the line to the device, as frames
    toPc,       \* text and statuses in the input buffer of the PC
    mode,       \* device: where the receiver is
    rdr,        \* device: the byte in the receive register
    overrun,    \* device: a byte came before that one was read
    total,      \* device: total_size, in frames
    got,        \* device: the frames taken so far
    endSeq,     \* device: the number of the END frame
    sessions, faults, resets,
    disturbed,  \* history: a fault, a reset or a late end met this session
    ended,      \* history: files for which a sender has sent END
    installed,  \* history: files the device has committed
    landed      \* history: the file committed during this session, or NoFile

pc      == <<pst, file, sent>>
uart    == <<rdr, overrun>>
stream  == <<total, got, endSeq>>
device  == <<mode, stream>>
budget  == <<sessions, faults, resets>>
history == <<disturbed, ended, installed, landed>>
vars == <<pc, toMcu, toPc, uart, device, budget, history>>

Chunk == (Files \cup {NoFile}) \X Nat
NoChunk == <<NoFile, 0>>

Seqs == 0..(SeqMod - 1)
(* BAD: a damaged frame.  PROMPT and TEXT: what printf writes.             *)
Frame == [cmd : {"u", "START", "DATA", "END", "BAD"}, seq : Seqs, size : Nat, data : Chunk]
Reception == [cmd : {"PROMPT", "TEXT", "ACK", "ERROR", "BAD"}, seq : Seqs]

Waiting   == {"waitStart", "waitData", "waitEnd"}
Active    == Waiting \cup {"prompt", "start", "data", "end"}
Receiving == {"start", "data", "end", "install"}
Listening == {"window", "start", "data", "end"}

Init ==
    /\ pst = "idle" /\ file = NoFile /\ sent = 0 /\ toMcu = <<>> /\ toPc = <<>>
    /\ mode = "boot" /\ rdr = "none" /\ overrun = FALSE
    /\ total = 0 /\ got = <<>> /\ endSeq = 0
    /\ sessions = 0 /\ faults = 0 /\ resets = 0
    /\ disturbed = FALSE /\ ended = {} /\ installed = {} /\ landed = NoFile

Prompted == \E i \in 1..Len(toPc) : toPc[i].cmd = "PROMPT"

(* The device waits for this session, or the PC has seen it do so.         *)
Handshaking == pst \in Active /\ (pst = "prompt" => Prompted)

-----------------------------------------------------------------------------
(* The sender.                                                             *)

Send(cmd, seq, size, data) ==
    toMcu' = Append(toMcu, [cmd |-> cmd, seq |-> seq, size |-> size, data |-> data])

(* A user starts the tool, which sleeps for 0.2 s and then clears its      *)
(* input buffer.  What an older session wrote has left the line by then.   *)
NewSession ==
    /\ pst \notin Active /\ sessions < MaxSessions /\ toMcu = <<>>
    /\ sessions' = sessions + 1
    /\ pst' = "prompt" /\ file' \in Files /\ sent' = 0 /\ toPc' = <<>> /\ landed' = NoFile
    /\ disturbed' = (rdr # "none" \/ overrun)
    /\ UNCHANGED <<toMcu, uart, device, faults, resets, ended, installed>>

Stop(result) == pst' = result
Kill ==
    /\ pst \in Active /\ Stop("idle")
    /\ UNCHANGED <<file, sent, toMcu, toPc, uart, device, budget, history>>

(* wait_for_boot_prompt reads whatever is there, statuses of an older      *)
(* session included, until it has seen the prompt.                         *)
ReadPrompt ==
    /\ pst = "prompt"
    /\ \E n \in 1..Len(toPc) :
         /\ toPc' = SubSeq(toPc, n + 1, Len(toPc))
         /\ IF \E i \in 1..n : toPc[i].cmd = "PROMPT"
              THEN Send("u", 0, 0, NoChunk) /\ pst' = "start"
              ELSE UNCHANGED <<toMcu, pst>>
    /\ UNCHANGED <<file, sent, uart, device, budget, history>>

SendStart ==
    /\ pst = "start" /\ pst' = "waitStart"
    /\ Send("START", 0, FrameCount[file], NoChunk)
    /\ UNCHANGED <<file, sent, toPc, uart, device, budget, history>>

SendData ==
    /\ pst = "data" /\ pst' = "waitData"
    /\ Send("DATA", sent % SeqMod, 0, <<file, sent + 1>>)
    /\ UNCHANGED <<file, sent, toPc, uart, device, budget, history>>

SendEnd ==
    /\ pst = "end" /\ pst' = "waitEnd" /\ ended' = ended \cup {file}
    /\ Send("END", sent % SeqMod, 0, NoChunk)
    /\ UNCHANGED <<file, sent, toPc, uart, device, budget, disturbed, installed, landed>>

AwaitedSeq == IF pst = "waitStart" THEN 0 ELSE sent % SeqMod

Refused(s) == FALSE    \* mutant: log text is taken for a damaged status
Skipped(s) == s.cmd \in {"PROMPT", "TEXT"}

Acknowledged ==
    \/ pst = "waitStart" /\ pst' = "data" /\ UNCHANGED sent
    \/ /\ pst = "waitData" /\ sent' = sent + 1
       /\ pst' = IF sent + 1 < FrameCount[file] THEN "data" ELSE "end"
    \/ pst = "waitEnd" /\ Stop("ok") /\ UNCHANGED sent

(* wait_ack: text is skipped; anything but an ACK with the number of the   *)
(* last frame ends the tool.                                               *)
ReadStatus ==
    /\ pst \in Waiting /\ toPc # <<>> /\ toPc' = Tail(toPc)
    /\ LET s == Head(toPc)
           acknowledges == s.cmd = "ACK" /\ s.seq = AwaitedSeq IN
         \/ Skipped(s) /\ UNCHANGED <<pst, sent>>
         \/ ~Skipped(s) /\ acknowledges /\ Acknowledged
         \/ ~Skipped(s) /\ ~acknowledges /\ Stop("failed") /\ UNCHANGED sent
    /\ UNCHANGED <<file, toMcu, uart, device, budget, history>>

NeverGivesUp == pst = "prompt"    \* mutant: no deadline in read_status
GivesUp == pst \in Waiting \cup {"prompt"}

(* 10 s without a prompt, or 60 s without a status, whatever text comes:   *)
(* longer than any frame, erase or verification takes.                     *)
PcTimeout ==
    /\ GivesUp /\ toMcu = <<>> /\ mode # "install"
    /\ IF pst = "prompt" THEN ~Prompted ELSE \A i \in 1..Len(toPc) : Skipped(toPc[i])
    /\ Stop("failed") /\ disturbed' = TRUE
    /\ UNCHANGED <<file, sent, toMcu, toPc, uart, device, budget, ended, installed, landed>>

-----------------------------------------------------------------------------
(* The line.                                                               *)

Damage ==
    /\ toMcu # <<>> /\ Head(toMcu).cmd # "BAD"
    /\ faults < MaxFaults /\ faults' = faults + 1 /\ disturbed' = TRUE
    /\ toMcu' = [toMcu EXCEPT ![1].cmd = "BAD", ![1].data = NoChunk]
    /\ UNCHANGED <<pc, toPc, uart, device, sessions, resets, ended, installed, landed>>

(* What is left of a frame whose first byte, or none, has been read.       *)
Pending(f) ==
    /\ rdr' = IF rdr # "none" THEN rdr ELSE IF f.cmd = "u" THEN "u" ELSE "byte"
    /\ overrun' = (overrun \/ rdr # "none" \/ f.cmd # "u")

(* A frame comes while nobody polls: the register keeps one byte of it,    *)
(* or nothing when the UART is off or the application reads it.            *)
Missed ==
    /\ mode \notin Listening /\ toMcu # <<>> /\ toMcu' = Tail(toMcu)
    /\ \/ mode \in {"pause", "install"} /\ Pending(Head(toMcu))
       \/ mode \in {"boot", "app"} /\ UNCHANGED uart
    /\ UNCHANGED <<pc, toPc, device, budget, history>>

-----------------------------------------------------------------------------
(* The device.                                                             *)

Fault == faults < MaxFaults /\ faults' = faults + 1 /\ disturbed' = TRUE
NoFault == UNCHANGED <<faults, disturbed>>

(* Prompts that follow each other count as one text.                       *)
Post(cmd, seq) ==
    LET item == [cmd |-> cmd, seq |-> seq]
        repeated == cmd = "PROMPT" /\ toPc # <<>> /\ toPc[Len(toPc)] = item IN
    toPc' = IF pst \in Active /\ ~repeated THEN Append(toPc, item) ELSE toPc

(* uart_send_status: its result is not looked at.                          *)
Reply(cmd, seq) == \/ Post(cmd, seq) /\ NoFault
                   \/ Fault /\ (Post("BAD", seq) \/ UNCHANGED toPc)

Forget == total' = 0 /\ got' = <<>> /\ endSeq' = 0
Leave == mode' = "pause" /\ Forget

Expected == Len(got) % SeqMod

Unchanged == UNCHANGED <<pc, sessions, resets, ended>>

(* A boot ends in ota_wait_for_update or, by its external caller, in an    *)
(* application.                                                            *)
StartApp ==
    /\ mode = "boot" /\ mode' = "app"
    /\ UNCHANGED <<pc, toMcu, toPc, uart, stream, budget, history>>

OpenWindow ==
    /\ mode \in {"boot", "pause"} /\ mode' = "window" /\ Post("PROMPT", 0)
    /\ UNCHANGED <<pc, toMcu, uart, stream, budget, history>>

EnterReceiver == mode' = "start" /\ Post("TEXT", 0)
Decline == mode' = "pause" /\ UNCHANGED toPc

(* One byte decides: a stale one from the register, an overrun error, or   *)
(* the first of what comes.  A stale byte of a frame can be any.           *)
ReadWindow ==
    /\ mode = "window"
    /\ \/ /\ rdr # "none" /\ rdr' = "none" /\ UNCHANGED <<toMcu, overrun>>
          /\ EnterReceiver \/ (rdr = "byte" /\ Decline)
       \/ /\ rdr = "none" /\ overrun /\ overrun' = FALSE
          /\ Decline /\ UNCHANGED <<rdr, toMcu>>
       \/ /\ rdr = "none" /\ ~overrun /\ toMcu # <<>> /\ toMcu' = Tail(toMcu)
          /\ IF Head(toMcu).cmd = "u"
               THEN EnterReceiver /\ UNCHANGED uart
               ELSE Decline /\ Pending(Head(toMcu))
    /\ UNCHANGED <<pc, stream, budget, history>>

(* Nothing comes in a whole second; a frame is on the line for far less.   *)
WindowExpires ==
    /\ mode = "window" /\ rdr = "none" /\ ~overrun /\ toMcu = <<>>
    /\ mode' = "pause"
    /\ disturbed' = (disturbed \/ Handshaking)
    /\ UNCHANGED <<pc, toMcu, toPc, uart, stream, budget, ended, installed, landed>>

(* An error status and the way out.  A flash error refuses anything; the   *)
(* checks of header, key, signature, tag and hash refuse what is wrong.    *)
Refuse(wrong, seq) ==
    /\ Leave
    /\ \/ wrong /\ Reply("ERROR", seq)
       \/ ~wrong /\ Fault /\ Post("ERROR", seq)

(* The frames so far are the beginning of one good file.                   *)
Intact(s, f) == Len(s) <= FrameCount[f] /\ \A i \in 1..Len(s) : s[i] = <<f, i>>

TakeStart(f) ==
    IF f.size \in ValidSizes
      THEN /\ Reply("ACK", f.seq) /\ mode' = "data"
           /\ total' = f.size /\ got' = <<>> /\ UNCHANGED endSeq
      ELSE Refuse(TRUE, f.seq)

IgnoreCrc(f) == f.cmd \in {"DATA", "BAD"} /\ f.seq = Expected    \* mutant
Acceptable(f) == f.cmd = "DATA" /\ f.seq = Expected

NextSeq(f) == (f.seq + 1) % SeqMod    \* mutant: expected_seq++ before the ACK
AckSeq(f) == f.seq

(* Wrong frames may pass for a while, and are refused sooner or later.     *)
TakeData(f) ==
    LET s == Append(got, f.data)
        good == \E g \in Good : Intact(s, g) /\ FrameCount[g] = total IN
    \/ /\ got' = s /\ mode' = (IF Len(s) < total THEN "data" ELSE "end")
       /\ Reply("ACK", AckSeq(f)) /\ UNCHANGED <<total, endSeq>>
    \/ Refuse(~good, f.seq)

(* Mutant: END is acknowledged before the image is installed.              *)
AcknowledgeFirst(f) ==
    mode' = "install" /\ endSeq' = f.seq /\ Post("ACK", f.seq) /\ NoFault /\ UNCHANGED <<total, got>>
(* END is taken whatever its number.                                       *)
AcceptEnd(f) ==
    mode' = "install" /\ endSeq' = f.seq /\ NoFault /\ UNCHANGED <<toPc, total, got>>

TakeFrame(f) ==
    \/ mode = "start" /\ f.cmd = "START" /\ TakeStart(f)
    \/ mode = "start" /\ f.cmd # "START" /\ Refuse(TRUE, 0)
    \/ mode = "data" /\ Acceptable(f) /\ TakeData(f)
    \/ mode = "data" /\ ~Acceptable(f) /\ Refuse(TRUE, Expected)
    \/ mode = "end" /\ f.cmd = "END" /\ AcceptEnd(f)
    \/ mode = "end" /\ f.cmd # "END" /\ Refuse(TRUE, Expected)

(* Of a damaged frame the rest may come after it has been given up.        *)
ReadFrame ==
    /\ mode \in Listening \ {"window"} /\ ~overrun /\ toMcu # <<>>
    /\ toMcu' = Tail(toMcu) /\ TakeFrame(Head(toMcu))
    /\ UNCHANGED uart \/ (Head(toMcu).cmd = "BAD" /\ Pending(Head(toMcu)))
    /\ Unchanged /\ UNCHANGED <<installed, landed>>

ReadOverrun ==
    /\ mode \in Listening \ {"window"} /\ overrun /\ overrun' = FALSE
    /\ Refuse(TRUE, IF mode = "start" THEN 0 ELSE Expected)
    /\ Unchanged /\ UNCHANGED <<toMcu, rdr, installed, landed>>

(* Mutant: END is waited for without a timeout.                            *)
ExpiresInData == mode \in {"start", "data"}
Expires == mode \in Listening \ {"window"}

(* Nothing arrives for OTA_UART_TIMEOUT_MS.                                *)
McuTimeout ==
    /\ Expires /\ toMcu = <<>> /\ ~overrun
    /\ Leave /\ disturbed' = (disturbed \/ Handshaking)
    /\ \/ Post("ERROR", Expected) /\ UNCHANGED faults
       \/ faults < MaxFaults /\ faults' = faults + 1 /\ UNCHANGED toPc
    /\ Unchanged /\ UNCHANGED <<toMcu, uart, installed, landed>>

Complete(f) == Intact(got, f) /\ Len(got) = FrameCount[f]

Restart ==
    /\ mode' = "boot" /\ Forget /\ rdr' = "none" /\ overrun' = FALSE

(* Tag, hash, manifest, verification and metadata, the final ACK, a reset. *)
Commit(f) ==
    /\ f \in Good /\ Complete(f)
    /\ installed' = installed \cup {f} /\ landed' = f
    /\ Reply("ACK", endSeq) /\ Restart

Install ==
    /\ mode = "install"
    /\ \/ \E f \in Good : Commit(f)
       \/ /\ Refuse(~\E f \in Good : Complete(f), endSeq)
          /\ UNCHANGED <<uart, installed, landed>>
    /\ Unchanged /\ UNCHANGED toMcu

Reset ==
    /\ resets < MaxResets /\ resets' = resets + 1 /\ Restart
    /\ disturbed' = (disturbed \/ Handshaking)
    /\ UNCHANGED <<pc, toMcu, toPc, sessions, faults, ended, installed, landed>>

-----------------------------------------------------------------------------
Sender == ReadPrompt \/ SendStart \/ SendData \/ SendEnd \/ ReadStatus \/ PcTimeout

Mcu == \/ StartApp \/ OpenWindow \/ ReadWindow \/ WindowExpires
       \/ ReadFrame \/ ReadOverrun \/ McuTimeout \/ Install

Next == Sender \/ Mcu \/ Missed \/ NewSession \/ Kill \/ Damage \/ Reset

(* Both programs run, every wait of theirs has a deadline, on the PC one   *)
(* that text does not put off, and the line carries what is written to it. *)
Fairness == WF_vars(Sender) /\ WF_vars(PcTimeout) /\ WF_vars(Mcu) /\ WF_vars(Missed)

Spec == Init /\ [][Next]_vars /\ Fairness

-----------------------------------------------------------------------------
(* Properties.                                                             *)

(* Each status that waits for the PC while it waits for one answers its    *)
(* last frame: none is left over from an older frame or session, so that   *)
(* the strict comparison in wait_ack never meets another number.           *)
InStep ==
    pst \in Waiting => \A i \in 1..Len(toPc) :
        toPc[i].cmd = "ACK" => toPc[i].seq = AwaitedSeq /\ toMcu = <<>>

(* What the receiver holds of a session under way is its file, up to the   *)
(* frame acknowledged last or one further, although the code of an ACK is  *)
(* not compared and the number of END is not checked.                      *)
StreamsAgree ==
    pst \in Active /\ sent > 0 /\ mode \in {"data", "end", "install"} =>
        /\ \A i \in 1..Len(got) : got[i] = <<file, i>>
        /\ Len(got) \in {sent, sent + 1}

(* If nothing is damaged, late or reset, a good file gets through, even    *)
(* when the receiver is still busy with an older session.                  *)
UndisturbedSucceeds ==
    pst = "failed" /\ file \in Good /\ FrameCount[file] \in ValidSizes => disturbed

(* The transfer over UART implements the promise of a transfer.            *)
UT == INSTANCE UpdateTransfer WITH sender <- IF pst \in Active THEN "active" ELSE pst
ImplementsTransfer == UT!Spec

(* Every run of the tool ends.                                             *)
SenderEnds == pst \in Active ~> pst \notin Active

(* The receiver does not stay in update mode, whatever senders do.         *)
ReceiverReturns == mode \in Receiving ~> mode \notin Receiving
=============================================================================
