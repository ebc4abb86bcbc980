----------------------------- MODULE F32cUpload -----------------------------
(***************************************************************************)
(* f32c_exec_binary (f32cup.cpp): a binary is sent to the f32c core over a *)
(* serial line, block by block. Each block is sent until the core's        *)
(* checksum of it comes back, and behind the last the core is told to      *)
(* jump. Anything may be lost on the line, and replies may be late. The    *)
(* functions that should empty the serial buffers are empty themselves, so *)
(* that a late reply answers a later request.                              *)
(*                                                                         *)
(* A checksum is sent in two parts, here and in the code's four bytes. The *)
(* core and the line are external.                                         *)
(***************************************************************************)
EXTENDS Integers, Sequences

CONSTANTS
  Blocks,      \* of the file
  Sum,         \* [1 .. Blocks -> the checksum of the block]
  Retry_block, Retry_crc,
  MaxRx,       \* parts that the receiver's buffer can hold
  ZERO,        \* the checksum of an empty block
  BAD          \* that of a block that was garbled, and of other text

ASSUME UploadAssumption ==
  /\ Blocks \in Nat \ {0} /\ Retry_block \in Nat \ {0} /\ Retry_crc \in Nat \ {0}
  /\ MaxRx \in Nat \ {0}
  /\ BAD # ZERO /\ \A b \in 1 .. Blocks : Sum[b] # BAD

Block == 1 .. Blocks
Checksums == {Sum[b] : b \in Block} \union {ZERO, BAD}

VARIABLES
  pc, block,    \* the block in hand
  empty,        \* it has no bytes, because the card was taken away
  retry_block, retry_crc,
  block_retval,
  cut,          \* SD.end() was called under the file: it has bytes, and gives none
  rx,           \* parts of replies sent and not read yet
  held,         \* the block the core received last, 0 for another upload's or an empty one,
  held_sum,     \* ... and its checksum
  memory,       \* of the core: the block is there, or not, or garbled
  before,       \* history: held_sum when the upload began
  trust,        \* history: what made the uploader accept a block
  fault,        \* history: something was lost, garbled or late, or lay in the line before
  jumped        \* history

control == <<pc, block, empty, retry_block, retry_crc, block_retval, cut>>
core    == <<held, held_sum, memory>>
vars == <<control, rx, core, before, trust, fault, jumped>>

Part == [sum : Checksums, half : {1, 2}, fresh : BOOLEAN]

TypeOK ==
  /\ pc \in {"file", "prompt", "block", "checksum", "done"}
  /\ block \in 1 .. Blocks + 1
  /\ empty \in BOOLEAN /\ cut \in BOOLEAN /\ fault \in BOOLEAN /\ jumped \in BOOLEAN
  /\ retry_block \in 0 .. Retry_block /\ retry_crc \in 0 .. Retry_crc /\ block_retval \in {0, 1}
  /\ rx \in Seq(Part)
  /\ held \in 0 .. Blocks /\ held_sum \in Checksums /\ before \in Checksums
  /\ memory \in [Block -> {"none", "good", "garbled"}]
  /\ trust \in [Block -> {"none", "fresh", "stale", "unread"}]

Init ==
  /\ pc = "file" /\ block = 1 /\ empty = FALSE /\ retry_block = 0 /\ retry_crc = 0
  /\ block_retval = 1 /\ cut = FALSE /\ rx = <<>>
  /\ held = 0 /\ held_sum \in Checksums /\ before = held_sum
  /\ memory = [b \in Block |-> "none"] /\ trust = [b \in Block |-> "none"]
  /\ fault = FALSE /\ jumped = FALSE

-----------------------------------------------------------------------------
(* The loop of f32c_exec_binary: the next block is read from the file.     *)
ReadBlock ==
  /\ pc = "file"
  /\ IF block <= Blocks /\ block_retval = 1
       THEN /\ empty' = cut /\ retry_block' = Retry_block
            /\ pc' = IF block = 1 THEN "prompt" ELSE "block"
       ELSE pc' = "done" /\ UNCHANGED <<empty, retry_block>>
  /\ UNCHANGED <<block, retry_crc, block_retval, cut, rx, core, before, trust, fault, jumped>>

Junk == [sum |-> BAD, half |-> 1, fresh |-> FALSE]

(* try_to_get_prompt, before each sending of the first block. What it      *)
(* reads is dropped; more text than it reads may follow. Whether a prompt  *)
(* is found or not, the block is sent.                                     *)
Prompt ==
  /\ pc = "prompt"
  /\ rx' \in {<<>>, <<Junk>>, rx}
  /\ fault' = (fault \/ rx' # <<>>)
  /\ pc' = "block"
  /\ UNCHANGED <<block, empty, retry_block, retry_crc, block_retval, cut, core, before, trust, jumped>>

(* A block arrives, or is garbled, or the core does not see its command.   *)
SendBlock ==
  /\ pc = "block"
  /\ \/ /\ ~empty /\ held' = block /\ held_sum' = Sum[block]
        /\ memory' = [memory EXCEPT ![block] = "good"] /\ UNCHANGED fault
     \/ /\ ~empty /\ held' = block /\ held_sum' = BAD
        /\ memory' = [memory EXCEPT ![block] = "garbled"] /\ fault' = TRUE
     \/ /\ empty /\ held' = 0 /\ held_sum' = ZERO
        /\ UNCHANGED <<memory, fault>>
     \/ fault' = TRUE /\ UNCHANGED core
  /\ rx' = [i \in DOMAIN rx |-> [rx[i] EXCEPT !.fresh = FALSE]]
  /\ retry_crc' = Retry_crc /\ pc' = "checksum"
  /\ UNCHANGED <<block, empty, retry_block, block_retval, cut, before, trust, jumped>>

-----------------------------------------------------------------------------
Expected == IF empty THEN ZERO ELSE Sum[block]

(* Mutant: one block early.                                                *)
LastBlockEarly == block + 1 >= Blocks

LastBlock == block = Blocks

(* Mutant: the counter is not counted.                                     *)
RefusedForEver ==
  /\ pc' = IF block = 1 THEN "prompt" ELSE "block"
  /\ UNCHANGED <<retry_block, block, block_retval, trust, jumped>>

(* Mutant: the block's failure is not the upload's.                        *)
RefusedQuietly ==
  /\ retry_block' = retry_block - 1
  /\ IF retry_block > 1 THEN pc' = (IF block = 1 THEN "prompt" ELSE "block")
     ELSE pc' = "done"
  /\ UNCHANGED <<block, block_retval, trust, jumped>>

(* The checksum is another: the block is sent again, or given up.          *)
Refused ==
  /\ retry_block' = retry_block - 1
  /\ IF retry_block > 1
       THEN pc' = (IF block = 1 THEN "prompt" ELSE "block") /\ UNCHANGED block_retval
       ELSE pc' = "file" /\ block_retval' = 0
  /\ UNCHANGED <<block, trust, jumped>>

(* The next block, and behind the last the jump. An empty block leaves the *)
(* index where it is.                                                      *)
Accepted(why) ==
  /\ IF empty THEN UNCHANGED <<block, trust, jumped>>
     ELSE block' = block + 1 /\ trust' = [trust EXCEPT ![block] = why] /\ jumped' = (jumped \/ LastBlock)
  /\ pc' = "file" /\ retry_block' = 0 /\ UNCHANGED block_retval

Compared(sum, why) == IF sum = Expected THEN Accepted(why) ELSE Refused

(* Two parts are one checksum if they are the halves of one.               *)
SumOf(first, second) ==
  IF first.sum = second.sum /\ first.half = 1 /\ second.half = 2 THEN first.sum ELSE BAD

Halves == [h \in {1, 2} |-> [sum |-> held_sum, half |-> h, fresh |-> TRUE]]
Replies == {<<>>, <<Halves[1]>>, <<Halves[2]>>, <<Halves[1], Halves[2]>>}

(* One round of receive_crc: the request, and what comes before the        *)
(* timeout. After the last round a value is compared of which bytes, or    *)
(* all, were never read.                                                   *)
ReceiveCrc ==
  /\ pc = "checksum"
  /\ \E reply \in Replies, taken \in 0 .. 2 :
       LET line == rx \o reply
       IN  /\ Len(line) <= MaxRx /\ taken <= Len(line)
           /\ rx' = SubSeq(line, taken + 1, Len(line))
           /\ fault' = (fault \/ Len(reply) < 2 \/ taken < 2)
           /\ IF taken = 2
                THEN /\ Compared(SumOf(line[1], line[2]),
                                 IF line[1].fresh /\ line[2].fresh THEN "fresh" ELSE "stale")
                     /\ retry_crc' = 0
              ELSE IF retry_crc > 1
                THEN /\ retry_crc' = retry_crc - 1
                     /\ UNCHANGED <<pc, block, retry_block, block_retval, trust, jumped>>
              ELSE /\ (Accepted("unread") \/ Refused)
                   /\ retry_crc' = 0
  /\ UNCHANGED <<empty, cut, core, before>>

Upload == ReadBlock \/ Prompt \/ SendBlock \/ ReceiveCrc

(* The network task unmounts the card.                                     *)
Cut ==
  /\ pc # "done" /\ ~cut
  /\ cut' = TRUE
  /\ UNCHANGED <<pc, block, empty, retry_block, retry_crc, block_retval, rx, core, before, trust,
                 fault, jumped>>

(* Another binary is executed; the line and the core are as they were.     *)
Again ==
  /\ pc = "done"
  /\ pc' = "file" /\ block' = 1 /\ empty' = FALSE /\ block_retval' = 1 /\ cut' = FALSE
  /\ held' = 0 /\ before' = held_sum
  /\ memory' = [b \in Block |-> "none"] /\ trust' = [b \in Block |-> "none"]
  /\ fault' = (rx # <<>>) /\ jumped' = FALSE
  /\ UNCHANGED <<retry_block, retry_crc, rx, held_sum>>

Next == Upload \/ Cut \/ Again

Spec == Init /\ [][Next]_vars

(* Each read has a timeout.                                                *)
FairSpec == Spec /\ WF_vars(Upload)

-----------------------------------------------------------------------------
(* Nothing the core had before has the checksum of the block.              *)
Unmistakable(b) == Sum[b] # before /\ \A c \in 1 .. b - 1 : Sum[c] # Sum[b]

(* The core is made to jump only when every block was accepted; and then   *)
(* every block is in its memory, whatever was lost on the line. But for    *)
(* three cases: all requests for a checksum timed out, and the value that  *)
(* was never read happened to fit; an answer to an earlier request fitted, *)
(* because the buffer is not emptied; a block that was lost has the        *)
(* checksum of an earlier one.                                             *)
JumpIsSafe ==
  jumped => \A b \in Block : /\ trust[b] # "none"
                             /\ trust[b] = "fresh" /\ Unmistakable(b) => memory[b] = "good"

(* f32c_exec_binary returns 1 if and only if it has made the core jump,    *)
(* and does so on a line without faults.                                   *)
VerdictIsHonest ==
  pc = "done" => (block_retval = 1 <=> jumped) /\ (fault \/ cut \/ jumped)

(* It returns, whatever the line does, unless the card is taken away under *)
(* it: then it may send empty blocks for ever.                             *)
UploadEnds == pc # "done" ~> pc = "done" \/ cut
=============================================================================
