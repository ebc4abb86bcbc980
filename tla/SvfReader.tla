----------------------------- MODULE SvfReader ------------------------------
(***************************************************************************)
(* read_command (svf.c), its static variables, and its two callers:        *)
(* libxsvf_svf, which plays a file from beginning to end, and              *)
(* libxsvf_feed, which gets an upload packet by packet. Both use the same  *)
(* statics. A byte is one iteration of read_command's loop; the end of a   *)
(* packet is a byte of value -2 that may come anywhere, the end of a file  *)
(* a byte of value -1.                                                     *)
(*                                                                         *)
(* The interpreter of a command is left out but for its verdict: any       *)
(* command may fail. The command buffer's size is kept, with its growth    *)
(* constants as parameters (64, 96 and 10 in the code).                    *)
(***************************************************************************)
EXTENDS SvfText

CONSTANTS
  Bytes,          \* the character classes of the input (see SvfText)
  Follow(_),      \* Follow(t): the bytes the input may have after t
  MaxText,        \* bound: characters read from one source
  MaxBrackets,    \* bound: nesting of brackets
  CleanHandover,  \* a file is only played when the statics are at rest
  Threshold, FirstSize, Margin   \* len < p+Margin: grow to FirstSize or twofold

ASSUME SizesAssumption ==
  /\ Threshold \in Nat /\ FirstSize \in Nat /\ Margin \in Nat
  /\ Margin >= 3 /\ Threshold >= 2
  /\ FirstSize >= Threshold /\ FirstSize >= Margin
ASSUME BytesAssumption == Bytes \subseteq Char
ASSUME BoundsAssumption == MaxText \in Nat /\ MaxBrackets \in Nat

VARIABLES
  pc,            \* "idle", "packet" or "file" (within read_command), "between" packets
  buf,           \* the p bytes of the command so far: static p is Len(buf)
  len,           \* allocated size of the buffer of the current caller
  braket_mode, comment_mode,   \* the other statics
  rc,            \* libxsvf_feed's static rc: -1 after the first error
  result,        \* what the last source ended with: "none", "ok", "error"
  fed,           \* history: the bytes read from the current source
  out            \* history: the commands given to its interpreter

vars == <<pc, buf, len, braket_mode, comment_mode, rc, result, fed, out>>

UNINIT == "unwritten"   \* a byte of a fresh buffer that was never written

Stored == Bytes \union {"upper", "blank", UNINIT}   \* the bytes a buffer can hold

TypeOK ==
  /\ pc \in {"idle", "packet", "between", "file"}
  /\ buf \in Seq(Stored)
  /\ len \in Nat
  /\ braket_mode \in Int
  /\ comment_mode \in BOOLEAN
  /\ rc \in {0, -1}
  /\ result \in {"none", "ok", "error"}
  /\ fed \in Seq(Bytes)
  /\ out \in Seq(Seq(Stored))

Init ==
  /\ pc = "idle" /\ buf = <<>> /\ len = 0
  /\ braket_mode = 0 /\ comment_mode = FALSE
  /\ rc = 0 /\ result = "none"
  /\ fed = <<>> /\ out = <<>>

-----------------------------------------------------------------------------
(* Mutant: room is made when there is none left.                           *)
GrownLate ==
  IF len > Len(buf) THEN len
  ELSE IF len < Threshold THEN FirstSize ELSE 2 * len

(* Each iteration begins by making room.                                   *)
Grown ==
  IF len >= Len(buf) + Margin THEN len
  ELSE IF len < Threshold THEN FirstSize ELSE 2 * len

EndsIn(ch) == buf # <<>> /\ buf[Len(buf)] = ch

(* buffer[p++] = ' ' between words, outside brackets, never twice.         *)
Separated == IF braket_mode = 0 /\ buf # <<>> /\ ~EndsIn("blank") THEN Append(buf, "blank") ELSE buf

ToUpper(ch) == IF ch = "lower" THEN "upper" ELSE ch

Reading == pc \in {"packet", "file"}

Take(ch) ==
  /\ Reading /\ Len(fed) < MaxText /\ ch \in Follow(fed)
  /\ fed' = Append(fed, ch)
  /\ len' = Grown

Goes(b, brackets, comment) ==
  /\ buf' = b /\ braket_mode' = brackets /\ comment_mode' = comment
  /\ UNCHANGED <<pc, rc, result, out>>

(* In a comment all is skipped up to a control character; the jump to      *)
(* insert_eol then writes no blank, for comment_mode is still set.         *)
Skip(ch) ==
  /\ comment_mode /\ Take(ch)
  /\ Goes(buf, braket_mode, ch # "eol")

Blank(ch) ==
  /\ ~comment_mode /\ ch \in {"blank", "eol"} /\ Take(ch)
  /\ Goes(Separated, braket_mode, FALSE)

BangComment(ch) ==
  /\ ~comment_mode /\ ch = "bang" /\ Take(ch)
  /\ Goes(buf, braket_mode, TRUE)

SlashComment(ch) ==
  /\ ~comment_mode /\ ch = "slash" /\ EndsIn("slash") /\ Take(ch)
  /\ Goes(SubSeq(buf, 1, Len(buf) - 1), braket_mode, TRUE)

OpenBracket(ch) ==
  /\ ~comment_mode /\ ch = "open" /\ braket_mode < MaxBrackets /\ Take(ch)
  /\ Goes(Append(Separated, ch), braket_mode + 1, FALSE)

CloseBracket(ch) ==
  /\ ~comment_mode /\ ch = "close" /\ braket_mode > -MaxBrackets /\ Take(ch)
  /\ Goes(IF braket_mode = 1 THEN buf \o <<ch, "blank">> ELSE Append(buf, ch),
          braket_mode - 1, FALSE)

Word(ch) ==
  /\ ~comment_mode /\ ch \in {"lower", "upper", "slash"} /\ ~(ch = "slash" /\ EndsIn("slash")) /\ Take(ch)
  /\ Goes(Append(buf, ToUpper(ch)), braket_mode, FALSE)

(* ';' returns the command. libxsvf_feed resets all the statics after each *)
(* command, read_command itself only p. An error of the interpreter makes  *)
(* the feed deaf to the rest of the upload, and ends the playing of a file.*)
Deliver ==
  /\ out' = Append(out, buf)
  /\ buf' = <<>>
  /\ braket_mode' = IF pc = "packet" THEN 0 ELSE braket_mode
  /\ comment_mode' = FALSE

CommandRuns(ch) ==
  /\ ~comment_mode /\ ch = "semi" /\ Take(ch)
  /\ Deliver
  /\ UNCHANGED <<pc, rc, result>>

CommandFails(ch) ==
  /\ ~comment_mode /\ ch = "semi" /\ Take(ch)
  /\ Deliver
  /\ \/ pc = "packet" /\ pc' = "between" /\ rc' = -1 /\ UNCHANGED result
     \/ pc = "file" /\ pc' = "idle" /\ result' = "error" /\ UNCHANGED rc

(* realloc fails when an iteration needs more room: p is reset and the     *)
(* caller gets -1; len_p already holds the size that was not granted.      *)
AllocFails ==
  /\ Reading /\ Grown # len
  /\ len' = Grown /\ buf' = <<>>
  /\ \/ /\ pc = "packet" /\ pc' = "between" /\ rc' = -1
        /\ braket_mode' = 0 /\ comment_mode' = FALSE
        /\ UNCHANGED result
     \/ /\ pc = "file" /\ pc' = "idle" /\ result' = "error"
        /\ UNCHANGED <<braket_mode, comment_mode, rc>>
  /\ UNCHANGED <<fed, out>>

-----------------------------------------------------------------------------
(* The first packet of an upload: feed(0), then feed(1). An upload that    *)
(* was never finished is forgotten here.                                   *)
StartUpload ==
  /\ pc \in {"idle", "between"}
  /\ pc' = "packet" /\ rc' = 0 /\ result' = "none"
  /\ buf' = <<>> /\ len' = 0 /\ braket_mode' = 0 /\ comment_mode' = FALSE
  /\ fed' = <<>> /\ out' = <<>>

(* Mutant: p is reset at the end of a packet, as at the end of a file.     *)
PacketEndsReset ==
  /\ pc = "packet"
  /\ pc' = "between" /\ len' = Grown /\ buf' = <<>>
  /\ UNCHANGED <<braket_mode, comment_mode, rc, result, fed, out>>

(* -2: keep p and the modes, try again when the next packet is here.       *)
PacketEnds ==
  /\ pc = "packet"
  /\ pc' = "between" /\ len' = Grown
  /\ UNCHANGED <<buf, braket_mode, comment_mode, rc, result, fed, out>>

NextPacket ==
  /\ pc = "between" /\ rc = 0
  /\ pc' = "packet"
  /\ UNCHANGED <<buf, len, braket_mode, comment_mode, rc, result, fed, out>>

(* The final packet has been read: libxsvf_svf_packet says "Done" unless   *)
(* the feed has failed, and feed(-1) frees the buffer. No static is reset. *)
FinishUpload ==
  /\ pc = "between"
  /\ pc' = "idle"
  /\ result' = IF rc = -1 THEN "error" ELSE "ok"
  /\ UNCHANGED <<buf, len, braket_mode, comment_mode, rc, fed, out>>

(* The connection breaks: no final packet ever comes.                      *)
BreakUpload ==
  /\ pc = "between"
  /\ pc' = "idle" /\ result' = "none"
  /\ UNCHANGED <<buf, len, braket_mode, comment_mode, rc, fed, out>>

(* libxsvf_svf starts with a buffer of its own and the statics as they are:*)
(* if p was left nonzero, the first p bytes of the buffer are not written. *)
StartFile ==
  /\ pc = "idle"
  /\ CleanHandover => buf = <<>> /\ braket_mode = 0 /\ ~comment_mode
  /\ pc' = "file" /\ result' = "none"
  /\ buf' = [k \in 1 .. Len(buf) |-> UNINIT] /\ len' = 0
  /\ fed' = <<>> /\ out' = <<>>
  /\ UNCHANGED <<braket_mode, comment_mode, rc>>

(* Mutant: the end of the file is always fine.                             *)
FileEndsAnyhow ==
  /\ pc = "file"
  /\ pc' = "idle" /\ result' = "ok" /\ len' = Grown
  /\ UNCHANGED <<buf, braket_mode, comment_mode, rc, fed, out>>

(* End of the file: fine when no command has begun, and then the modes     *)
(* stay as they are; otherwise "Unexpected EOF.".                          *)
FileEnds ==
  /\ pc = "file" /\ buf = <<>>
  /\ pc' = "idle" /\ result' = "ok" /\ len' = Grown
  /\ UNCHANGED <<buf, braket_mode, comment_mode, rc, fed, out>>

FileEndsEarly ==
  /\ pc = "file" /\ buf # <<>>
  /\ pc' = "idle" /\ result' = "error" /\ len' = Grown
  /\ buf' = <<>> /\ braket_mode' = 0 /\ comment_mode' = FALSE
  /\ UNCHANGED <<rc, fed, out>>

ReadByte(ch) ==
  \/ Skip(ch) \/ Blank(ch) \/ BangComment(ch) \/ SlashComment(ch)
  \/ OpenBracket(ch) \/ CloseBracket(ch) \/ Word(ch)
  \/ CommandRuns(ch) \/ CommandFails(ch)

Upload == StartUpload \/ PacketEnds \/ NextPacket \/ FinishUpload \/ BreakUpload
File   == StartFile \/ FileEnds \/ FileEndsEarly

Next == (\E ch \in Bytes : ReadByte(ch)) \/ AllocFails \/ Upload \/ File

Spec == Init /\ [][Next]_vars

-----------------------------------------------------------------------------
(* The inductive invariant behind WritesFit.                               *)
BufferInv ==
  /\ TypeOK
  /\ len = 0 \/ len >= FirstSize
  /\ buf # <<>> => len # 0 /\ Len(buf) + Margin <= len + 2

(* No iteration of read_command writes behind its buffer: with the room it *)
(* makes first, the two bytes an iteration may add and the terminator      *)
(* behind them fit, however the bytes are spread over packets.             *)
WritesFit == Reading => Len(buf) + 2 < Grown
-----------------------------------------------------------------------------
Source == INSTANCE SvfSource WITH
            text     <- fed,
            commands <- [n \in DOMAIN out |-> Trimmed(out[n])]

(* The reader implements SvfSource: at every moment the commands it has    *)
(* returned are the commands of the bytes it has read, in packets or from  *)
(* a file, after broken uploads, errors and earlier files; the end of a    *)
(* packet is a stuttering step.                                            *)
ImplementsSource == Source!SourceSpec

(* The end of a file is fine exactly when no command has begun and is not  *)
(* complete (read_command's results 0 and -1).                             *)
FileEndVerdict ==
  [][/\ pc = "file" /\ result' = "ok" => RestOf(fed) = <<>>
     /\ FileEndsEarly => RestOf(fed) # <<>> ]_vars

(* The same of an upload: it is not "Done" while a command is unfinished.  *)
UploadEndVerdict ==
  pc = "idle" /\ result = "ok" => RestOf(fed) = <<>>
=============================================================================
