----------------------------- MODULE SvfSource ------------------------------
(***************************************************************************)
(* What the players expect of a source of SVF text: it is read a character *)
(* at a time, and the commands taken from it are always those of the text  *)
(* read so far. None is lost, repeated, cut or glued to another, whatever  *)
(* the chunks the text arrives in.                                         *)
(***************************************************************************)
EXTENDS SvfText

VARIABLES text,      \* what has been read from the current source
          commands   \* the commands taken from it

SourceInit == text = <<>> /\ commands = <<>>

(* Another source is opened.                                               *)
OpenSource == text' = <<>> /\ commands' = <<>>

ReadOne ==
  /\ \E ch \in Char : text' = Append(text, ch)
  /\ commands' = CommandsOf(text')

SourceSpec == SourceInit /\ [][OpenSource \/ ReadOne]_<<text, commands>>
=============================================================================
