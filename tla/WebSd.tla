-------------------------------- MODULE WebSd --------------------------------
(***************************************************************************)
(* The two tasks of websvf_sd: loop(), which programs files on request and *)
(* otherwise looks at the keys, and the network task, which runs the web   *)
(* handlers one after the other. They share the requests, the file name,   *)
(* the SD card with sd_mounted, and the OLED, without any lock.            *)
(*                                                                         *)
(* at[t] is the statement task t runs next; Then and Fails say which one   *)
(* follows it. within[t] is how far sd_mount or sd_unmount has got, if the *)
(* statement calls one. Uploads come one at a time, whole or broken off:   *)
(* what overlapping ones do to each other is SvfSession's subject.         *)
(***************************************************************************)
EXTENDS Integers, Sequences

CONSTANTS
  Pieces,   \* packets of an upload
  Blocks,   \* blocks of a file that is programmed
  Files,    \* SVF files on the card
  F32C,     \* the one of them that f32c binaries need
  NONE

ASSUME WebAssumption == {Pieces, Blocks} \subseteq Nat \ {0} /\ F32C \in Files /\ NONE \notin Files

Tasks == {"loop", "net"}

VARIABLES
  at, within,
  sd_mounted, begun,   \* what storage.cpp believes, and the SD library's state
  sd_program_activate, spiffs_program_activate, sd_binary_file_activate,
  sd_file_name_svf,
  typed,               \* the file name in the request being handled
  file, index,         \* the file loop() reads, and how far it is
  sd_detach,
  oled,                \* oled_begin_done
  sent, saves,         \* packets of the running upload, whether its form names a directory
  write_error, save_file,    \* statics of the upload handler
  went,                \* history: where the pieces of the upload went
  inherited,           \* history: save_file was open when the upload began
  kept,                \* history: a handler has left the card mounted on purpose
  fresh                \* history: a file name was assigned, for which no file was opened since

requests == <<sd_program_activate, spiffs_program_activate, sd_binary_file_activate,
              sd_file_name_svf, typed, fresh>>
card     == <<sd_mounted, begun, kept>>
reading  == <<file, index>>
display  == <<sd_detach, oled>>
upload   == <<sent, saves, write_error, went, inherited>>
running  == <<at, within>>
vars == <<running, requests, card, reading, display, upload, save_file>>

(* The statements that reach the card, the OLED or the requests, by the    *)
(* function that runs them: loop() and what it calls, the web handlers.    *)
Mounting   == {"svf_mount", "bin_mount", "exec_mount", "dir_mount", "dl_mount", "change_mount", "save_mount"}
Unmounting == {"svf_close", "svf_unmount", "bin_close", "bin_unmount", "exec_unmount", "dir_unmount",
               "change_unmount", "change_failed", "save_failed"}
Listing    == {"dir_mount", "dir_unmount", "dir_show"}
LoopLabels ==
  {"svf_mount", "svf_program", "svf_play", "svf_close", "svf_detach", "svf_unmount", "programmed",
   "bin_mount", "bin_program", "bin_play", "bin_close", "bin_detach", "bin_unmount",
   "exec_mount", "exec_binary", "send", "exec_unmount", "executed",
   "passthru_program", "passthru_play", "passthru", "idle"} \union Listing
NetLabels ==
  {"name", "request_svf", "request_first", "command", "request_passthru", "name_f32c", "request_bin",
   "init_oled", "dl_mount", "keep", "change_mount", "change", "change_unmount", "change_failed",
   "save_mount", "save", "save_failed", "piece", "answer", "idle"} \union Listing
Labels == LoopLabels \union NetLabels

mount_read_directory(l) ==
  CASE l = "dir_mount"   -> "dir_unmount"
    [] l = "dir_unmount" -> "dir_show"
    [] OTHER             -> "idle"

(* Mutant: first the request, then its file.                               *)
handle_svf_first(l) ==
  CASE l = "idle" -> "request_svf" [] l = "request_svf" -> "name" [] OTHER -> "idle"

handle_svf(l) == CASE l = "idle" -> "name" [] l = "name" -> "request_svf" [] OTHER -> "idle"

(* Mutant: the listing is shown where the browser had it.                  *)
change_unprepared == "dir_mount"

change_shown == "init_oled"

handle_mkdir(l) ==
  CASE l = "change_mount"   -> "change"
    [] l = "change"         -> "change_unmount"
    [] l = "change_unmount" -> change_shown
    [] l = "init_oled"      -> "dir_mount"
    [] OTHER                -> mount_read_directory(l)

CommandLine(l) == IF l = "request_first" THEN "command" ELSE "idle"
handle_bin(l)  == IF l = "name_f32c" THEN "request_bin" ELSE "idle"
handle_dl(l)   == IF l = "dl_mount" THEN "keep" ELSE "idle"

handle_file_upload(l) ==
  CASE l = "save_mount"               -> "save"
    [] l \in {"save", "save_failed"} -> "piece"
    [] l = "piece"                    -> "answer"
    [] OTHER                          -> "idle"

HandlerThen(l) ==
  CASE l \in {"request_first", "command", "request_passthru"} -> CommandLine(l)
    [] l \in {"name", "request_svf"}                          -> handle_svf(l)
    [] l \in {"name_f32c", "request_bin"}                     -> handle_bin(l)
    [] l \in {"dl_mount", "keep"}                             -> handle_dl(l)
    [] l \in {"save_mount", "save", "save_failed", "piece", "answer"} -> handle_file_upload(l)
    [] OTHER                                                  -> handle_mkdir(l)

program_file(l) ==
  CASE l = "svf_program"      -> "svf_play"
    [] l = "svf_play"         -> "svf_close"
    [] l = "svf_close"        -> "svf_detach"
    [] l = "bin_program"      -> "bin_play"
    [] l = "bin_play"         -> "bin_close"
    [] l = "bin_close"        -> "bin_detach"
    [] l = "passthru_program" -> "passthru_play"
    [] OTHER                  -> mount_read_directory(l)

LoopThen(l) ==
  CASE l = "svf_mount"     -> "svf_program"
    [] l = "svf_detach"    -> "svf_unmount"
    [] l = "svf_unmount"   -> "programmed"
    [] l = "bin_mount"     -> "bin_program"
    [] l = "bin_detach"    -> "bin_unmount"
    [] l = "bin_unmount"   -> "exec_mount"
    [] l = "exec_mount"    -> "exec_binary"
    [] l = "exec_binary"   -> "send"
    [] l = "send"          -> "exec_unmount"
    [] l = "exec_unmount"  -> "executed"
    [] l = "passthru_play" -> "passthru"
    [] l = "passthru"      -> "dir_mount"
    [] OTHER               -> program_file(l)

(* The statement that follows l, and the one behind it if it fails: if the *)
(* card cannot be mounted, or a file not be opened.                        *)
Then(l) == IF l \in LoopLabels THEN LoopThen(l) ELSE HandlerThen(l)
LoopFails(l) ==
  CASE l = "svf_mount"        -> "programmed"
    [] l = "svf_program"      -> "svf_unmount"
    [] l = "bin_mount"        -> "exec_mount"
    [] l = "bin_program"      -> "bin_unmount"
    [] l = "exec_mount"       -> "executed"
    [] l = "exec_binary"      -> "exec_unmount"
    [] l = "passthru_program" -> "passthru"
    [] OTHER                  -> "idle"
UploadFails(l) ==
  CASE l = "save_mount" -> "piece" [] l = "save" -> "save_failed" [] OTHER -> "idle"
HandlerFails(l) == IF l = "change" THEN "change_failed" ELSE UploadFails(l)
Fails(l) == IF l \in LoopLabels THEN LoopFails(l) ELSE HandlerFails(l)

Handles == {"none", "open", "dead"}   \* a handle is dead when SD.end() was called under it

Phases == {"begin", "mounted", "unmounted", "end"}

TypeOK ==
  /\ at \in [Tasks -> Labels] /\ at["loop"] \in LoopLabels /\ at["net"] \in NetLabels
  /\ within \in [Tasks -> Phases]
  /\ {sd_mounted, begun, sd_program_activate, spiffs_program_activate,
      sd_binary_file_activate, sd_detach, oled} \subseteq BOOLEAN
  /\ sd_file_name_svf \in Files /\ typed \in Files \union {NONE}
  /\ file \in Handles \union {"flash"} /\ index \in 0 .. Blocks - 1
  /\ save_file \in Handles /\ sent \in 0 .. Pieces

(* What setup() leaves: the card is released. If nobody else used it, the  *)
(* OLED shows the address, and autoexec.bin may ask for its execution.     *)
OledShows == oled \in BOOLEAN

Init ==
  /\ at = [t \in Tasks |-> "idle"] /\ within = [t \in Tasks |-> "begin"]
  /\ sd_mounted = FALSE /\ begun = FALSE /\ kept = FALSE
  /\ OledShows /\ sd_binary_file_activate \in {FALSE, oled}
  /\ sd_program_activate = FALSE /\ spiffs_program_activate = FALSE
  /\ sd_file_name_svf = F32C /\ typed = NONE /\ fresh = FALSE
  /\ file = "none" /\ index = 0 /\ sd_detach = TRUE
  /\ sent = 0 /\ saves = FALSE /\ write_error = 0 /\ save_file = "none"
  /\ went = <<>> /\ inherited = FALSE

-----------------------------------------------------------------------------
At(t, step) == at[t] = step /\ within[t] = "begin"
Moves(t, step) == at' = [at EXCEPT ![t] = step] /\ within' = [within EXCEPT ![t] = "begin"]
Goes(t)  == Moves(t, Then(at[t]))
Leaves(t) == Moves(t, Fails(at[t]))
Enters(t, phase) == within' = [within EXCEPT ![t] = phase] /\ UNCHANGED at

-----------------------------------------------------------------------------
(* SD.end() closes every file under its handle, whoever opened it.         *)
Dies(handle) == IF handle = "open" THEN "dead" ELSE handle
SdEnd ==
  /\ begun' = FALSE /\ kept' = FALSE
  /\ file' = Dies(file) /\ save_file' = Dies(save_file)

(* sd_mount: SD.begin is called only if the card is not known to be        *)
(* mounted. It says yes at once if the library has begun already.          *)
Mount(t) ==
  /\ at[t] \in Mounting /\ within[t] = "begin"
  /\ \/ sd_mounted /\ Goes(t) /\ UNCHANGED begun
     \/ ~sd_mounted /\ begun' = TRUE /\ Enters(t, "mounted")
     \/ ~sd_mounted /\ ~begun /\ Leaves(t) /\ UNCHANGED begun
  /\ UNCHANGED <<requests, sd_mounted, kept, reading, display, upload, save_file>>

Mounted(t) ==
  /\ within[t] = "mounted"
  /\ sd_mounted' = TRUE /\ Goes(t)
  /\ UNCHANGED <<requests, begun, kept, reading, display, upload, save_file>>

(* There is no card behind the reader, or the other task has ended the     *)
(* library since: the card is given back, under whatever the other task    *)
(* has opened on it.                                                       *)
NoCard(t) ==
  /\ within[t] = "mounted"
  /\ SdEnd /\ Leaves(t)
  /\ UNCHANGED <<requests, sd_mounted, index, display, upload>>

(* sd_unmount: the test, the assignment, SD.end().                         *)
Unmount(t) ==
  /\ at[t] \in Unmounting /\ within[t] = "begin"
  /\ IF sd_mounted THEN Enters(t, "unmounted") ELSE Goes(t)
  /\ UNCHANGED <<requests, card, reading, display, upload, save_file>>

Unmounted(t) ==
  /\ within[t] = "unmounted"
  /\ sd_mounted' = FALSE /\ Enters(t, "end")
  /\ UNCHANGED <<requests, begun, kept, reading, display, upload, save_file>>

End(t) ==
  /\ within[t] = "end"
  /\ SdEnd /\ Goes(t)
  /\ UNCHANGED <<requests, sd_mounted, index, display, upload>>

Show(t) ==
  /\ At(t, "dir_show")
  /\ Goes(t)
  /\ UNCHANGED <<requests, card, reading, display, upload, save_file>>

(* init_oled_show_ip                                                       *)
InitOled(t) ==
  /\ At(t, "init_oled")
  /\ oled' = TRUE /\ Goes(t)
  /\ UNCHANGED <<requests, card, reading, sd_detach, upload, save_file>>

-----------------------------------------------------------------------------
(* loop() without anything left to do looks at the requests, in order.     *)
Turn ==
  /\ at["loop"] = "idle"
  /\ \/ sd_program_activate /\ Moves("loop", "svf_mount")
     \/ ~sd_program_activate /\ spiffs_program_activate /\ Moves("loop", "passthru_program")
     \/ /\ ~sd_program_activate /\ ~spiffs_program_activate /\ sd_binary_file_activate
        /\ Moves("loop", "bin_mount")
  /\ UNCHANGED <<requests, card, reading, display, upload, save_file>>

Requested == sd_program_activate \/ spiffs_program_activate \/ sd_binary_file_activate

(* periodic: the keys of the browser, and BTN0.                            *)
Periodic ==
  /\ at["loop"] = "idle" /\ ~Requested
  /\ \/ /\ ~sd_detach /\ Moves("loop", "dir_mount")
        /\ UNCHANGED <<requests, display>>
     \/ /\ ~sd_detach /\ sd_program_activate' = TRUE /\ fresh' = TRUE
        /\ \E f \in Files : sd_file_name_svf' = f
        /\ UNCHANGED <<running, spiffs_program_activate, sd_binary_file_activate, typed, display>>
     \/ /\ ~sd_detach /\ sd_binary_file_activate' = TRUE /\ fresh' = TRUE
        /\ sd_file_name_svf' = F32C
        /\ UNCHANGED <<running, sd_program_activate, spiffs_program_activate, typed, display>>
     \/ sd_detach' = FALSE /\ oled' = TRUE /\ UNCHANGED <<running, requests>>
     \/ /\ oled /\ spiffs_program_activate' = TRUE   \* the OLED is ready since half a second
        /\ UNCHANGED <<running, sd_program_activate, sd_binary_file_activate, sd_file_name_svf,
                       typed, fresh, display>>
  /\ UNCHANGED <<card, reading, upload, save_file>>

(* program_file opens the file, from the card or from flash memory; it     *)
(* returns if there is none.                                               *)
OpenProgram(from) ==
  /\ \/ /\ from = "flash" \/ begun
        /\ file' = (IF from = "flash" THEN "flash" ELSE "open") /\ UNCHANGED index
        /\ Goes("loop")
     \/ Leaves("loop") /\ UNCHANGED reading
  /\ UNCHANGED <<card, display, upload, save_file>>

Program ==
  /\ At("loop", "svf_program")
  /\ OpenProgram("card")
  /\ fresh' = At("net", "request_svf")
  /\ UNCHANGED <<sd_program_activate, spiffs_program_activate, sd_binary_file_activate,
                 sd_file_name_svf, typed>>

ProgramF32c ==
  /\ At("loop", "bin_program")
  /\ OpenProgram("card") /\ UNCHANGED requests

ProgramPassthru ==
  /\ At("loop", "passthru_program")
  /\ OpenProgram("flash") /\ UNCHANGED requests

(* One block to the player, to the file's end. A dead handle gives nothing *)
(* and says that there is more: play_svf_packet is called without end.     *)
Play ==
  /\ at["loop"] \in {"svf_play", "bin_play", "passthru_play"} /\ file # "dead"
  /\ IF index + 1 = Blocks THEN index' = 0 /\ file' = "none" /\ Goes("loop")
     ELSE index' = index + 1 /\ UNCHANGED <<file, running>>
  /\ UNCHANGED <<requests, card, display, upload, save_file>>

Detach ==
  /\ at["loop"] \in {"svf_detach", "bin_detach"}
  /\ sd_detach' = TRUE /\ Goes("loop")
  /\ UNCHANGED <<requests, card, reading, oled, upload, save_file>>

(* f32c_exec_binary: F32cUpload is about what it sends.                    *)
ExecBinary ==
  /\ At("loop", "exec_binary")
  /\ \/ begun /\ file' = "open" /\ Goes("loop")
     \/ Leaves("loop") /\ UNCHANGED file
  /\ UNCHANGED <<requests, card, index, display, upload, save_file>>

Send ==
  /\ At("loop", "send") /\ file # "dead"
  /\ file' = "none" /\ Goes("loop")
  /\ UNCHANGED <<requests, card, index, display, upload, save_file>>

(* Mutant: the request is not taken back.                                  *)
ProgrammedKeeps ==
  /\ At("loop", "programmed") /\ Goes("loop")
  /\ UNCHANGED <<requests, card, reading, display, upload, save_file>>

Programmed ==
  /\ At("loop", "programmed")
  /\ sd_program_activate' = FALSE /\ Goes("loop")
  /\ UNCHANGED <<spiffs_program_activate, sd_binary_file_activate, sd_file_name_svf, typed,
                 fresh, card, reading, display, upload, save_file>>

Passthru ==
  /\ At("loop", "passthru")
  /\ spiffs_program_activate' = FALSE /\ Goes("loop")
  /\ UNCHANGED <<sd_program_activate, sd_binary_file_activate, sd_file_name_svf, typed,
                 fresh, card, reading, display, upload, save_file>>

Executed ==
  /\ At("loop", "executed")
  /\ sd_binary_file_activate' = FALSE /\ Goes("loop")
  /\ UNCHANGED <<sd_program_activate, spiffs_program_activate, sd_file_name_svf, typed,
                 fresh, card, reading, display, upload, save_file>>

-----------------------------------------------------------------------------
(* The handlers but the upload's. A websocket message scans the chain, and *)
(* may be "p", or a file's name, which it assigns behind the request.      *)
Handler ==
  /\ at["net"] = "idle"
  /\ \/ /\ \/ Moves("net", "request_first")          \* CommandLine
           \/ Moves("net", handle_svf("idle"))
        /\ \E f \in Files : typed' = f
     \/ /\ \/ Moves("net", "request_passthru")       \* CommandLine
           \/ Moves("net", "name_f32c")              \* handle_bin
           \/ Moves("net", "init_oled")              \* handle_dir
           \/ Moves("net", "dl_mount")               \* handle_dl
           \/ Moves("net", "change_mount")           \* mkdir, rm, rmdir
        /\ UNCHANGED typed
  /\ UNCHANGED <<sd_program_activate, spiffs_program_activate, sd_binary_file_activate,
                 sd_file_name_svf, fresh, card, reading, display, upload, save_file>>

(* A handler assigns a name of a file.                                     *)
Assigns(name) ==
  /\ sd_file_name_svf' = name
  /\ fresh' = TRUE /\ typed' = NONE /\ Goes("net")
  /\ UNCHANGED <<sd_program_activate, spiffs_program_activate, sd_binary_file_activate,
                 card, reading, display, upload, save_file>>

SvfNames         == At("net", "name") /\ Assigns(typed)
CommandLineNames == At("net", "command") /\ Assigns(typed)
BinNames         == At("net", "name_f32c") /\ Assigns(F32C)

(* A handler asks loop() for something.                                    *)
Asks ==
  /\ Goes("net")
  /\ UNCHANGED <<sd_file_name_svf, typed, fresh, card, reading, display, upload, save_file>>

SvfRequests ==
  /\ At("net", "request_svf") /\ sd_program_activate' = TRUE
  /\ Asks /\ UNCHANGED <<spiffs_program_activate, sd_binary_file_activate>>

CommandLineRequests ==
  /\ \/ /\ At("net", "request_first") /\ sd_program_activate' = TRUE
        /\ UNCHANGED spiffs_program_activate
     \/ /\ At("net", "request_passthru") /\ spiffs_program_activate' = TRUE
        /\ UNCHANGED sd_program_activate
  /\ Asks /\ UNCHANGED sd_binary_file_activate

BinRequests ==
  /\ At("net", "request_bin") /\ sd_binary_file_activate' = TRUE
  /\ Asks /\ UNCHANGED <<sd_program_activate, spiffs_program_activate>>

Name    == SvfNames \/ CommandLineNames \/ BinNames
Request == SvfRequests \/ CommandLineRequests \/ BinRequests

(* A download goes on when its handler has returned: it leaves the card    *)
(* mounted.                                                                *)
Keep ==
  /\ At("net", "keep")
  /\ kept' = TRUE /\ Goes("net")
  /\ UNCHANGED <<requests, sd_mounted, begun, reading, display, upload, save_file>>

(* Mutant: a change that fails returns at once.                            *)
ChangeReturns ==
  /\ At("net", "change")
  /\ \/ begun /\ Goes("net")
     \/ Moves("net", "idle")
  /\ UNCHANGED <<requests, card, reading, display, upload, save_file>>

(* The directory is made or the entry removed, or not.                     *)
Change ==
  /\ At("net", "change")
  /\ \/ begun /\ Goes("net")
     \/ Leaves("net")
  /\ UNCHANGED <<requests, card, reading, display, upload, save_file>>

-----------------------------------------------------------------------------
(* handle_file_upload: the first packet resets the statics but save_file,  *)
(* and opens it on the card if a directory is named.                       *)
FirstPacket ==
  /\ at["net"] = "idle" /\ sent = 0
  /\ \/ saves' = TRUE /\ Moves("net", "save_mount")
     \/ saves' = FALSE /\ Moves("net", "piece")
  /\ write_error' = 0 /\ went' = <<>> /\ inherited' = (save_file # "none")
  /\ UNCHANGED <<requests, card, reading, display, sent, save_file>>

NextPacket ==
  /\ at["net"] = "idle" /\ sent > 0
  /\ Moves("net", "piece")
  /\ UNCHANGED <<requests, card, reading, display, upload, save_file>>

Save ==
  /\ At("net", "save")
  /\ \/ begun /\ save_file' = "open" /\ kept' = TRUE /\ Goes("net")
     \/ save_file' = "none" /\ Leaves("net") /\ UNCHANGED kept
  /\ inherited' = FALSE
  /\ UNCHANGED <<requests, sd_mounted, begun, reading, display, sent, saves, write_error, went>>

(* Mutant: the last write decides.                                         *)
ErrorsForgotten(ok) == IF ok THEN 0 ELSE 1

Errors(ok) == IF ok THEN write_error ELSE 1

(* A piece is played, or written: which fails on a dead handle, and may    *)
(* fail on a full card.                                                    *)
Piece ==
  /\ At("net", "piece")
  /\ \/ save_file = "none" /\ went' = Append(went, "jtag") /\ UNCHANGED write_error
     \/ save_file = "open" /\ went' = Append(went, "card") /\ write_error' = Errors(TRUE)
     \/ save_file # "none" /\ went' = Append(went, "lost") /\ write_error' = Errors(FALSE)
  /\ sent' = sent + 1
  /\ IF sent' = Pieces THEN Goes("net") ELSE Leaves("net")
  /\ UNCHANGED <<requests, card, reading, display, saves, inherited, save_file>>

answer == IF save_file = "none" THEN "report" ELSE IF write_error = 0 THEN "success" ELSE "fail"

(* The final packet is answered and save_file closed.                      *)
Answer ==
  /\ At("net", "answer")
  /\ save_file' = "none" /\ sent' = 0
  /\ went' = <<>> /\ write_error' = 0 /\ saves' = FALSE /\ inherited' = FALSE
  /\ Goes("net")
  /\ UNCHANGED <<requests, card, reading, display>>

(* The connection is lost; no handler is told.                             *)
Break ==
  /\ at["net"] = "idle" /\ sent > 0
  /\ sent' = 0 /\ went' = <<>> /\ write_error' = 0 /\ saves' = FALSE /\ inherited' = FALSE
  /\ UNCHANGED <<running, requests, card, reading, display, save_file>>

Shared(t) ==
  Mount(t) \/ Mounted(t) \/ NoCard(t) \/ Unmount(t) \/ Unmounted(t) \/ End(t) \/ Show(t) \/ InitOled(t)

Loop ==
  \/ Shared("loop") \/ Turn \/ Program \/ ProgramF32c \/ ProgramPassthru \/ Play \/ Detach
  \/ ExecBinary \/ Send \/ Programmed \/ Passthru \/ Executed

Net == Shared("net") \/ Name \/ Request \/ Keep \/ Change \/ Save \/ Piece \/ Answer

Next == Loop \/ Periodic \/ Net \/ Handler \/ FirstPacket \/ NextPacket \/ Break

Spec == Init /\ [][Next]_vars

(* loop() is called for ever, and does not wait for the network task.      *)
FairSpec == Spec /\ WF_vars(Loop)

-----------------------------------------------------------------------------
(* When both tasks have come to rest, the card is released to the FPGA,    *)
(* however their mounting and unmounting interleaved: unless a download or *)
(* an upload to the card has left it mounted, as they do.                  *)
CardInv ==
  /\ TypeOK
  /\ at["loop"] = "idle" /\ at["net"] = "idle" /\ ~kept => ~begun

(* "success" means that every piece of the upload was written, even when   *)
(* loop() unmounts the card in between; the player's report means that     *)
(* every piece was played. Not so if save_file was open still, from an     *)
(* upload that broke off, when this one began. What was written counts as  *)
(* kept, although the card may be ended before save_file is closed.        *)
SaveAnswerIsHonest ==
  At("net", "answer") /\ ~inherited =>
    /\ answer = "success" => saves /\ went = [k \in 1 .. Pieces |-> "card"]
    /\ answer = "report"  => went = [k \in 1 .. Pieces |-> "jtag"]

(* Nothing is programmed again without a new request: a name was assigned  *)
(* since loop() last opened a file, or the request for that name has only  *)
(* come behind it. But CommandLine may wake loop() before it has assigned  *)
(* the name, and then the file of the request before is programmed.        *)
NothingTwice ==
  [][sd_program_activate /\ At("loop", "svf_program") /\ ~At("loop", "svf_program")'
       => fresh \/ At("net", "command")]_vars

(* program_file draws while the OLED is attached, the listing always.      *)
Draws(t) ==
  \/ at[t] = "dir_show"
  \/ ~sd_detach /\ at[t] \in {"svf_program", "bin_program", "passthru_program",
                             "svf_play", "bin_play", "passthru_play"}

(* Nobody draws before the OLED is initialised, but loop() when it has     *)
(* programmed passthru.svf and lists the directory.                        *)
OledReadyElsewhere == \A t \in Tasks : Draws(t) => oled \/ (t = "loop" /\ at[t] = "dir_show")

(* A request for a file ends, whatever the web handlers do meanwhile:      *)
(* unless they unmount the card under the file that is read.               *)
RequestsEnd == sd_program_activate ~> ~sd_program_activate \/ file = "dead"

(* "if OLED is not initialized ESP32 will crash" (storage.cpp)             *)
OledReady == \A t \in Tasks : Draws(t) => oled

(* "directory path specified -> no jtag upload but save to SD" (web.cpp)   *)
SavedNotPlayed == saves => \A n \in DOMAIN went : went[n] # "jtag"

(* "upload f32c bitstream" (websvf_sd.ino): that is what a binary gets.    *)
BinaryGetsF32c == At("loop", "bin_program") => sd_file_name_svf = F32C
=============================================================================
