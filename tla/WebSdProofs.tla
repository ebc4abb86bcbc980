---------------------------- MODULE WebSdProofs -----------------------------
(***************************************************************************)
(* Proofs about WebSd for every interleaving of loop() and the web         *)
(* handlers, any number of packets and blocks, any files.                  *)
(***************************************************************************)
EXTENDS WebSd, TLAPS

(* Only statements that call sd_mount or sd_unmount are ever within them.  *)
ControlInv ==
  /\ TypeOK
  /\ \A t \in Tasks : /\ within[t] = "mounted" => at[t] \in Mounting
                      /\ within[t] \in {"unmounted", "end"} => at[t] \in Unmounting

(* The statements between a mount that succeeded and the unmount behind.   *)
Holding ==
  Unmounting \union {"svf_program", "svf_play", "svf_detach", "bin_program", "bin_play", "bin_detach",
                     "exec_binary", "send", "keep", "change", "save"}

(* A card that the SD library has begun, and that is not kept on purpose,  *)
(* will be given back: by a task that has not yet noted what it has done   *)
(* to it, or by one that still has its unmount before it, and will not     *)
(* skip that.                                                              *)
HeldInv ==
  begun /\ ~kept =>
    \E t \in Tasks : within[t] # "begin" \/ (sd_mounted /\ at[t] \in Holding)

(* The browser is only attached to an OLED that is ready, and handlers     *)
(* prepare it before they list.                                            *)
OledInv ==
  /\ ~sd_detach => oled
  /\ at["net"] \in Listing => oled

(* An upload between its packets: pieces are counted, and of one that did  *)
(* not inherit a file all went to the same place as long as no write       *)
(* failed.                                                                 *)
AllWent(to) == \A k \in DOMAIN went : went[k] = to

Saving == {"save_mount", "save", "save_failed"}

UploadInv ==
  /\ went \in Seq({"jtag", "card", "lost"}) /\ Len(went) = sent
  /\ at["net"] = "answer" <=> sent = Pieces
  /\ at["net"] \in Saving => sent = 0 /\ saves /\ write_error = 0
  /\ at["net"] = "save_mount" /\ ~inherited => save_file = "none"
  /\ ~inherited /\ at["net"] \notin Saving /\ (sent > 0 \/ at["net"] = "piece") =>
       IF save_file = "none" THEN AllWent("jtag") ELSE saves /\ (write_error = 0 => AllWent("card"))

(* A name that was typed is there until it is assigned.                    *)
(* Whoever has asked for a file has assigned a name that was not opened    *)
(* yet, or is about to; until loop() is behind the opening.                *)
Naming == {"name", "request_first", "command"}
Opened == {"svf_play", "svf_close", "svf_detach", "svf_unmount", "programmed"}

RequestInv ==
  /\ at["net"] \in Naming => typed \in Files
  /\ At("net", "request_svf") => fresh
  /\ sd_program_activate /\ at["loop"] \notin Opened => fresh \/ At("net", "command")

WebInv == ControlInv /\ HeldInv /\ OledInv /\ UploadInv /\ RequestInv

-----------------------------------------------------------------------------
(* Where a statement of loop() leads.                                      *)
LEMMA LoopFlow ==
  ASSUME NEW l \in LoopLabels
  PROVE  /\ Then(l) \in LoopLabels /\ Fails(l) \in LoopLabels
         /\ l \in Mounting => Then(l) \in Holding /\ l \notin Holding
         /\ l \in {"svf_program", "svf_play", "svf_detach", "bin_program", "bin_play", "bin_detach",
                   "exec_binary", "send"} => Then(l) \in Holding
         /\ l \in {"svf_program", "bin_program", "exec_binary"} => Fails(l) \in Holding
         /\ l \in Opened /\ l # "programmed" => Then(l) \in Opened
         /\ l \in {"svf_mount", "svf_program"} => Fails(l) \in Opened
         /\ l = "svf_program" => Then(l) \in Opened
<1> USE DEF Then, LoopThen, program_file, mount_read_directory, Fails, LoopFails
<1>1. Then(l) \in LoopLabels
  BY DEF LoopLabels, Listing
<1>2. Fails(l) \in LoopLabels
  BY DEF LoopLabels, Listing
<1>3. l \in Mounting => Then(l) \in Holding /\ l \notin Holding
  BY DEF Mounting, Holding, Unmounting, LoopLabels, Listing
<1>4. l \in {"svf_program", "svf_play", "svf_detach", "bin_program", "bin_play", "bin_detach",
             "exec_binary", "send"} => Then(l) \in Holding
  BY DEF Holding, Unmounting
<1>5. l \in {"svf_program", "bin_program", "exec_binary"} => Fails(l) \in Holding
  BY DEF Holding, Unmounting
<1>6. l \in Opened /\ l # "programmed" => Then(l) \in Opened
  BY DEF Opened
<1>7. l \in {"svf_mount", "svf_program"} => Fails(l) \in Opened
  BY DEF Opened
<1>8. l = "svf_program" => Then(l) \in Opened
  BY DEF Opened
<1>9. QED
  BY <1>1, <1>2, <1>3, <1>4, <1>5, <1>6, <1>7, <1>8

(* Where a statement of a handler leads.                                   *)
LEMMA NetFlow ==
  ASSUME NEW l \in NetLabels
  PROVE  /\ Then(l) \in NetLabels /\ Fails(l) \in NetLabels
         /\ l \in Mounting => Then(l) \in Holding /\ l \notin Holding
         /\ l = "change" => Then(l) \in Holding /\ Fails(l) \in Holding
         /\ l = "save" => Fails(l) \in Holding
         /\ Then(l) \in Listing => l \in Listing \union {"init_oled"}
         /\ Fails(l) \notin Listing
         /\ (Then(l) = "answer" <=> l = "piece") /\ Fails(l) # "answer"
         /\ Then(l) \in Saving => l \in Saving /\ Then(l) # "save_mount"
         /\ Fails(l) \in Saving => l = "save" /\ Fails(l) # "save_mount"
         /\ Then(l) = "piece" => l \in Saving
         /\ Fails(l) = "piece" => l = "save_mount"
         /\ Then(l) = "request_svf" => l = "name"
         /\ Fails(l) # "request_svf"
         /\ l = "request_first" => Then(l) = "command"
         /\ Then(l) \in Naming => l = "request_first"
         /\ Fails(l) \notin Naming
<1> USE DEF Then, HandlerThen, CommandLine, handle_svf, handle_bin, handle_dl, handle_mkdir,
            handle_file_upload, change_shown, mount_read_directory, HandlerFails, UploadFails
<1>0. Fails(l) = HandlerFails(l)
  BY DEF Fails, LoopFails, LoopLabels, NetLabels, Listing
<1>1. Then(l) \in NetLabels
  BY DEF LoopLabels, LoopThen, program_file, NetLabels, Listing
<1>2. Fails(l) \in NetLabels
  BY <1>0 DEF NetLabels, Listing
<1>3. Then(l) = IF l \in Listing THEN mount_read_directory(l) ELSE HandlerThen(l)
  BY DEF LoopLabels, LoopThen, program_file, NetLabels, Listing
<1>4. l \in Mounting => Then(l) \in Holding /\ l \notin Holding
  BY <1>3 DEF Mounting, Holding, Unmounting, NetLabels, Listing
<1>5. l \in {"change", "save"} => Fails(l) \in Holding /\ (l = "change" => Then(l) \in Holding)
  BY <1>0, <1>3 DEF Holding, Unmounting, Listing
<1>6. (Then(l) \in Listing => l \in Listing \union {"init_oled"}) /\ Fails(l) \notin Listing
  BY <1>0, <1>3 DEF Listing
<1>7. (Then(l) = "answer" <=> l = "piece") /\ Fails(l) # "answer"
  BY <1>0, <1>3 DEF Listing
<1>8. /\ Then(l) \in Saving => l \in Saving /\ Then(l) # "save_mount"
      /\ Fails(l) \in Saving => l = "save" /\ Fails(l) # "save_mount"
  BY <1>0, <1>3 DEF Listing, Saving
<1>9. (Then(l) = "piece" => l \in Saving) /\ (Fails(l) = "piece" => l = "save_mount")
  BY <1>0, <1>3 DEF Listing, Saving
<1>10. (Then(l) = "request_svf" => l = "name") /\ Fails(l) # "request_svf"
  BY <1>0, <1>3 DEF Listing
<1>11. l = "request_first" => Then(l) = "command"
  BY <1>3 DEF Listing
<1>12. (Then(l) \in Naming => l = "request_first") /\ Fails(l) \notin Naming
  BY <1>0, <1>3 DEF Listing, Naming
<1>13. QED
  BY <1>1, <1>2, <1>4, <1>5, <1>6, <1>7, <1>8, <1>9, <1>10, <1>11, <1>12

-----------------------------------------------------------------------------
(* What ControlInv says of at and within, and of the rest.                 *)
RunType ==
  /\ at \in [Tasks -> Labels] /\ at["loop"] \in LoopLabels /\ at["net"] \in NetLabels
  /\ within \in [Tasks -> Phases]
  /\ \A t \in Tasks : /\ within[t] = "mounted" => at[t] \in Mounting
                      /\ within[t] \in {"unmounted", "end"} => at[t] \in Unmounting

DataType ==
  /\ {sd_mounted, begun, sd_program_activate, spiffs_program_activate,
      sd_binary_file_activate, sd_detach, oled} \subseteq BOOLEAN
  /\ sd_file_name_svf \in Files /\ typed \in Files \union {NONE}
  /\ file \in Handles \union {"flash"} /\ index \in 0 .. Blocks - 1
  /\ save_file \in Handles /\ sent \in 0 .. Pieces

(* Split in two, so that a step is shown to keep one at a time.            *)
LEMMA ControlParts == ControlInv <=> RunType /\ DataType
BY DEF ControlInv, TypeOK, RunType, DataType

LabelsOf(t) == IF t = "loop" THEN LoopLabels ELSE NetLabels

(* A task that moves to one of its statements has not begun it.            *)
LEMMA MovesTyped ==
  ASSUME RunType, NEW t \in Tasks, NEW l \in LabelsOf(t), Moves(t, l)
  PROVE  RunType'
<1>1. at' \in [Tasks -> Labels] /\ at'["loop"] \in LoopLabels /\ at'["net"] \in NetLabels
  BY DEF RunType, Moves, LabelsOf, Labels, Tasks
<1>2. within' \in [Tasks -> Phases]
  BY DEF RunType, Moves, Phases
<1>3. ASSUME NEW u \in Tasks
      PROVE  /\ within'[u] = "mounted" => at'[u] \in Mounting
             /\ within'[u] \in {"unmounted", "end"} => at'[u] \in Unmounting
  BY DEF RunType, Moves
<1>4. QED
  BY <1>1, <1>2, <1>3 DEF RunType

(* The tables lead from each task's statements to its own.                 *)
LEMMA GoesTyped ==
  ASSUME RunType, NEW t \in Tasks, Goes(t) \/ Leaves(t)
  PROVE  RunType'
<1>1. Then(at[t]) \in LabelsOf(t) /\ Fails(at[t]) \in LabelsOf(t)
  BY LoopFlow, NetFlow DEF RunType, Tasks, LabelsOf
<1>2. QED
  BY <1>1, MovesTyped DEF Goes, Leaves

(* A phase of sd_mount or sd_unmount is entered by who calls it.           *)
LEMMA EntersTyped ==
  ASSUME RunType, NEW t \in Tasks, NEW phase \in {"mounted", "unmounted", "end"}, Enters(t, phase),
         phase = "mounted" => at[t] \in Mounting,
         phase # "mounted" => at[t] \in Unmounting
  PROVE  RunType'
<1>1. at' = at /\ within' \in [Tasks -> Phases]
  BY DEF RunType, Enters, Phases
<1>2. ASSUME NEW u \in Tasks
      PROVE  /\ within'[u] = "mounted" => at[u] \in Mounting
             /\ within'[u] \in {"unmounted", "end"} => at[u] \in Unmounting
  BY DEF RunType, Enters
<1>3. QED
  BY <1>1, <1>2 DEF RunType

(* Every step leaves at and within as ControlInv says.                     *)
LEMMA RunStep ==
  ASSUME RunType, [Next]_vars
  PROVE  RunType'
<1>1. ASSUME NEW t \in Tasks, Shared(t) PROVE RunType'
  <2>1. CASE Mount(t)
    BY <1>1, <2>1, GoesTyped, EntersTyped DEF Mount
  <2>2. CASE Mounted(t) \/ NoCard(t) \/ End(t) \/ Show(t) \/ InitOled(t)
    BY <1>1, <2>2, GoesTyped DEF Mounted, NoCard, End, Show, InitOled
  <2>3. CASE Unmount(t)
    BY <1>1, <2>3, GoesTyped, EntersTyped DEF Unmount
  <2>4. CASE Unmounted(t)
    BY <1>1, <2>4, EntersTyped DEF Unmounted, RunType
  <2>5. QED
    BY <1>1, <2>1, <2>2, <2>3, <2>4 DEF Shared
<1>2. CASE Turn
  BY <1>2, MovesTyped DEF Turn, LabelsOf, LoopLabels, Tasks
<1>3. CASE Periodic
  <2>1. CASE Moves("loop", "dir_mount")
    BY <2>1, MovesTyped DEF LabelsOf, LoopLabels, Listing, Tasks
  <2>2. CASE UNCHANGED running
    BY <2>2 DEF RunType, running
  <2>3. QED
    BY <1>3, <2>1, <2>2 DEF Periodic
<1>4. CASE Program \/ ProgramF32c \/ ProgramPassthru
  BY <1>4, GoesTyped DEF Program, ProgramF32c, ProgramPassthru, OpenProgram, Tasks
<1>5. CASE Play
  BY <1>5, GoesTyped DEF Play, Tasks, RunType, running
<1>6. CASE Detach \/ ExecBinary \/ Send \/ Programmed \/ Passthru \/ Executed
  BY <1>6, GoesTyped DEF Detach, ExecBinary, Send, Programmed, Passthru, Executed, Tasks
<1>7. CASE Name \/ Request \/ Keep \/ Change \/ Save \/ Piece \/ Answer
  BY <1>7, GoesTyped DEF Name, SvfNames, CommandLineNames, BinNames, Assigns,
                 Request, SvfRequests, CommandLineRequests, BinRequests, Asks,
                 Keep, Change, Save, Piece, Answer, Tasks
<1>8. CASE Handler
  BY <1>8, MovesTyped DEF Handler, handle_svf, LabelsOf, NetLabels, Tasks
<1>9. CASE FirstPacket \/ NextPacket
  BY <1>9, MovesTyped DEF FirstPacket, NextPacket, LabelsOf, NetLabels, Tasks
<1>10. CASE Break \/ UNCHANGED vars
  BY <1>10 DEF Break, vars, running, RunType
<1>11. QED
  BY <1>1, <1>2, <1>3, <1>4, <1>5, <1>6, <1>7, <1>8, <1>9, <1>10 DEF Next, Loop, Net, Tasks

(* A task at one of its labels that does not mount or unmount has not      *)
(* begun either.                                                           *)
LEMMA AtBegin ==
  ASSUME RunType, NEW t \in Tasks
  PROVE  /\ at[t] \in LabelsOf(t) /\ within[t] \in Phases
         /\ at[t] \notin Mounting \union Unmounting => within[t] = "begin"
BY DEF RunType, LabelsOf, Tasks, Phases

(* Every step keeps the types of the rest. That the packets counted stay   *)
(* below Pieces needs UploadInv; that the name assigned is a file's,       *)
(* RequestInv.                                                             *)
LEMMA DataStep ==
  ASSUME WebInv, [Next]_vars
  PROVE  DataType'
<1> USE WebAssumption DEF DataType, requests, reading, display, upload, card
<1>0. RunType /\ DataType
  BY ControlParts DEF WebInv
<1>1. ASSUME NEW t \in Tasks, Shared(t) PROVE DataType'
  <2>1. CASE Mount(t)
    BY <1>0, <2>1 DEF Mount
  <2>2. CASE Mounted(t)
    BY <1>0, <2>2 DEF Mounted
  <2>3. CASE Unmount(t)
    BY <1>0, <2>3 DEF Unmount
  <2>4. CASE Unmounted(t)
    BY <1>0, <2>4 DEF Unmounted
  <2>5. CASE NoCard(t) \/ End(t)
    BY <1>0, <2>5 DEF NoCard, End, SdEnd, Dies, Handles
  <2>6. CASE Show(t)
    BY <1>0, <2>6 DEF Show
  <2>7. CASE InitOled(t)
    BY <1>0, <2>7 DEF InitOled
  <2>8. QED
    BY <1>1, <2>1, <2>2, <2>3, <2>4, <2>5, <2>6, <2>7 DEF Shared
<1>2. CASE Turn
  BY <1>0, <1>2 DEF Turn
<1>3. CASE Periodic
  BY <1>0, <1>3 DEF Periodic
<1>4. CASE Program \/ ProgramF32c \/ ProgramPassthru
  BY <1>0, <1>4 DEF Program, ProgramF32c, ProgramPassthru, OpenProgram, Handles
<1>5. CASE Play
  BY <1>0, <1>5 DEF Play, Handles
<1>6. CASE Detach
  BY <1>0, <1>6 DEF Detach
<1>7. CASE ExecBinary \/ Send
  BY <1>0, <1>7 DEF ExecBinary, Send, Handles
<1>8. CASE Programmed \/ Passthru \/ Executed
  BY <1>0, <1>8 DEF Programmed, Passthru, Executed
<1>9. CASE Handler
  BY <1>0, <1>9 DEF Handler
<1>10. CASE Name
  <2>1. at["net"] \in Naming => typed \in Files
    BY DEF WebInv, RequestInv
  <2>2. QED
    BY <1>0, <1>10, <2>1 DEF Name, SvfNames, CommandLineNames, BinNames, Assigns,
                  At, Naming
<1>11. CASE Request \/ Keep \/ Change
  BY <1>0, <1>11 DEF Request, SvfRequests, CommandLineRequests, BinRequests, Asks,
                  Keep, Change
<1>12. CASE Save
  BY <1>0, <1>12 DEF Save, Handles
<1>13. CASE Piece
  <2>1. sent # Pieces
    BY <1>13 DEF Piece, At, WebInv, UploadInv
  <2>2. sent + 1 \in 0 .. Pieces
    BY <1>0, <2>1
  <2>3. QED
    BY <1>0, <1>13, <2>2 DEF Piece
<1>14. CASE Answer \/ FirstPacket \/ NextPacket \/ Break
  BY <1>0, <1>14 DEF Answer, FirstPacket, NextPacket, Break, Handles
<1>15. CASE UNCHANGED vars
  BY <1>0, <1>15 DEF vars
<1>16. QED
  BY <1>1, <1>2, <1>3, <1>4, <1>5, <1>6, <1>7, <1>8, <1>9, <1>10, <1>11, <1>12, <1>13, <1>14, <1>15
     DEF Next, Loop, Net, Tasks

-----------------------------------------------------------------------------
(* A task that neither mounts nor unmounts, and goes on to a statement     *)
(* that still holds the card if it held it before.                         *)
LEMMA HeldMoves ==
  ASSUME RunType, HeldInv, NEW t \in Tasks, NEW l, Moves(t, l), within[t] = "begin",
         at[t] \in Holding => l \in Holding,
         UNCHANGED <<sd_mounted, begun>>, kept' \in {kept, TRUE}
  PROVE  HeldInv'
<1>1. ASSUME begun', ~kept' PROVE \E u \in Tasks : within'[u] # "begin" \/ (sd_mounted' /\ at'[u] \in Holding)
  <2>1. PICK u \in Tasks : within[u] # "begin" \/ (sd_mounted /\ at[u] \in Holding)
    BY <1>1 DEF HeldInv
  <2>2. CASE u = t
    BY <2>1, <2>2 DEF Moves, RunType
  <2>3. CASE u # t
    BY <2>1, <2>3 DEF Moves, RunType
  <2>4. QED
    BY <2>2, <2>3
<1>2. QED
  BY <1>1 DEF HeldInv

(* Whoever mounts the card has its unmount before it; whoever gives it     *)
(* back has noted so; a task that leaves without has lost nothing, for the *)
(* other one holds the card.                                               *)
LEMMA HeldStep ==
  ASSUME RunType, HeldInv, [Next]_vars
  PROVE  HeldInv'
<1> USE DEF Goes, Leaves
<1>0. "loop" \in Tasks /\ "net" \in Tasks
  BY DEF Tasks
<1>1. ASSUME NEW t \in Tasks, Shared(t) PROVE HeldInv'
  <2>0. /\ at[t] \in LabelsOf(t)
        /\ at[t] \in Mounting => at[t] \notin Holding /\ Then(at[t]) \in Holding
    BY LoopFlow, NetFlow, AtBegin DEF LabelsOf, Tasks
  <2>1. CASE Mount(t)
    <3>1. CASE sd_mounted /\ Goes(t) /\ UNCHANGED begun
      BY <2>0, <2>1, <3>1, HeldMoves DEF Mount
    <3>2. CASE begun' = TRUE /\ Enters(t, "mounted")
      BY <3>2 DEF HeldInv, Enters, RunType
    <3>3. CASE ~begun /\ UNCHANGED begun
      BY <3>3 DEF HeldInv
    <3>4. QED
      BY <2>1, <3>1, <3>2, <3>3 DEF Mount
  <2>2. CASE Mounted(t)
    <3>1. at[t] \in Mounting
      BY <2>2 DEF Mounted, RunType
    <3>2. at'[t] \in Holding /\ sd_mounted'
      BY <2>0, <2>2, <3>1 DEF Mounted, Moves, RunType
    <3>3. QED
      BY <3>2 DEF HeldInv
  <2>3. CASE Unmount(t)
    <3>1. CASE sd_mounted
      BY <2>3, <3>1 DEF Unmount, Enters, HeldInv, RunType
    <3>2. CASE ~sd_mounted
      <4>1. Moves(t, Then(at[t])) /\ within[t] = "begin" /\ UNCHANGED <<sd_mounted, begun, kept>>
        BY <2>3, <3>2 DEF Unmount, card
      <4>2. ASSUME begun', ~kept'
            PROVE \E u \in Tasks : within'[u] # "begin" \/ (sd_mounted' /\ at'[u] \in Holding)
        <5>1. PICK u \in Tasks : within[u] # "begin" \/ (sd_mounted /\ at[u] \in Holding)
          BY <4>1, <4>2 DEF HeldInv
        <5>2. u # t
          BY <3>2, <4>1, <5>1
        <5>3. QED
          BY <3>2, <4>1, <5>1, <5>2 DEF Moves, RunType
      <4>3. QED
        BY <4>2 DEF HeldInv
    <3>3. QED
      BY <3>1, <3>2
  <2>4. CASE Unmounted(t)
    BY <2>4 DEF Unmounted, Enters, HeldInv, RunType
  <2>5. CASE NoCard(t) \/ End(t)
    BY <2>5 DEF NoCard, End, SdEnd, HeldInv
  <2>6. CASE Show(t)
    BY <2>6, HeldMoves DEF Show, At, card, Holding, Unmounting
  <2>7. CASE InitOled(t)
    BY <2>7, HeldMoves DEF InitOled, At, card, Holding, Unmounting
  <2>8. QED
    BY <1>1, <2>1, <2>2, <2>3, <2>4, <2>5, <2>6, <2>7 DEF Shared
<1>2. at["loop"] \in LoopLabels /\ at["net"] \in NetLabels
  BY DEF RunType
<1>3. /\ at["loop"] \notin Mounting \union Unmounting => within["loop"] = "begin"
      /\ at["net"] \notin Mounting \union Unmounting => within["net"] = "begin"
  BY <1>0, AtBegin
<1>4. CASE Turn
  <2>1. within["loop"] = "begin" /\ at["loop"] \notin Holding
    BY <1>3, <1>4 DEF Turn, Mounting, Unmounting, Holding
  <2>2. QED
    BY <1>0, <1>4, <2>1, HeldMoves DEF Turn, card
<1>5. CASE Periodic
  <2>1. within["loop"] = "begin" /\ at["loop"] \notin Holding
    BY <1>3, <1>5 DEF Periodic, Mounting, Unmounting, Holding
  <2>2. CASE Moves("loop", "dir_mount")
    BY <1>0, <1>5, <2>1, <2>2, HeldMoves DEF Periodic, card
  <2>3. CASE UNCHANGED running
    BY <1>5, <2>3 DEF Periodic, card, running, HeldInv
  <2>4. QED
    BY <1>5, <2>2, <2>3 DEF Periodic
<1>6. CASE Program \/ ProgramF32c
  BY <1>0, <1>2, <1>6, LoopFlow, HeldMoves DEF Program, ProgramF32c, OpenProgram, At, card
<1>7. CASE ProgramPassthru
  BY <1>0, <1>7, HeldMoves DEF ProgramPassthru, OpenProgram, At, card, Holding, Unmounting
<1>8. CASE Play
  <2>1. within["loop"] = "begin"
    BY <1>3, <1>8 DEF Play, Mounting, Unmounting
  <2>2. at["loop"] \in Holding => Then(at["loop"]) \in Holding
    BY <1>2, <1>8, LoopFlow DEF Play, Holding, Unmounting
  <2>3. CASE Goes("loop")
    BY <1>0, <1>8, <2>1, <2>2, <2>3, HeldMoves DEF Play, card
  <2>4. CASE UNCHANGED running
    BY <1>8, <2>4 DEF Play, card, running, HeldInv
  <2>5. QED
    BY <1>8, <2>3, <2>4 DEF Play
<1>9. CASE Detach
  <2>1. within["loop"] = "begin"
    BY <1>3, <1>9 DEF Detach, Mounting, Unmounting
  <2>2. QED
    BY <1>0, <1>2, <1>9, <2>1, LoopFlow, HeldMoves DEF Detach, card
<1>10. CASE ExecBinary \/ Send
  BY <1>0, <1>2, <1>10, LoopFlow, HeldMoves DEF ExecBinary, Send, At, card
<1>11. CASE Programmed \/ Passthru \/ Executed
  BY <1>0, <1>11, HeldMoves DEF Programmed, Passthru, Executed, At, card, Holding, Unmounting
<1>12. CASE Handler \/ FirstPacket \/ NextPacket
  <2>1. within["net"] = "begin" /\ at["net"] \notin Holding
    BY <1>3, <1>12 DEF Handler, FirstPacket, NextPacket, Mounting, Unmounting, Holding
  <2>2. QED
    BY <1>0, <1>12, <2>1, HeldMoves DEF Handler, FirstPacket, NextPacket, card
<1>13. CASE Name \/ Keep \/ Answer
  <2>1. (within["net"] = "begin" /\ at["net"] \notin Holding) \/ kept' = TRUE
    BY <1>13 DEF Name, SvfNames, CommandLineNames, BinNames, Assigns,
                  Keep, Answer, At, Holding, Unmounting
  <2>2. CASE kept' = TRUE
    BY <2>2 DEF HeldInv
  <2>3. CASE Name \/ Answer
    BY <1>0, <1>13, <2>1, <2>3, HeldMoves DEF Name, SvfNames, CommandLineNames, BinNames, Assigns,
                  Answer, At, card, Holding, Unmounting
  <2>4. QED
    BY <1>13, <2>2, <2>3 DEF Keep
<1>14. CASE Request
  <2>1. within["net"] = "begin" /\ at["net"] \notin Holding
    BY <1>3, <1>14 DEF Request, SvfRequests, CommandLineRequests, BinRequests, Asks,
                  At, Mounting, Unmounting, Holding
  <2>2. QED
    BY <1>0, <1>14, <2>1, HeldMoves DEF Request, SvfRequests, CommandLineRequests, BinRequests, Asks,
                  card
<1>15. CASE Change
  BY <1>0, <1>2, <1>15, NetFlow, HeldMoves DEF Change, At, card
<1>16. CASE Save
  <2>1. CASE kept' = TRUE
    BY <2>1 DEF HeldInv
  <2>2. CASE Leaves("net") /\ UNCHANGED kept
    BY <1>0, <1>2, <1>16, <2>2, NetFlow, HeldMoves DEF Save, At
  <2>3. QED
    BY <1>16, <2>1, <2>2 DEF Save
<1>17. CASE Piece
  BY <1>0, <1>17, HeldMoves DEF Piece, At, card, Holding, Unmounting
<1>18. CASE Break \/ UNCHANGED vars
  BY <1>18 DEF Break, vars, running, card, HeldInv
<1>19. QED
  BY <1>0, <1>1, <1>4, <1>5, <1>6, <1>7, <1>8, <1>9, <1>10, <1>11, <1>12, <1>13, <1>14, <1>15, <1>16, <1>17, <1>18
     DEF Next, Loop, Net

-----------------------------------------------------------------------------
(* The network task comes to a listing only from preparing the OLED.       *)
LEMMA OledStep ==
  ASSUME RunType, OledInv, [Next]_vars
  PROVE  OledInv'
<1> USE DEF OledInv, display, Goes, Leaves, Moves
<1>0. at["net"] \in NetLabels /\ at \in [Tasks -> Labels] /\ "net" \in Tasks /\ "loop" \in Tasks
  BY DEF RunType, Tasks
<1>1. /\ Then(at["net"]) \in Listing => at["net"] \in Listing \union {"init_oled"}
      /\ Fails(at["net"]) \notin Listing
  BY <1>0, NetFlow
<1>2. ASSUME NEW t \in Tasks, Shared(t) PROVE OledInv'
  <2>1. CASE InitOled(t)
    BY <2>1 DEF InitOled
  <2>2. ASSUME ~InitOled(t), t = "net" PROVE at["net"] # "init_oled"
    BY <1>0, <1>2, <2>2 DEF Shared, InitOled, Mount, Mounted, NoCard, Unmount, Unmounted, End, Show, At,
                            Mounting, Unmounting, RunType
  <2>3. CASE ~InitOled(t) /\ UNCHANGED display
    <3>1. Goes(t) \/ Leaves(t) \/ UNCHANGED at
      BY <1>2, <2>3 DEF Shared, Mount, Mounted, NoCard, Unmount, Unmounted, End, Show, Enters
    <3>2. CASE t = "loop"
      BY <1>0, <2>3, <3>1, <3>2
    <3>3. CASE t = "net"
      BY <1>0, <1>1, <2>2, <2>3, <3>1, <3>3
    <3>4. QED
      BY <3>2, <3>3 DEF Tasks
  <2>4. QED
    BY <1>2, <2>1, <2>3 DEF Shared, Mount, Mounted, NoCard, Unmount, Unmounted, End, Show
<1>3. CASE Turn
  BY <1>0, <1>3 DEF Turn
<1>4. CASE Periodic
  BY <1>0, <1>4 DEF Periodic, running
<1>5. CASE Program \/ ProgramF32c \/ ProgramPassthru
  BY <1>0, <1>5 DEF Program, ProgramF32c, ProgramPassthru, OpenProgram
<1>6. CASE Play
  BY <1>0, <1>6 DEF Play, running
<1>7. CASE Detach \/ ExecBinary \/ Send
  BY <1>0, <1>7 DEF Detach, ExecBinary, Send
<1>8. CASE Programmed \/ Passthru \/ Executed
  BY <1>0, <1>8 DEF Programmed, Passthru, Executed
<1>9. CASE Handler
  BY <1>0, <1>9 DEF Handler, handle_svf, Listing
<1>10. CASE FirstPacket \/ NextPacket \/ Break
  BY <1>0, <1>10 DEF FirstPacket, NextPacket, Break, Listing, running
<1>11. CASE Name \/ Request \/ Keep \/ Change \/ Save \/ Piece \/ Answer
  <2>1. at["net"] \notin Listing \union {"init_oled"} /\ UNCHANGED display
    BY <1>11 DEF Name, SvfNames, CommandLineNames, BinNames, Assigns,
                 Request, SvfRequests, CommandLineRequests, BinRequests, Asks,
                 Keep, Change, Save, Piece, Answer, At, Listing
  <2>2. Goes("net") \/ Leaves("net")
    BY <1>11 DEF Name, SvfNames, CommandLineNames, BinNames, Assigns,
                 Request, SvfRequests, CommandLineRequests, BinRequests, Asks,
                 Keep, Change, Save, Piece, Answer
  <2>3. QED
    BY <1>0, <1>1, <2>1, <2>2
<1>12. CASE UNCHANGED vars
  BY <1>12 DEF vars, running
<1>13. QED
  BY <1>0, <1>2, <1>3, <1>4, <1>5, <1>6, <1>7, <1>8, <1>9, <1>10, <1>11, <1>12 DEF Next, Loop, Net

-----------------------------------------------------------------------------
(* Steps that leave the upload alone: the handler that runs, if the step   *)
(* is the network task's, is none of the upload's before or after it; the  *)
(* file may die.                                                           *)
LEMMA UploadRests ==
  ASSUME RunType, DataType, UploadInv, UNCHANGED upload, save_file' \in {save_file, Dies(save_file)},
         UNCHANGED at["net"] \/ {at["net"], at'["net"]} \intersect (Saving \union {"piece", "answer"}) = {}
  PROVE  UploadInv'
<1>1. save_file' = "none" <=> save_file = "none"
  BY DEF Dies
<1>2. QED
  BY <1>1 DEF UploadInv, upload, AllWent, Saving

(* The way of a handler that opens save_file: nothing is written yet.      *)
LEMMA SavingMoves ==
  ASSUME UploadInv, at["net"] \in Saving, at'["net"] \in {"save", "save_failed", "piece"},
         UNCHANGED <<sent, saves, write_error, went>>
  PROVE  UploadInv'
<1>1. sent = 0 /\ saves /\ write_error = 0 /\ Len(went) = 0 /\ went \in Seq({"jtag", "card", "lost"})
  BY DEF UploadInv
<1>2. DOMAIN went = {}
  BY <1>1
<1>3. sent # Pieces
  BY <1>1, WebAssumption
<1>4. QED
  BY <1>1, <1>2, <1>3 DEF UploadInv, AllWent, Saving

(* The way of the upload handler.                                          *)
LEMMA SaveFlow ==
  /\ Then("save_mount") = "save" /\ Fails("save_mount") = "piece"
  /\ Then("save") = "piece" /\ Fails("save") = "save_failed" /\ Then("save_failed") = "piece"
  /\ Then("answer") = "idle" /\ Then("piece") = "answer" /\ Fails("piece") = "idle"
BY DEF Then, Fails, HandlerThen, handle_file_upload, HandlerFails, UploadFails, LoopLabels, Listing

(* loop() touches an upload only by unmounting the card under save_file.   *)
LEMMA LoopSparesUpload ==
  ASSUME RunType, Loop \/ Periodic
  PROVE  UNCHANGED upload /\ UNCHANGED at["net"] /\ save_file' \in {save_file, Dies(save_file)}
<1> USE DEF Goes, Leaves, Moves
<1>0. at \in [Tasks -> Labels] /\ "net" \in Tasks /\ "loop" # "net"
  BY DEF RunType, Tasks
<1>1. CASE Shared("loop")
  <2>1. UNCHANGED upload /\ save_file' \in {save_file, Dies(save_file)}
    BY <1>1 DEF Shared, Mount, Mounted, NoCard, Unmount, Unmounted, End, SdEnd, Show, InitOled
  <2>2. Goes("loop") \/ Leaves("loop") \/ UNCHANGED at
    BY <1>1 DEF Shared, Mount, Mounted, NoCard, Unmount, Unmounted, End, Show, InitOled, Enters
  <2>3. QED
    BY <1>0, <2>1, <2>2
<1>2. CASE Turn \/ Periodic
  BY <1>0, <1>2 DEF Turn, Periodic, running
<1>3. CASE Program \/ ProgramF32c \/ ProgramPassthru
  BY <1>0, <1>3 DEF Program, ProgramF32c, ProgramPassthru, OpenProgram
<1>4. CASE Play
  BY <1>0, <1>4 DEF Play, running
<1>5. CASE Detach \/ ExecBinary \/ Send
  BY <1>0, <1>5 DEF Detach, ExecBinary, Send
<1>6. CASE Programmed \/ Passthru \/ Executed
  BY <1>0, <1>6 DEF Programmed, Passthru, Executed
<1>7. QED
  BY <1>1, <1>2, <1>3, <1>4, <1>5, <1>6 DEF Loop

(* A piece that is written or played goes where the others went.           *)
LEMMA UploadStep ==
  ASSUME RunType, DataType, UploadInv, [Next]_vars
  PROVE  UploadInv'
<1> DEFINE l == at["net"]
           Others == {"piece", "answer"} \union Saving
<1>0. l \in NetLabels /\ at \in [Tasks -> Labels] /\ "net" \in Tasks
  BY DEF RunType, Tasks
<1>1. CASE Loop \/ Periodic
  BY <1>1, LoopSparesUpload, UploadRests
<1>2. CASE Shared("net")
  <2>1. UNCHANGED upload /\ save_file' \in {save_file, Dies(save_file)}
    BY <1>2 DEF Shared, Mount, Mounted, NoCard, Unmount, Unmounted, End, SdEnd, Show, InitOled
  <2>2. CASE UNCHANGED at
    BY <2>1, <2>2, UploadRests
  <2>3. CASE at'["net"] \in {Then(l), Fails(l)} /\ l \notin Saving
    <3>1. l \notin {"piece", "answer", "save"}
      BY <1>2, <2>3 DEF Shared, Mount, Mounted, NoCard, Unmount, Unmounted, End, Show, InitOled, At,
                        RunType, Mounting, Unmounting, Tasks, Saving
    <3>2. at'["net"] \notin Others
      BY <1>0, <2>3, <3>1, NetFlow DEF Saving
    <3>3. QED
      BY <2>1, <2>3, <3>1, <3>2, UploadRests
  <2>4. CASE at'["net"] \in {Then(l), Fails(l)} /\ l \in Saving
    <3>1. CASE l = "save_mount"
      BY <2>1, <2>4, <3>1, SavingMoves, SaveFlow DEF upload
    <3>2. CASE l = "save"
      BY <2>1, <2>4, <3>2, SavingMoves, SaveFlow DEF upload
    <3>3. CASE l = "save_failed"
      <4>1. Goes("net") \/ UNCHANGED at
        BY <1>2, <3>3 DEF Shared, Mount, Mounted, NoCard, Unmount, Unmounted, End, Show, InitOled, At, Enters,
                          RunType, Mounting, Tasks
      <4>2. CASE Goes("net")
        BY <1>0, <2>1, <2>4, <3>3, <4>2, SavingMoves, SaveFlow DEF upload, Goes, Moves
      <4>3. QED
        BY <2>2, <4>1, <4>2
    <3>4. QED
      BY <2>4, <3>1, <3>2, <3>3 DEF Saving
  <2>5. Goes("net") \/ Leaves("net") \/ UNCHANGED at
    BY <1>2 DEF Shared, Mount, Mounted, NoCard, Unmount, Unmounted, End, Show, InitOled, Enters
  <2>6. QED
    BY <1>0, <2>2, <2>3, <2>4, <2>5 DEF Goes, Leaves, Moves
<1>3. CASE Handler
  <2>1. UNCHANGED upload /\ UNCHANGED save_file /\ l = "idle"
    BY <1>3 DEF Handler
  <2>2. at'["net"] \in {"request_first", "name", "request_passthru", "name_f32c", "init_oled", "dl_mount", "change_mount"}
    BY <1>0, <1>3 DEF Handler, handle_svf, Moves
  <2>3. QED
    BY <2>1, <2>2, UploadRests DEF Saving
<1>4. CASE FirstPacket
  <2>1. /\ l = "idle" /\ sent = 0 /\ sent' = sent /\ write_error' = 0 /\ went' = <<>>
        /\ inherited' = (save_file # "none") /\ save_file' = save_file
    BY <1>4 DEF FirstPacket
  <2>2. \/ at'["net"] = "save_mount" /\ saves'
        \/ at'["net"] = "piece" /\ ~saves'
    BY <1>0, <1>4 DEF FirstPacket, Moves
  <2>3. went' \in Seq({"jtag", "card", "lost"}) /\ Len(went') = 0 /\ DOMAIN went' = {}
    BY <2>1
  <2>4. sent # Pieces
    BY <2>1, WebAssumption
  <2>5. QED
    BY <2>1, <2>2, <2>3, <2>4 DEF UploadInv, AllWent, Saving
<1>5. CASE NextPacket
  BY <1>0, <1>5 DEF NextPacket, Moves, UploadInv, AllWent, Saving, upload
<1>6. CASE Name \/ Request \/ Keep \/ Change
  <2>1. UNCHANGED upload /\ UNCHANGED save_file /\ l \notin Others \union {"save"}
    BY <1>6 DEF Name, SvfNames, CommandLineNames, BinNames, Assigns,
                 Request, SvfRequests, CommandLineRequests, BinRequests, Asks,
                 Keep, Change, At, Saving, upload
  <2>2. Goes("net") \/ Leaves("net")
    BY <1>6 DEF Name, SvfNames, CommandLineNames, BinNames, Assigns,
                 Request, SvfRequests, CommandLineRequests, BinRequests, Asks,
                 Keep, Change
  <2>3. at'["net"] \notin Others
    BY <1>0, <2>1, <2>2, NetFlow DEF Goes, Leaves, Moves, Saving
  <2>4. QED
    BY <2>1, <2>3, UploadRests
<1>7. CASE Save
  <2>1. l = "save" /\ UNCHANGED <<sent, saves, write_error, went>>
    BY <1>7 DEF Save, At
  <2>2. at'["net"] \in {"save_failed", "piece"}
    BY <1>0, <1>7, <2>1, SaveFlow DEF Save, Goes, Leaves, Moves
  <2>3. QED
    BY <2>1, <2>2, SavingMoves DEF Saving
<1>8. CASE Piece
  <2>1. l = "piece" /\ sent # Pieces /\ sent' = sent + 1 /\ UNCHANGED <<save_file, saves, inherited>>
    BY <1>8 DEF Piece, At, UploadInv
  <2>2. at'["net"] = IF sent' = Pieces THEN "answer" ELSE "idle"
    BY <1>0, <1>8, <2>1, SaveFlow DEF Piece, Goes, Leaves, Moves
  <2>3. PICK to \in {"jtag", "card", "lost"} :
          /\ went' = Append(went, to)
          /\ save_file = "none" => to = "jtag"
          /\ save_file # "none" => to # "jtag" /\ write_error' = IF to = "card" THEN write_error ELSE 1
    BY <1>8 DEF Piece, Errors
  <2>4. /\ went \in Seq({"jtag", "card", "lost"}) /\ Len(went) = sent
        /\ ~inherited => IF save_file = "none" THEN AllWent("jtag") ELSE saves /\ (write_error = 0 => AllWent("card"))
    BY <2>1 DEF UploadInv, Saving
  <2>5. went' \in Seq({"jtag", "card", "lost"}) /\ Len(went') = sent'
    BY <2>1, <2>3, <2>4
  <2>6. ASSUME NEW from, AllWent(from), to = from PROVE AllWent(from)'
    BY <2>3, <2>4, <2>6 DEF AllWent
  <2>7. ~inherited => IF save_file = "none" THEN AllWent("jtag")' ELSE saves /\ (write_error' = 0 => AllWent("card")')
    BY <2>3, <2>4, <2>6
  <2>8. QED
    BY <2>1, <2>2, <2>5, <2>7 DEF UploadInv, Saving
<1>9. CASE Answer
  <2>1. sent' = 0 /\ went' = <<>> /\ at'["net"] = "idle"
    BY <1>0, <1>9, SaveFlow DEF Answer, At, Goes, Moves
  <2>2. went' \in Seq({"jtag", "card", "lost"}) /\ Len(went') = 0
    BY <2>1
  <2>3. QED
    BY <2>1, <2>2, WebAssumption DEF UploadInv, Saving
<1>10. CASE Break
  <2>1. sent' = 0 /\ went' = <<>> /\ at'["net"] = "idle"
    BY <1>10 DEF Break, running
  <2>2. went' \in Seq({"jtag", "card", "lost"}) /\ Len(went') = 0
    BY <2>1
  <2>3. QED
    BY <2>1, <2>2, WebAssumption DEF UploadInv, Saving
<1>11. CASE UNCHANGED vars
  BY <1>11, UploadRests DEF vars, running
<1>12. QED
  BY <1>1, <1>2, <1>3, <1>4, <1>5, <1>6, <1>7, <1>8, <1>9, <1>10, <1>11 DEF Next, Net

-----------------------------------------------------------------------------
(* A step of loop() or of the listing and mounting that the tasks share:   *)
(* loop() stays behind the opening, or was not, and the name is untouched. *)
LEMMA RequestRests ==
  ASSUME RequestInv, UNCHANGED <<typed, fresh>>, sd_program_activate' => sd_program_activate,
         at["loop"] \in Opened => at'["loop"] \in Opened \/ ~sd_program_activate',
         at'["net"] \in Naming => at["net"] \in Naming,
         At("net", "request_svf")' => At("net", "request_svf"),
         At("net", "command") => At("net", "command")'
  PROVE  RequestInv'
BY DEF RequestInv

(* Between the assignment of a name and the opening of its file, the       *)
(* request may come and go.                                                *)
LEMMA RequestStep ==
  ASSUME RunType, DataType, RequestInv, [Next]_vars
  PROVE  RequestInv'
<1> DEFINE l == at["loop"]
           n == at["net"]
<1>0. /\ l \in LoopLabels /\ n \in NetLabels /\ at \in [Tasks -> Labels] /\ within \in [Tasks -> Phases]
      /\ "net" \in Tasks /\ "loop" \in Tasks /\ "loop" # "net"
  BY DEF RunType, Tasks
<1>1. CASE Shared("loop")
  <2>1. UNCHANGED requests
    BY <1>1 DEF Shared, Mount, Mounted, NoCard, Unmount, Unmounted, End, Show, InitOled
  <2>2. Goes("loop") \/ (Leaves("loop") /\ l \in Mounting) \/ UNCHANGED at
    BY <1>1 DEF Shared, Mount, Mounted, NoCard, Unmount, Unmounted, End, Show, InitOled, Enters,
                     RunType, Tasks
  <2>3. l \in Opened => l # "programmed" /\ l \notin Mounting
    BY <1>1 DEF Shared, Mount, Mounted, NoCard, Unmount, Unmounted, End, Show, InitOled, At, RunType, Tasks,
                Opened, Mounting, Unmounting
  <2>4. l \in Opened => at'["loop"] \in Opened
    BY <1>0, <2>2, <2>3, LoopFlow DEF Goes, Leaves, Moves
  <2>5. at'["net"] = n /\ within'["net"] = within["net"]
    BY <1>0, <1>1 DEF Shared, Mount, Mounted, NoCard, Unmount, Unmounted, End, Show, InitOled,
                     Enters, Goes, Leaves, Moves
  <2>6. QED
    BY <2>1, <2>4, <2>5, RequestRests DEF requests, At
<1>2. CASE Shared("net")
  <2>1. UNCHANGED requests
    BY <1>2 DEF Shared, Mount, Mounted, NoCard, Unmount, Unmounted, End, Show, InitOled
  <2>2. Goes("net") \/ Leaves("net") \/ UNCHANGED at
    BY <1>2 DEF Shared, Mount, Mounted, NoCard, Unmount, Unmounted, End, Show, InitOled, Enters
  <2>3. n \notin Naming \union {"command", "request_svf"}
    BY <1>2 DEF Shared, Mount, Mounted, NoCard, Unmount, Unmounted, End, Show, InitOled, At, RunType, Tasks,
                Naming, Mounting, Unmounting
  <2>4. at'["net"] \notin Naming \union {"request_svf"}
    BY <1>0, <2>2, <2>3, NetFlow DEF Goes, Leaves, Moves, Naming
  <2>5. at'["loop"] = l
    BY <1>0, <2>2 DEF Goes, Leaves, Moves
  <2>6. QED
    BY <2>1, <2>3, <2>4, <2>5, RequestRests DEF requests, At, Naming
<1>3. CASE Turn
  BY <1>0, <1>3, RequestRests DEF Turn, Moves, requests, Opened, At
<1>4. CASE Periodic
  <2>1. at'["net"] = n /\ within'["net"] = within["net"] /\ l = "idle" /\ UNCHANGED typed
    BY <1>0, <1>4 DEF Periodic, Moves, requests, running
  <2>2. CASE fresh' = TRUE
    BY <2>1, <2>2 DEF RequestInv, At
  <2>3. CASE UNCHANGED <<fresh, sd_program_activate>>
    BY <2>1, <2>3, RequestRests DEF Opened, At
  <2>4. QED
    BY <1>4, <2>2, <2>3 DEF Periodic, requests
<1>5. CASE Program
  <2>1. at'["net"] = n /\ within'["net"] = within["net"] /\ UNCHANGED <<typed, sd_program_activate>>
    BY <1>0, <1>5 DEF Program, OpenProgram, Goes, Leaves, Moves
  <2>2. at'["loop"] \in Opened
    BY <1>0, <1>5, LoopFlow DEF Program, OpenProgram, Goes, Leaves, Moves, At
  <2>3. fresh' = At("net", "request_svf")
    BY <1>5 DEF Program
  <2>4. QED
    BY <2>1, <2>2, <2>3 DEF RequestInv, At
<1>6. CASE ProgramF32c \/ ProgramPassthru \/ ExecBinary \/ Send
  BY <1>0, <1>6, RequestRests DEF ProgramF32c, ProgramPassthru, OpenProgram, ExecBinary, Send, Goes, Leaves,
                                  Moves, requests, Opened, At
<1>7. CASE Play \/ Detach
  <2>1. Goes("loop") \/ UNCHANGED running
    BY <1>7 DEF Play, Detach
  <2>2. l # "programmed" /\ UNCHANGED requests
    BY <1>7 DEF Play, Detach
  <2>3. l \in Opened => at'["loop"] \in Opened
    BY <1>0, <2>1, <2>2, LoopFlow DEF Goes, Moves, running
  <2>4. QED
    BY <1>0, <2>1, <2>2, <2>3, RequestRests DEF Goes, Moves, requests, running, At
<1>8. CASE Programmed
  BY <1>0, <1>8, RequestRests DEF Programmed, Goes, Moves, At
<1>9. CASE Passthru \/ Executed
  BY <1>0, <1>9, RequestRests DEF Passthru, Executed, Goes, Moves, Opened, At
<1>10. CASE Handler
  <2>1. at'["loop"] = l /\ UNCHANGED <<sd_program_activate, fresh>> /\ n = "idle"
    BY <1>0, <1>10 DEF Handler, Moves
  <2>2. at'["net"] # "request_svf" /\ (at'["net"] \in Naming => typed' \in Files)
    BY <1>0, <1>10 DEF Handler, handle_svf, Moves, Naming
  <2>3. QED
    BY <2>1, <2>2 DEF RequestInv, At
<1>11. CASE FirstPacket \/ NextPacket \/ Break
  BY <1>0, <1>11, RequestRests DEF FirstPacket, NextPacket, Break, Moves, requests, running, Naming, At
<1>12. CASE Name
  <2>1. at'["loop"] = l /\ UNCHANGED sd_program_activate /\ fresh' = TRUE
    BY <1>0, <1>12 DEF Name, SvfNames, CommandLineNames, BinNames, Assigns,
                  Goes, Moves
  <2>2. at'["net"] \notin Naming
    BY <1>0, <1>12, NetFlow DEF Name, SvfNames, CommandLineNames, BinNames, Assigns,
                  Goes, Moves, At, Naming
  <2>3. QED
    BY <2>1, <2>2 DEF RequestInv
<1>13. CASE Request
  <2>1. /\ n \in {"request_svf", "request_first", "request_passthru", "request_bin"}
        /\ at'["loop"] = l /\ UNCHANGED <<typed, fresh>> /\ within["net"] = "begin"
        /\ at'["net"] = Then(n) /\ within'["net"] = "begin"
    BY <1>0, <1>13 DEF Request, SvfRequests, CommandLineRequests, BinRequests, Asks,
                  Goes, Moves, At, RunType, Mounting, Unmounting, Phases
  <2>2. CASE n = "request_svf"
    <3>1. fresh
      BY <2>1, <2>2 DEF RequestInv, At
    <3>2. Then(n) \notin Naming
      BY <1>0, <2>2, NetFlow
    <3>3. QED
      BY <2>1, <3>1, <3>2 DEF RequestInv
  <2>3. CASE n = "request_first"
    <3>1. Then(n) = "command" /\ typed \in Files
      BY <1>0, <2>3, NetFlow DEF RequestInv, Naming
    <3>2. QED
      BY <2>1, <3>1 DEF RequestInv, At
  <2>4. CASE n \in {"request_passthru", "request_bin"}
    <3>1. Then(n) \notin Naming \union {"request_svf"} /\ UNCHANGED sd_program_activate
      BY <1>0, <1>13, <2>4, NetFlow DEF Request, SvfRequests, CommandLineRequests, BinRequests, Asks,
                  At
    <3>2. QED
      BY <2>1, <2>4, <3>1, RequestRests DEF At
  <2>5. QED
    BY <2>1, <2>2, <2>3, <2>4
<1>14. CASE Keep \/ Change \/ Save \/ Piece \/ Answer
  <2>1. UNCHANGED requests /\ n \in {"keep", "change", "save", "piece", "answer"}
    BY <1>14 DEF Keep, Change, Save, Piece, Answer, At
  <2>2. Goes("net") \/ Leaves("net")
    BY <1>14 DEF Keep, Change, Save, Piece, Answer
  <2>3. at'["loop"] = l /\ at'["net"] \notin Naming \union {"request_svf"}
    BY <1>0, <2>1, <2>2, NetFlow DEF Goes, Leaves, Moves
  <2>4. QED
    BY <2>1, <2>3, RequestRests DEF requests, At
<1>15. CASE UNCHANGED vars
  BY <1>15, RequestRests DEF vars, running, requests, At
<1>16. QED
  BY <1>1, <1>2, <1>3, <1>4, <1>5, <1>6, <1>7, <1>8, <1>9, <1>10, <1>11, <1>12, <1>13, <1>14, <1>15
     DEF Next, Loop, Net

-----------------------------------------------------------------------------
(* Nothing is mounted, asked for or uploaded when setup() is over.         *)
LEMMA WebInit == Init => WebInv
<1> SUFFICES ASSUME Init PROVE WebInv
  OBVIOUS
<1>1. RunType
  BY DEF Init, RunType, Tasks, Phases, Labels, LoopLabels, NetLabels
<1>2. DataType
  <2>1. {sd_mounted, begun, sd_program_activate, spiffs_program_activate,
         sd_binary_file_activate, sd_detach, oled} \subseteq BOOLEAN
    <3>1. oled \in BOOLEAN /\ sd_binary_file_activate \in BOOLEAN
      BY DEF Init, OledShows
    <3>2. QED
      BY <3>1 DEF Init
  <2>2. sd_file_name_svf \in Files /\ typed \in Files \union {NONE}
    BY WebAssumption DEF Init
  <2>3. file \in Handles \union {"flash"} /\ save_file \in Handles
    BY DEF Init, Handles
  <2>4. index \in 0 .. Blocks - 1 /\ sent \in 0 .. Pieces
    BY WebAssumption DEF Init
  <2>5. QED
    BY <2>1, <2>2, <2>3, <2>4 DEF DataType
<1>3. HeldInv /\ OledInv /\ RequestInv
  BY DEF Init, HeldInv, OledInv, RequestInv, Listing, Naming, Tasks, At
<1>4. UploadInv
  <2>1. went = <<>> /\ sent = 0 /\ at["net"] = "idle" /\ sent # Pieces
    BY WebAssumption DEF Init, Tasks
  <2>2. QED
    BY <2>1 DEF UploadInv, Saving
<1>5. QED
  BY <1>1, <1>2, <1>3, <1>4, ControlParts DEF WebInv

(* The five parts together are inductive.                                  *)
LEMMA WebStep == WebInv /\ [Next]_vars => WebInv'
<1> SUFFICES ASSUME WebInv, [Next]_vars PROVE WebInv'
  OBVIOUS
<1>1. RunType /\ DataType /\ HeldInv /\ OledInv /\ UploadInv /\ RequestInv
  BY ControlParts DEF WebInv
<1>2. RunType' /\ DataType'
  BY <1>1, RunStep, DataStep
<1>3. HeldInv' /\ OledInv' /\ UploadInv' /\ RequestInv'
  BY <1>1, HeldStep, OledStep, UploadStep, RequestStep
<1>4. ControlInv'
  BY <1>2 DEF ControlInv, TypeOK, RunType, DataType
<1>5. QED
  BY <1>3, <1>4 DEF WebInv

(* Whatever the two tasks have done: who holds the card, what is before    *)
(* the OLED, where an upload went and which name a request stands for is   *)
(* as the five parts say.                                                  *)
THEOREM WebInvAlways == Spec => []WebInv
<1>1. QED
  BY WebInit, WebStep, PTL DEF Spec

(* When both tasks rest, the card is released, unless it was left mounted  *)
(* on purpose: sd_mount and sd_unmount (storage.cpp) of the two tasks may  *)
(* interleave anywhere.                                                    *)
THEOREM CardInvAlways == Spec => []CardInv
<1>1. ASSUME WebInv PROVE CardInv
  <2>1. RunType
    BY <1>1, ControlParts DEF WebInv
  <2>2. ASSUME NEW t \in Tasks, at[t] = "idle" PROVE within[t] = "begin" /\ at[t] \notin Holding
    BY <2>1, <2>2, AtBegin DEF Mounting, Unmounting, Holding
  <2>3. QED
    BY <1>1, <2>2 DEF CardInv, WebInv, ControlInv, HeldInv, Tasks
<1>2. QED
  BY <1>1, WebInvAlways, PTL

(* The upload handler (web.cpp) answers "success" only if every packet was *)
(* written to the card, and reports a player's result only if every packet *)
(* was played: for any number of packets, and any unmounting in between.   *)
THEOREM SaveAnswerIsHonestAlways == Spec => []SaveAnswerIsHonest
<1>1. ASSUME WebInv, At("net", "answer"), ~inherited
      PROVE  /\ answer = "success" => saves /\ went = [k \in 1 .. Pieces |-> "card"]
             /\ answer = "report"  => went = [k \in 1 .. Pieces |-> "jtag"]
  <2>1. sent = Pieces /\ went \in Seq({"jtag", "card", "lost"}) /\ Len(went) = Pieces /\ Pieces > 0
    BY <1>1, WebAssumption DEF WebInv, UploadInv, At
  <2>2. IF save_file = "none" THEN AllWent("jtag") ELSE saves /\ (write_error = 0 => AllWent("card"))
    BY <1>1, <2>1 DEF WebInv, UploadInv, At, Saving
  <2>3. ASSUME NEW to, AllWent(to) PROVE went = [k \in 1 .. Pieces |-> to]
    BY <2>1, <2>3 DEF AllWent
  <2>4. QED
    BY <2>2, <2>3 DEF answer
<1>2. WebInv => SaveAnswerIsHonest
  BY <1>1 DEF SaveAnswerIsHonest
<1>3. QED
  BY <1>2, WebInvAlways, PTL

(* Only loop(), behind passthru.svf, may draw on an OLED that was never    *)
(* initialised.                                                            *)
THEOREM OledReadyElsewhereAlways == Spec => []OledReadyElsewhere
<1>1. WebInv => OledReadyElsewhere
  BY DEF WebInv, OledInv, OledReadyElsewhere, Draws, Tasks, Listing
<1>2. QED
  BY <1>1, WebInvAlways, PTL

(* program_file never opens a file for a request that it has served, but   *)
(* in the window that CommandLine leaves between request and name.         *)
THEOREM NothingTwiceAlways == Spec => NothingTwice
<1>1. ASSUME WebInv
      PROVE  sd_program_activate /\ At("loop", "svf_program") => fresh \/ At("net", "command")
  BY <1>1 DEF WebInv, RequestInv, At, Opened
<1>2. WebInv => [sd_program_activate /\ At("loop", "svf_program") /\ ~At("loop", "svf_program")'
                   => fresh \/ At("net", "command")]_vars
  BY <1>1
<1>3. QED
  BY <1>2, WebInvAlways, PTL DEF NothingTwice
=============================================================================
