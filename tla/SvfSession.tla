----------------------------- MODULE SvfSession -----------------------------
(***************************************************************************)
(* The web server's upload handler (websvf.ino) on top of the packet       *)
(* player (libxsvf_svf_packet and the life cycle of libxsvf_feed): clients *)
(* that upload files packet by packet, connections that break, and the     *)
(* websocket command line, which scans the JTAG chain between two packets. *)
(* All callbacks run in the network task, one after the other; everything  *)
(* they share is static: the handler's, the player's, the host's.          *)
(*                                                                         *)
(* One action is one packet's arrival or one call made in the handling of  *)
(* it. A packet is one unit long. What its commands do is SvfPlayer's      *)
(* subject: here they end well or not and leave the TAP somewhere.         *)
(***************************************************************************)
EXTENDS Tap, Sequences, FiniteSets

CONSTANTS
  Clients,
  Pieces,      \* [Clients -> the number of packets of the client's file]
  Breaks,      \* whether connections may break
  Overlaps,    \* whether an upload may begin while another is running
  Scans,       \* whether a command line may come while an upload is running
  AllocFails,  \* whether an allocation of the command buffer may fail
  Buffered     \* whether the host is asynchronous and sees mismatches only in sync

ASSUME SessionAssumption ==
  /\ Pieces \in [Clients -> Nat \ {0}]
  /\ {Breaks, Overlaps, Scans, AllocFails, Buffered} \subseteq BOOLEAN

VARIABLES
  sending,         \* [Clients -> packets of the running upload delivered, 0: none runs]
  expect_index, out_of_order,     \* statics of the upload handler
  pc, job,         \* what is being handled, and how far it is
  command_buffer,  \* "null", "live", or "freed" while the pointer dangles
  rc,              \* static rc of libxsvf_feed
  ret,             \* what libxsvf_feed, or libxsvf_scan, returned
  report,          \* the last message of the host's report_error
  pins,            \* "driven" from io_setup to io_shutdown, else "released"
  tap_state, dev,
  pending,         \* a buffered transaction mismatched
  leaked,          \* history: an allocated block was lost
  given,           \* history: the pieces played since the last stream start
  overlapped,      \* history: whether another upload was running since then,
  scanned,         \* history: or a command line came into this one
  broken,          \* history: the clients whose upload broke off
  answer           \* history: the last response

handler == <<sending, expect_index, out_of_order>>
others  == <<overlapped, scanned>>
player  == <<command_buffer, rc, leaked, given, others>>
host    == <<pins, tap_state, dev, pending>>
vars == <<handler, pc, job, player, ret, report, host, broken, answer>>

NoJob == [kind |-> "none"]
Stops == {INIT, RESET, IDLE}   \* where commands leave the TAP

disturbed == overlapped \/ scanned

TypeOK ==
  /\ \A c \in Clients : sending[c] \in 0 .. Pieces[c] - 1
  /\ pc \in {"idle", "setup", "start", "feed", "close", "scan", "sync", "shutdown",
             "free", "answer"}
  /\ command_buffer \in {"null", "live", "freed"}
  /\ rc \in {0, -1} /\ ret \in {0, -1, -2}
  /\ pins \in {"driven", "released"} /\ tap_state \in Stops /\ dev \in DevState
  /\ report \in {"", "Start", "Done", "error"}

Init ==
  /\ sending = [c \in Clients |-> 0] /\ expect_index = 0 /\ out_of_order = 0
  /\ pc = "idle" /\ job = NoJob
  /\ command_buffer = "null" /\ rc = 0 /\ ret = 0 /\ report = ""
  /\ pins = "released" /\ tap_state = INIT /\ dev = DRSHIFT /\ pending = FALSE
  /\ leaked = FALSE /\ given = <<>> /\ overlapped = FALSE /\ scanned = FALSE
  /\ answer = [client |-> "none", text |-> "none", given |-> <<>>, disturbed |-> FALSE]
  /\ broken = {}

-----------------------------------------------------------------------------
(* Mutant: indices are not compared.                                       *)
CountNothing(index) == 0

(* A packet arrives. Index 0 begins an upload, whoever sends it; any other *)
(* index must be the one expected.                                         *)
Count(index) ==
  (IF index = 0 THEN 0 ELSE out_of_order)
    + (IF index = 0 \/ index = expect_index THEN 0 ELSE 1)

Others(c) == \E d \in Clients \ {c} : sending[d] > 0

Packet(c) ==
  LET index == sending[c]
      final == index + 1 = Pieces[c]
  IN /\ pc = "idle"
     /\ index = 0 /\ ~Overlaps => ~Others(c)
     /\ out_of_order' = Count(index)
     /\ expect_index' = index + 1
     /\ sending' = [sending EXCEPT ![c] = IF final THEN 0 ELSE index + 1]
     /\ job' = [kind |-> "packet", client |-> c, index |-> index, final |-> final]
     /\ pc' = CASE out_of_order' = 0 /\ index = 0 -> "setup"
                [] out_of_order' = 0 /\ index # 0 -> "feed"
                [] out_of_order' # 0 /\ final     -> "answer"
                [] OTHER                          -> "idle"
     /\ overlapped' = (overlapped \/ Others(c)) /\ broken' = broken \ {c}
     /\ UNCHANGED <<command_buffer, rc, leaked, given, scanned, ret, report, host, answer>>

(* The connection is lost: no packet comes, and no handler is told.        *)
Break(c) ==
  /\ Breaks /\ pc = "idle" /\ sending[c] > 0
  /\ sending' = [sending EXCEPT ![c] = 0] /\ broken' = broken \union {c}
  /\ UNCHANGED <<expect_index, out_of_order, pc, job, player, ret, report, host, answer>>

(* CommandLine: every websocket message scans the chain.                   *)
CommandLine ==
  /\ pc = "idle"
  /\ LET running == \E c \in Clients : sending[c] > 0
     IN  (running => Scans) /\ scanned' = (scanned \/ running)
  /\ job' = [kind |-> "scan"] /\ pc' = "setup"
  /\ UNCHANGED <<handler, command_buffer, rc, leaked, given, overlapped, ret, report, host,
                 broken, answer>>

-----------------------------------------------------------------------------
(* Mutant: tap_state is kept from the last time.                           *)
SetupKeepsState ==
  /\ pc = "setup"
  /\ pins' = "driven" /\ dev' \in {dev, DRSHIFT}
  /\ pc' = IF job.kind = "scan" THEN "scan" ELSE "start"
  /\ UNCHANGED <<handler, job, player, ret, report, tap_state, pending, broken, answer>>

(* libxsvf_svf_packet and libxsvf_play begin alike. The device may have    *)
(* been powered or moved since the pins were driven last.                  *)
Setup ==
  /\ pc = "setup"
  /\ tap_state' = INIT /\ pins' = "driven" /\ dev' \in {dev, DRSHIFT}
  /\ pc' = IF job.kind = "scan" THEN "scan" ELSE "start"
  /\ UNCHANGED <<handler, job, player, ret, report, pending, broken, answer>>

(* Mutant: the pointer of the last upload is kept.                         *)
StartStreamKeeps ==
  /\ pc = "start"
  /\ rc' = 0 /\ given' = <<>> /\ overlapped' = Others(job.client) /\ scanned' = FALSE
  /\ report' = "Start" /\ pc' = "feed"
  /\ UNCHANGED <<handler, job, command_buffer, leaked, ret, host, broken, answer>>

(* libxsvf_feed(0): the pointer is reset, whatever it points to.           *)
StartStream ==
  /\ pc = "start"
  /\ leaked' = (leaked \/ command_buffer = "live")
  /\ command_buffer' = "null" /\ rc' = 0
  /\ given' = <<>> /\ overlapped' = Others(job.client) /\ scanned' = FALSE
  /\ report' = "Start"
  /\ pc' = "feed"
  /\ UNCHANGED <<handler, job, ret, host, broken, answer>>

Fed(ok) ==
  /\ given' = Append(given, [client |-> job.client, piece |-> job.index + 1, ok |-> ok])
  /\ pc' = IF job.final THEN "close" ELSE "idle"
  /\ UNCHANGED <<handler, job, others, broken, answer>>

(* The commands of the packet leave the TAP at s; the device follows only  *)
(* driven pins.                                                            *)
Clocks(s) ==
  /\ tap_state' = s
  /\ dev' = IF pins = "driven" /\ s # INIT THEN s ELSE dev
  /\ UNCHANGED pins

Allocated == command_buffer' = IF command_buffer = "null" THEN "live" ELSE command_buffer

(* libxsvf_feed(1): the packet is read to its end ...                      *)
FeedPlays ==
  /\ pc = "feed" /\ rc >= 0
  /\ Allocated /\ rc' = 0 /\ ret' = -2
  /\ \E s \in {tap_state, IDLE} : Clocks(s)
  /\ Fed(pins = "driven") /\ UNCHANGED <<report, pending, leaked>>

(* ... or a TDO bit is wrong, which a buffering host does not yet know ... *)
FeedMismatches ==
  /\ pc = "feed" /\ rc >= 0
  /\ Allocated
  /\ Clocks(IDLE)
  /\ \/ rc' = -1 /\ ret' = -1 /\ report' = "error" /\ UNCHANGED pending
     \/ Buffered /\ rc' = 0 /\ ret' = -2 /\ pending' = TRUE /\ UNCHANGED report
  /\ Fed(FALSE) /\ UNCHANGED leaked

(* ... or a command is wrong, or the buffer cannot grow and is lost ...    *)
FeedFails ==
  /\ pc = "feed" /\ rc >= 0
  /\ \/ Allocated /\ UNCHANGED leaked
     \/ /\ AllocFails /\ command_buffer' = "null"
        /\ leaked' = (leaked \/ command_buffer = "live")
  /\ rc' = -1 /\ ret' = -1 /\ report' = "error"
  /\ \E s \in {tap_state, IDLE} : Clocks(s)
  /\ Fed(FALSE) /\ UNCHANGED pending

(* ... or there was an error before, and the packet is not looked at.      *)
FeedRefuses ==
  /\ pc = "feed" /\ rc < 0
  /\ ret' = rc
  /\ Fed(FALSE) /\ UNCHANGED <<command_buffer, rc, leaked, report, host>>

(* Mutant: "Done" after errors too.                                        *)
CloseDone ==
  /\ pc = "close"
  /\ report' = "Done" /\ Clocks(RESET) /\ pc' = "sync"
  /\ UNCHANGED <<handler, job, player, ret, pending, broken, answer>>

(* The final packet: "Done" unless there was an error, and back to reset.  *)
Close ==
  /\ pc = "close"
  /\ report' = IF ret # -1 THEN "Done" ELSE report
  /\ Clocks(RESET) /\ pc' = "sync"
  /\ UNCHANGED <<handler, job, player, ret, pending, broken, answer>>

(* libxsvf_scan and the walk to reset after it.                            *)
Scan ==
  /\ pc = "scan"
  /\ ret' = 0 /\ Clocks(RESET) /\ pc' = "sync"
  /\ UNCHANGED <<handler, job, player, report, pending, broken, answer>>

Sync ==
  /\ pc = "sync"
  /\ report' = IF pending /\ ret >= 0 THEN "error" ELSE report
  /\ pending' = FALSE /\ pc' = "shutdown"
  /\ UNCHANGED <<handler, job, player, ret, pins, tap_state, dev, broken, answer>>

(* Mutant: nothing follows the shutdown.                                   *)
ShutdownReturns ==
  /\ pc = "shutdown"
  /\ pins' = "released" /\ pc' = "idle"
  /\ UNCHANGED <<handler, job, player, ret, report, tap_state, dev, pending, broken, answer>>

Shutdown ==
  /\ pc = "shutdown"
  /\ pins' = "released"
  /\ pc' = IF job.kind = "scan" THEN "idle" ELSE "free"
  /\ UNCHANGED <<handler, job, player, ret, report, tap_state, dev, pending, broken, answer>>

(* Mutant: a feed that has failed refuses the last call as well.           *)
FreeUnlessFailed ==
  /\ pc = "free"
  /\ command_buffer' = IF rc >= 0 THEN "freed" ELSE command_buffer
  /\ pc' = "answer"
  /\ UNCHANGED <<handler, job, rc, ret, leaked, given, others, report, host, broken, answer>>

(* libxsvf_feed(-1): sync once more and free, keeping the pointer.         *)
FreeBuffers ==
  /\ pc = "free"
  /\ IF pending /\ rc >= 0 THEN report' = "error" /\ rc' = -1 ELSE UNCHANGED <<report, rc>>
  /\ pending' = FALSE
  /\ command_buffer' = IF command_buffer = "null" THEN "null" ELSE "freed"
  /\ pc' = "answer"
  /\ UNCHANGED <<handler, job, ret, leaked, given, others, pins, tap_state, dev, broken, answer>>

(* The response to the final packet's client.                              *)
Answer ==
  /\ pc = "answer"
  /\ answer' = [client |-> job.client,
                text |-> IF out_of_order # 0 THEN "out of order" ELSE report,
                given |-> given, disturbed |-> disturbed]
  /\ pc' = "idle"
  /\ UNCHANGED <<handler, job, player, ret, report, host, broken>>

Handle ==
  \/ Setup \/ StartStream \/ FeedPlays \/ FeedMismatches \/ FeedFails \/ FeedRefuses
  \/ Close \/ Scan \/ Sync \/ Shutdown \/ FreeBuffers \/ Answer

Next == Handle \/ CommandLine \/ \E c \in Clients : Packet(c) \/ Break(c)

Spec == Init /\ [][Next]_vars

(* Callbacks return; a connection that does not break delivers the packets *)
(* of an upload that has begun.                                            *)
FairSpec ==
  Spec /\ WF_vars(Handle) /\ \A c \in Clients : SF_vars(sending[c] > 0 /\ Packet(c))

-----------------------------------------------------------------------------
(* The browser shows "Done" only for a file of which every packet, and no  *)
(* other, was played in its order, without error, on driven pins, unless   *)
(* another upload or a scan came in between.                               *)
DoneIsHonest ==
  answer.text = "Done" /\ ~answer.disturbed =>
    answer.given = [k \in 1 .. Pieces[answer.client] |->
                     [client |-> answer.client, piece |-> k, ok |-> TRUE]]

(* What is played since a stream's start has consecutive indices, whoever  *)
(* sent it: nothing is played behind a gap, even when uploads overlap.     *)
PlayedContiguous == \A n \in DOMAIN given : given[n].piece = n

(* The player never writes to, nor frees, a command buffer it has freed,   *)
(* as long as no other upload ran beside this one: scans that come between *)
(* its packets do not matter, nor uploads that broke off, nor errors. But  *)
(* when another one ends, the handler may still take a packet of this one  *)
(* for the next in order, and the pointer dangles.                         *)
BufferIsLive ==
  ~overlapped /\ ((pc = "feed" /\ rc >= 0) \/ pc = "free") => command_buffer # "freed"

(* Whose stream the player has begun last.                                 *)
Owner == given[1].client

(* Behind an upload that came to its end nothing is held: pins are         *)
(* released and the buffer is freed, after errors, failed allocations and  *)
(* scans between packets too. What is held while nobody sends, and is lost *)
(* when the next one starts, is that of an upload which broke off, or of   *)
(* one that another ran beside.                                            *)
LeftTidy ==
  pc = "idle" /\ ~overlapped /\ given # <<>> /\ sending[Owner] = 0 /\ Owner \notin broken =>
    pins = "released" /\ command_buffer # "live"

(* "fix memory leaks, if WEB TCP connection is broken" (README.md, done):  *)
(* no allocated block is lost.                                             *)
NoLeak == ~leaked

(* The device is where the player believes it is ...                       *)
BeliefIsDevice == tap_state # INIT => dev = tap_state

(* ... also after broken and failed uploads and scans between uploads, but *)
(* not in an upload that a scan or another upload came into.               *)
UndisturbedBelief == ~disturbed => BeliefIsDevice

(* Every upload gets its response, in order or not, unless it breaks.      *)
EveryUploadAnswered ==
  \A c \in Clients :
    sending[c] > 0 ~> (pc = "answer" /\ job.client = c) \/ c \in broken
=============================================================================
