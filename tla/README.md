# A verification project for LibXSVF-ESP

LibXSVF-ESP plays SVF and XSVF files into the JTAG port of an FPGA from an ESP32 or ESP8266. A file
comes from a web upload, packet by packet, or from an SD card. Nothing of what it does to the device
can be read back but TDO: the library believes that the device's TAP controller is where it has
sent it, and every later command depends on that belief.

The modules here model the library's core and what the two web servers, the file browser and the f32c
uploader do with it and beside it. TLC checks them on small instances. TLAPS proves, for every value of
the constants: that both players' belief is the device's state and that every scan shifts just its bits;
what a walk leaves alone and that its result is honest; the bounds of the command buffer; the safety of
upload sessions and of the two tasks of `websvf_sd`; the verdicts of the XSVF player and of the f32c
uploader; that TDO is compared only with what was given for it; that a scan finds every device of any chain,
that the bits of scans and the delays of any size are the numbers given, and that XSDRINC counts in any
register of whole bytes; and that the file browser's listing is the directory and
its screen the listing.

    tlc -workers 2 -config MCTapWalk.cfg MCTapWalk
    tlapm TapWalkProofs.tla

## Inventory

Paths are relative to the repository; `trunk/` is `src/trunk/`.

| Component | State | Operations | Interacts with |
|---|---|---|---|
| TAP walker (`trunk/tap.c`, `trunk/libxsvf.h`) | `h->tap_state` | `libxsvf_tap_walk` | called by every player; pulses TCK through the host |
| SVF reader (`read_command` in `trunk/svf.c`) | static `p`, `braket_mode`, `comment_mode`; the caller's buffer and its length | one command at a time, or "try again later" at the end of a packet | gets bytes from the host; called by `libxsvf_feed` and `libxsvf_svf`, which share the statics |
| SVF command player (`libxsvf_feed`, `libxsvf_svf`) | six `bitdata_s`, four end states, `rc`, all static in the feed | ENDIR, ENDDR, HDR, HIR, TDR, TIR, SDR, SIR, STATE, RUNTEST, FREQUENCY, TRST | walker, host |
| Packet sessions (`libxsvf_svf_packet`, `libxsvf_svf_stream`) | `command_buffer`; which part of an upload comes next is known only to the caller | packet with index and final flag | feed, host setup and shutdown |
| Play and scan (`trunk/play.c`, `trunk/scan.c`) | none | `libxsvf_play`: setup, play or scan, reset, shutdown | players, host |
| XSVF player (`trunk/xsvf.c`) | five bit buffers, sizes, end states, retries | 21 commands, `shift_data` with retries | walker, host |
| ESP host (`trunk/xsvftool-esp.c`, `src/LibXSVF.cpp`) | pins, report buffer, IDCODEs caught by rmask, source of bytes | setup, shutdown, pulse, getbyte, realloc | everything |
| GPIO host (`trunk/xsvftool-gpio.c`) | the same on Linux, with options | | |
| Web server (`examples/websvf/websvf.ino`) | static `expect_index`, `out_of_order`, `report` | upload packet, websocket message | packet sessions, `jtag.scan()` |
| Web server with SD card (`examples/websvf_sd/web.cpp`, `websvf_sd.ino`, `jtag.cpp`) | request flags and names, `save_file`, `sd_mounted` | the same, SD files, requests to program from SD or SPIFFS | network task sets requests, `loop()` serves them |
| File browser (`storage.cpp`, `keyboard.cpp`, `disp.cpp`) | directory arrays, cursor, window, hold counters | two-pass directory reading, keys | `loop()` and network task |
| f32c uploader (`f32cup.cpp`) | retry counts, baud rate | blocks with checksums, jump | serial line |
| Name tables, WiFi, sketches, pages, build files | none of their own | | |

What is hard here: the walker's belief is never compared with the device; all of the player is static
and survives packets, errors, broken connections and the next client; packets cut commands anywhere;
callbacks of several connections and of the command line alternate between the packets of an upload;
and `loop()` and the network task share the player in `websvf_sd`. `PROJECT.json` lists each hazard at
its line, with the properties that watch it.

What makes each component correct:

* walker: belief is device after every pulse; useful targets are reached; no register is captured or
  updated on the way that need not be; it returns.
* reader: the commands are those of the text, however it is cut; no write behind the buffer; the end of
  the text is judged right.
* player: belief is device after every command; a scan shifts exactly its bits in its own column; after
  an error nothing moves; TDO is compared only with data given for it; arrays are long enough.
* sessions: "Done" means that the whole file, and nothing else, was played without error; every
  upload is answered; nothing is used after it was freed, or left behind by an upload that has ended.
* scan: every device with an IDCODE is reported once, in order, up to the limit.
* numbers: the bits of a scan are those of the hex numbers, delays those of the decimal ones.
* XSVF: a retry repeats the same scan from the same state; XSDRINC changes address and data bits only.
* web server with SD: what is answered is what happened to the upload; nothing is programmed without a
  request, and every request ends; what is mounted is unmounted again; nobody draws on a display that
  is not there.
* browser: cursor in the directory and on the screen; entries shown were written.
* f32c uploader: it jumps only when every block was acknowledged, by a checksum of its own; it returns.

## Modules

| Module | Models | Stands on |
|---|---|---|
| `Tap` | the states of `libxsvf.h`, the walker's step table (`WalkStep`), the device's TAP controller (`DeviceNext`, external) | |
| `TapPath` | the wire that a command's calls work on: pulses, and a whole walk as one operator | `Tap` |
| `TapPathProofs` | lemmas about pulses and walks, induction and recursion over numbers, for three proofs | `TapPath` |
| `TapWalk` | `libxsvf_tap_walk` pulse by pulse; that it computes `TapPath` (`MatchesPath`) | `TapPath` |
| `ChainScan` | `libxsvf_scan` on chains of devices, as a function; that it finds them (`ChainIsFound`) | `TapWalk` |
| `MCTapWalk` | instance | `ChainScan` |
| `TapWalkProofs` | theorems | `ChainScan`, `TapPathProofs` |
| `SvfText` | what the commands of an SVF text are: a definition on the whole text | |
| `SvfSource` | what a player expects of a source of text (abstract) | `SvfText` |
| `SvfReader` | `read_command` and its two callers, byte by byte; that they implement `SvfSource` | `SvfText`, `SvfSource` |
| `MCSvfReader` | instance | `SvfReader` |
| `SvfReaderProofs` | theorems | `SvfReader` |
| `SvfPlayer` | the interpreter in `libxsvf_feed`, one action a command | `TapPath`, `SvfNumbers` |
| `SvfNumbers` | `bitdata_parse`'s digits, `bitdata_play`'s bits, RUNTEST's numbers, as functions | |
| `MCSvfPlayer` | sets the configurations choose from, numbers that are looked at | `SvfPlayer` |
| `SvfPlayerProofs` | theorems | `SvfPlayer`, `TapPathProofs` |
| `XsvfPlayer` | `libxsvf_xsvf` and `shift_data` within `libxsvf_play` | `TapPath` |
| `MCXsvfPlayer` | instance | `XsvfPlayer` |
| `XsvfPlayerProofs` | theorems | `XsvfPlayer`, `TapPathProofs` |
| `SvfSession` | upload handler, `libxsvf_svf_packet`, command line | `Tap` |
| `MCSvfSession` | two clients | `SvfSession` |
| `SvfSessionProofs` | theorems | `SvfSession` |
| `FileBrowser` | the SD directory browser, its keys and its screen | |
| `MCFileBrowser` | a small card | `FileBrowser` |
| `WebSd` | `loop()` and the network task of `websvf_sd` | |
| `MCWebSd` | one file on the card, or two | `WebSd` |
| `WebSdProofs` | theorems | `WebSd` |
| `F32cUpload` | `f32c_exec_binary`, the core and the line | |
| `MCF32cUpload` | two blocks | `F32cUpload` |
| `SdProofs` | theorems on the two components that stand alone | `FileBrowser`, `F32cUpload` |

Operators marked "Mutant" in a comment are the defects that each property has been seen to catch:
used in place of the operator that follows them, they make TLC find the property violated.

### TapWalk

`Call(t)` is a call of `libxsvf_tap_walk`, `Arrived` the loop's condition, `InitCase`, `InitPulse` and
`InitDone` the case of an unknown TAP with its six pulses, `Step` any other iteration, `EndStep` the
check of the iteration count behind each of them. `Open` is `libxsvf_play` or the first packet, which
set `h->tap_state` to INIT whatever the device does. The device is a variable of its own that follows
TMS by the standard's table. `from` and `trail` record the route for the properties.

### TapPath

The players do not interleave with the walker, so that their commands use a walk as a whole. `WireAt` is
the record that a command threads through its calls: the believed state, the device, the set of states
it has gone through, the TCK edges that met it in a shift state, the result. `Pulse` is one `pulse_tck`;
`Lows` are `n` of them with TMS low in closed form, because two such pulses settle a device (`Low`);
`Shifted` are the clocks of a register, with TMS high on the last one or not. `Stepped` is an iteration of the
walk's loop and `WalkTo` the call: eleven iterations, behind which it has arrived or a twelfth fails it.
`MatchesPath`, an invariant of `TapWalk`, says that this is what the pulses of `TapWalk` come to.

### ChainScan

A scan has no state but where it is in the chain, so that it is a function: `Looked` is one round of the
loop, which takes one bit that is 0 for a bypassed device, or reads an IDCODE. A device is the sequence
of bits it captures. `Captured` are the registers that the walk has left in front of TDO: the chain's own
only if it came from reset through Capture-DR, else nothing is known. `xsvftool_esp_id` is what the caller
keeps of it. `ScanFindsChain` compares with the chain itself, from every state of the devices.

### SvfReader

Text is reduced to the nine classes `read_command` tells apart. An action is one iteration of its loop:
`Skip` in a comment, `Blank`, `BangComment`, `SlashComment`, `OpenBracket`, `CloseBracket`, `Word`, and
`CommandRuns` or `CommandFails` for the semicolon with the caller's reaction (`libxsvf_feed` resets all
statics after each command, `libxsvf_svf` does not). `PacketEnds` is the byte -2, `FileEnds` and
`FileEndsEarly` the byte -1. `buf` holds the `p` bytes written; a byte never written is `UNINIT`.
The growth rule of the buffer keeps its form with three parameters in place of 64, 96 and 10.

`ImplementsSource` is the refinement of `SvfSource`: `text` is the bytes read so far, `commands` what was given
to the interpreter. `Follow` is the environment, the bytes that may come behind a text; the runs take
`UsualText` of `SvfText`, which is SVF as tools write it.

`CleanHandover` says that a file is only played when the statics are at rest. `libxsvf_svf` does not
reset them; no program of the repository plays a file with it in a process that takes packets.
With `CleanHandover = FALSE` the refinement fails, as a library user would find.

### SvfPlayer

A command's effect on the wire is threaded through `WalkTo` (`libxsvf_tap_walk`), `Lows` (RUNTEST's
clocks) and `Play` (`bitdata_play`) as `TapPath`'s record, with the code's early returns. Bits are reduced
to their number. For every array of the six `bitdata_s` the model keeps its size, the length it was
written for and whether this upload wrote it. Whether a comparison fails is the device's choice (`bad` in
`Scan`). `Start` is the first packet (with an earlier upload perhaps unfinished, `Abandons`), `Finish` the
last.

FREQUENCY, PIO and PIOMAP have no effect on this state but by failing: `CommandError`. So has a command
with something behind it: it is the command, then `CommandError`. TRST calls the host only.

### SvfNumbers

What `SvfPlayer` leaves out of a command: a hex number is the sequence of its digits, `Index` where
`bitdata_parse` stores each of them, `getbit` and `bitdata_play` what is sent. `BitsAreNumbers` compares
with the number: clock k carries bit k. It also says how many digits too many stay within the array: one,
because the index -1 divided by 2 is 0 in C. `number` and `number_e6` are RUNTEST's clocks and
microseconds, in an int of `Width` bits (32) and `Micro` decimals (6); `DelaysAreNumbers` compares with
the value rounded down, where it fits. Digits behind the decimal point do not enter: the code's own FIXME.
`NumbersAreRead` of `SvfPlayer` takes both for the numbers that a configuration lists (`Lens`,
`HexNumbers` and so on), once, before the first upload.

### XsvfPlayer

`libxsvf_play` on an XSVF file: `Open`, one action a command, `Close`. A command that shifts ends in
`Shift`, the entry of `shift_data` with its sync; `Try` is one round of its loop and `Increment` what
XSDRINC does between two scans. `st` is the record of the `state_*` variables and masks, `scan` the
arguments of the running `shift_data`. XSIR2, XSDRTDO, XSDRC, XSDRTDOB, XSDRTDOC, XSDRTDOE and
XWAITSTATE differ from the command they are modelled by only in what they read.

Registers are their lengths, with three exceptions: the TDI bits, address mask and data mask of
XSDRINC, at `getbit`'s positions. A byte has `Unit` bits. Whether TDO matches is the device's choice. A
host may report a mismatch at once or later, at the latest when a bit is synced (`Outcomes`); the
README of the library allows both. `st.masks_for` records the length for which XSETSDRMASKS gave its
masks: the model's files do not use masks of another length, which the code does not check.

`SyncInv` (types, and belief is device) and `TryIsExact` are what every command relies on.
`VerdictIsHonest` relates the result to two histories: a mismatch that no repetition made good, and any
other error. `RetryIsFresh` has an exception which is what the code does: with a Pause as end state and no
delay, a repeated scan goes back to Shift without Capture, and compares the bits that the try before has
shifted in. `XsdrincCounts` is stated for whole bytes: `shift_data` sends the bits behind the padding,
XSDRINC increments those from the first on, and they differ when the length is no multiple of eight.

### SvfSession

One action for each packet (`Packet`, with the handler's index check) and for each call in its handling:
`Setup`, `StartStream` (feed(0)), `Feed...` (feed(1) and its four outcomes), `Close`, `Sync`, `Shutdown`,
`FreeBuffers` (feed(-1)), `Answer`. `CommandLine` is a websocket message, which scans. Callbacks run
one after the other in the network task, so that they interleave between packets only. `Break` is a
connection that is lost: the handler is told nothing. Two histories say what came into an upload: `overlapped`
that another client's ran beside it, `scanned` that a command line did; `disturbed` is either.

`BufferIsLive` and `LeftTidy` hold with scans, broken uploads, errors and failed allocations, and except
uploads that overlap; `LeftTidy` is also not about an upload that broke off, which leaves pins driven and
its buffer allocated until the next one begins. `DoneIsHonest` and `UndisturbedBelief` except scans as well.
What overlapping uploads break is real: a client sends packets 0 and 1, another one its packet 0 and its
final packet 1, which frees the command buffer and keeps the pointer; the first one's packet 2 is then the
next in order, is fed into the freed block, and its end frees it again (`svf.c:464`, `491`). Concurrent uploads
are listed in `src/README.md:172-174` as not yet solved. `PlayedContiguous` and `EveryUploadAnswered` hold for them
too; an answer "out of order" leaves pins and buffer as they are.

### FileBrowser

`file_browser(keys)` is one turn of `loop()` with some keys down: `Held` is `scan_keyboard`, then the three
ways the function ends (up a directory, into one, or a request and a move). `mount_read_directory` may
fail to mount; else it reads with both passes of `read_directory`: `FirstPass` counts and measures, `SecondPass`
gives each entry its slot and its name a place in DirNames (`Filled`). Both are recursive functions of the
number of entries passed, so that they can be proved about. `Sorted` is `qsort`: the `k`-th entry is the one that
`k - 1` others precede. The assumption that a directory holds no name twice, in the order of `strcasecmp`, is
what a FAT card gives. The
screen is kept line by line, because moves redraw two lines and only scrolling redraws all of them.
`Program`, `ProgramPassthru` and `Attach` are `loop()` and BTN0 as far as they cover the screen or detach the
browser; `handle_...` and `Save` are the web handlers that list or change directories.

A handler and a turn of `loop()` are one step each. On the ESP32 they are two tasks, and none of these
properties holds when a handler runs in the middle of `read_directory` or between the test of the cursor
and the use of the entry: see the hazards. `ChosenWasLit` has two exceptions, both what the code does:
something else covers the screen, or the path was changed and the card could not be mounted.

### WebSd

Two tasks, each with `at[t]`, the statement it runs next: every statement that reads or writes what both
share is a step of its own, so that each can run between any two of the other's. Which statement follows
is `Then`, or `Fails` if the card cannot be mounted or a file not be opened; they are tables, one row a
statement, made of one table for each function (`program_file`, `mount_read_directory`, `handle_svf`,
`handle_mkdir`, which stands for `handle_rm` and `handle_rmdir` too, and so on). `Turn` is the chain of
`if`s at the top of `loop()`; `Program`, `ProgramF32c` and `ProgramPassthru` open a file, `Play` is one
round of `program_file`'s loop, `Detach` its end, `Send` all the blocks to the f32c core. `Mount` is
`sd_mount` up to the slow call, `Mounted` and `NoCard` are what may follow it (`NoCard` when
`SD.cardType()` finds none: `SD.end()` and -2), `Unmount`, `Unmounted` and `End` are `sd_unmount`, with
`within[t]` for how far the call has got. `SdEnd` is `SD.end()`: a handle that is open then, whichever
task opened it, is dead from then on. `Handler` is a request that arrives at the network task, and `Name`
and `Request` (what `handle_svf`, `CommandLine` and `handle_bin` assign), `Keep`, `Change` are its
statements; `FirstPacket`, `NextPacket`, `Save`, `Piece` and `Answer` an upload, `Break` a lost
connection.

`SaveAnswerIsHonest`: "success" means that every piece of this upload was written to its file, the
player's report that every piece was played. A write counts as kept: that an `SD.end()` between the last
write and `close` might lose it is below the model. It excepts an upload that found `save_file` still open
from an earlier one that broke off (`inherited`), which the code does not notice. `NothingTwice` excepts
`CommandLine`, which sets the flag before the name. `RequestsEnd` and `UploadEnds` except a card that is
unmounted under the file being read: the loops then read nothing, for ever. `OledReadyElsewhere` excepts
the one place where `loop()` lists the directory before the OLED is initialised.

### F32cUpload

`ReadBlock` is the loop of `f32c_exec_binary`, `Prompt` `try_to_get_prompt`, `SendBlock` and `ReceiveCrc` the two
retry loops of `upload_block`. The serial line keeps what was not read (`rx`), because the functions that
should empty the buffers do nothing: a checksum that comes late answers the next request. A checksum is
read in parts; if only some have come, what is compared is partly uninitialised, and may be anything
(`Compared`). The core (`memory`, `held`) is external: it has the checksum of the last block it received.

`JumpIsSafe` says how far the checksums can be trusted: a block accepted on an answer to its own request
is in memory as it was sent, unless the core could have had the same checksum before (`Unmistakable`).
Blocks accepted on a late or a partial answer are the other two cases that `trust` names.

## Runs

| Run | Bounds | Shows |
|---|---|---|
| `tap_walk` | all 18 targets, all 16 device states; chains of up to 4 devices, IDCODEs of 3 bits, a limit of 3 devices | `SyncInv`, `ResultIsHonest`, `NoStrayUpdate`, `ColumnsAreSeparate`, `WalkReturns`; `MatchesPath`: `TapWalk` computes `TapPath`; `ChainIsFound` |
| `svf_reader` | texts up to 6 characters of 8 classes, nesting 2, sizes 2, 4, 3 | `ImplementsSource` (refinement of `SvfSource`), `WritesFit`, `FileEndVerdict` |
| `svf_player` | HDR, SDR, TDR, SIR of 0 and 2 bits; SDR also of 9, and with TDO arrays; end states DRPAUSE, IRPAUSE and an unknown one; RUNTEST in IDLE and DRPAUSE; STATE to DRPAUSE and Exit2; hex numbers up to 6 digits in one and two bytes, decimal ones up to 3 digits with exponents from -5 to 2 | `TypeOK`, `BeliefIsDevice`, `ScanIsExact`, `OnlyScansShift`, `ScansKeepTheirColumn`, `ComparisonIsAsked`, `NumbersAreRead` |
| `svf_session` | two clients, 3 and 2 packets, breaks, overlaps, scans, failing allocations | `DoneIsHonest`, `PlayedContiguous`, `BufferIsLive`, `LeftTidy`, `UndisturbedBelief`, `EveryUploadAnswered` |
| `xsvf_player` | bytes of 2 bits, registers of 1 and 2 bits, one retry, up to 2 increments | `SyncInv`, `TryIsExact`, `RetryIsFresh`, `VerdictIsHonest`, `XsdrincCounts` |
| `file_browser` | 3 or 4 entries in a root, one of them an empty directory, 2 lines, counters up to 15 that repeat from 9, one change of the card, depth 2 | `CursorInv`, `ScreenIsTrue`, `ChosenWasLit`, `ListingIsDirectory` |
| `web_sd` | one SVF file of two blocks, uploads of two packets, all handlers, a card that may fail | `CardInv`, `SaveAnswerIsHonest`, `OledReadyElsewhere`, `NothingTwice`, `RequestsEnd` |
| `f32c_upload` | two blocks whose checksums may be known to the core, two tries, two requests, three parts in the line | `JumpIsSafe`, `VerdictIsHonest`, `UploadEnds` |
| `reader_truncated` | 3 characters | finding: an upload cut within a command is "Done" |
| `arrays_length` | lengths 1 and 9 | finding: arrays of an old length are read for a longer scan |
| `session_broken` | as `svf_session`, breaks only | finding: the command buffer of an upload that breaks off is lost |
| `web_saved` | uploads of one packet | finding: an upload meant for the card is played when it cannot be mounted |

Why the bounds are enough:

* `tap_walk` is not bounded: the walker's state is finite, and all of it is visited.
* six characters hold two commands with a comment or brackets between them, cut anywhere; the
  reader's decisions look back one byte and two modes. The small growth constants make the buffer grow
  three times within them. The texts are those that tools write (`UsualText`): brackets balanced in each
  command, comments after a blank, a bracket or a semicolon. Right behind a word a comment's end does not
  separate words, and the reader differs from `SvfText`.
* two bits are enough for a first and a last bit, and each of header, data and trailer may be empty. End
  states are taken from both columns, and two device states stand for "reset" and "anywhere".
* two and nine bits differ in their bytes, so that arrays change their size; in `arrays_length` one and
  nine do. An array belongs to one register, and SDR stands for all; there MASK and TDR have arrays too.
* XSVF: a register of one bit is padded and its first bit is its last; one of two bits is a whole byte
  and holds a carry. One retry has a first and a last try. XSTATE and XWAIT name a state that is always
  reached and one that only a Pause leads to, so that walks fail too.
* browser: three entries on two lines scroll both ways; the counters keep the code's rule (saturation at
  7 modulo 8, a repeat every 8) with 15 for 255 and 8 for 40. Keys go down one at a time. `MaxDepth`
  bounds a path that grows with each press while the card cannot be mounted.
* scan: the limit of devices is met, passed and not reached; bypassed devices stand anywhere in the chain,
  and some IDCODEs of three bits differ from the end of the chain in one bit only.
* numbers: lengths of one and two bytes, whole and padded, from no digit to two too many; digits that are
  no palindromes of bits; delays that round to nothing, fit, and exceed the int.
* web: two packets and two blocks leave a middle, where the card can be unmounted, replaced, or another
  request come. One file name is enough for what is programmed when; with a second one only the wrong
  name could be told from the right one, and that it may be wrong is in the hazards.
* f32c: two blocks have a first and a last one, two tries a late answer to the first, and three parts
  in the line one and a half checksums, so that halves of two answers meet.
* the session's files differ in length, so that one client's final packet can meet the other's middle.

Fairness. `TapWalk!FairSpec` has weak fairness of the walker's own steps: it is a loop on one CPU. Its
callers need not call again. `SvfSession!FairSpec` has weak fairness of `Handle`, because a callback that
has begun runs to its end in the network task, and for each client strong fairness of the delivery of
the packets of an upload that has begun: TCP delivers them as long as the connection lives, and
scans and other clients can only delay them. Nothing is assumed of a first packet, of a broken
connection, of the command line. `EveryUploadAnswered` is what they give: a response, unless it breaks.
`WebSd!FairSpec` has weak fairness of the steps of `loop()` alone: the framework calls it for ever, and it
waits for nothing the network task does. `F32cUpload!FairSpec` has weak fairness of the uploader's steps,
because every read from the line has a timeout. Nothing is assumed of the line, the card or the clients.

Deadlock is checked in all runs.

## Proofs

`TapPathProofs` holds what several proofs need of walks and pulses. Its leaves are tables of the sixteen
TAP states, decided by cases; no induction is needed, because a walk has at most eleven iterations and two
pulses with TMS low settle any device. `StepTracksDevice`: each entry of the walker's table agrees with
the device's. `WalkTracks`: a walk keeps belief equal to device. `WalkStays`: a set of states that is closed
under the table for some targets is not left by a walk to them; the lemmas on columns, captures and
shifts are instances. `StepsLeftFacts`: each iteration towards a reachable target brings it nearer, and
none is further than seven, so that `WalkArrives`. `LowsFacts` counts the edges of `n` pulses. (`ElevenSteps` is a
recursive function, whose existence `ElevenUnrolled` shows by exhibiting it.) The proofs
that need an induction take `AlongNumbers`: a set that holds 0, and with each number below `n` the next one, holds
all up to `n`. It follows from the least number that such a set lacks, and needs no operator as a parameter.
`RecursionExists` does the same for recursion, with a function in place of the operator: what is defined by a first
value and a step exists.

`TapWalkProofs` proves for every set of targets:

* `SyncInv`, and from it `BeliefIsDevice`, which alone is not inductive: it says nothing while `h->tap_state`
  is INIT, and when the six pulses are over it must be known that they have reset the device. `SyncInv` adds
  that after `j` pulses the device is at most `5 - j` pulses with TMS high from Test-Logic-Reset, or is there
  (`OnesApproachReset`).
* `ResultIsHonest`: `HonestInv` adds that iterations done and left are at most seven for a reachable target, so
  that the limit of eleven (`i > 10`) is met by the others only.
* `NoStrayUpdate` and `ColumnsAreSeparate`: `Ways` lists where a walk starts, ends and stays, and `WayInv` that it
  does; each is closed under the table (`WaysAreClosed`).
* `MatchesPath`: `PathInv` says, while the walk runs, that what is left of it leads from the wire it has
  reached to the one that `TapPath` gives for all of it. Each step takes one iteration, or one pulse, off
  what is left.
* `ChainIsFound`, for chains of any number of devices (`AnyChainIsFound`), from any state. The walks go from reset
  through Capture-DR, once (`ScanCaptures`), so that the chain's own bits come first, each device's behind those of
  the one before (`FlattenPlaces`). By induction on the rounds (`ScanFinds`), each round begins at the first bit
  of its device and has reported the identified ones among those before it (`Found`, `FoundMore`); one that begins
  behind the last device reads ones and ends the scan.

`SvfPlayerProofs` proves, for registers of any lengths, any parameters, end states, errors and broken uploads:

* `ComparisonIsAsked`, from `AskedInv`: wherever `has_tdo_data` is set, the TDO array was written by this upload
  at the register's present length. An array of another upload is only reachable through that flag, which
  each command and each start clears.
* `TypeOK`, from `TypeInv`. It is not by form: `bitdata_play` increments `h->tap_state`, and it must be known that
  it does so in a shift state and once a scan (`ScanPath`), or the state would leave its range.
* `BeliefIsDevice`, `ScanIsExact` and `ScansKeepTheirColumn`, from `OnWireInv`, if the device rests in the
  states that RUNTEST names (`RunStatesRest`: `OnLow(s) = s`). The code does not check this, and a file
  that says RUNTEST RESET makes belief wrong: TLC shows it, and then the next scan may be anything.
* `OnlyScansShift`, from `RestInv`: between commands the host is outside Shift-DR and Shift-IR. This needs besides
  that no command names them as its state (`NoShiftNamed`); SVF allows only RESET, IDLE and the two Pauses, but
  `token2tapstate` knows all sixteen. The two hypotheses are about files, and the configurations satisfy them.
* `NumbersAreRead`, for numbers of any length, any scan and any exponent (`AnyNumberIsRead`).
  `BitsOfValue`: four bits a digit, because adding a digit moves the others' bits up by four
  (`BitsOfSum`). `BitsAreStored`: `getbit` finds in the array, behind the padding, just the bit of the
  digit that `Index` has put there; a digit in front of the array is harmless as long as it is the only
  one and a zero. For delays, digits only make a number larger, so that no step of reading one that fits
  is narrowed (`WholeIsValue`); neither is a step of scaling it up (`ScaledUp`), and dividing by ten `m`
  times rounds down once (`ScaledDown`).

`XsvfPlayerProofs` proves, for any sizes, masks, repetitions and late reports:

* `SyncInv`, `TryIsExact` and `RetryIsFresh`, from `WireInv` (between commands no scan is under way; a
  running one is of one register and ends in IDLE, a Pause or Shift; where a repeated try begins if it
  ends in IDLE or with a delay) with the property of the try itself. That a repeated scan has captured
  anew follows from `WalkCaptures`: from IDLE there is no other way to Shift.
* `XsdrincCounts`, for registers and masks of any size. `CountInv` says that the masks lie within the register they
  were given for and have no bit in common, and that XSDRINC's register keeps its length through all retries.
  `CarryAddsOne` is the arithmetic: read off from the highest position to any other, the new number is one more
  than the old one if all address bits behind are ones, and the same if not.
* `VerdictIsHonest`. The verdict at the end follows from what is pending in between: `MissedInv` says that a
  mismatch which no repetition made good is still pending while the file is played, and `ScanInv` that a scan
  that may be repeated began with none pending, so that the repetition forgets only its own.

`SvfReaderProofs` proves `WritesFit` for every input, text and chunking, every `Threshold`, `FirstSize`
and `Margin` with the assumptions `SizesAssumption` (met by 64, 96 and 10). `WritesFit` speaks of the moment
behind the growth only; `BufferInv` adds that the buffer is empty or has been granted room for the
bytes in it up to two less than the margin (`IterationKeepsInv`), across packets and commands. It assumes
`CleanHandover`, because a file begun with `p > 0` has no buffer to hold its bytes.

It also proves the refinement, `ImplementsSource`, and `FileEndVerdict`, for texts of any length, cut
anywhere, after any sources. `SvfText` defines a text's commands on the whole text, with positions, sets
of them and counts, while the reader goes byte by byte; so the first half are lemmas on what one character
more does to each definition (`KeptGrows`, `CountGrows`, `PieceGrows`, `SpacedGrows`, `CollapsedGrows`,
`InCommentGrows`). Three are inductions. The prover cannot instantiate the library's induction theorems,
whose parameter is an operator, but it can use a set in its place: `SeqsGrow` says that a set with the
empty sequence, closed under `Append`, has all sequences, and follows from the least element of a set of
numbers. `FlatExists` shows in this way that the recursive function within `FlattenSeq` exists,
`KeptNothing` that nothing is kept where no position is, `CollapsedEnds` that removing blanks neither
makes nor hides one at the end.

The invariant is `ReadingInv`: what was delivered are the commands of the text, and while the source is live
(`Follows`), `buf`, `braket_mode` and `comment_mode` are the normalised rest of the text, its depth, and whether it
ends in a comment. It is not inductive without `Settled`. A comment's end of line is not a blank for the
code and is one for the reference, which agree because a comment finds the buffer at a blank or within brackets.
And the code recognises `//` by the last byte of the buffer, where the reference looks at the text: a
slash there is always the last character of the text, outside a comment (`Pending`), and when the second comes
and removes it, what is left is what there was before the first (`SecondSlash`, `SlashesVanish`).
The hypotheses are `CleanHandover` and `TextIsUsual` (the input is usual text), without which TLC finds the
differences named above.

`SvfSessionProofs` proves the safety that `svf_session` checks, for any clients, files, broken
connections, overlapping uploads, scans and failing allocations; `DoneIsHonest` for hosts that report
mismatches at once (`~Buffered`, as the ESP host does). The uploads that `BufferIsLive`, `LeftTidy`,
`UndisturbedBelief` and `DoneIsHonest` except are the same in the theorems. None of it is inductive,
because everything is decided by what lies between the handler's statics and the player's: `SessionInv`
says which packet is in hand at each call (`JobInv`), how `expect_index` and the pieces played hang
together (`OrderInv`), that a stream that failed is not called done (`ReportInv`). As long as no other
upload runs beside, nobody else is sending between two packets, the stream is the client's own, what is
fed was not freed, and a stream that has ended has freed its buffer, whatever is scanned in between
(`AloneInv`, with `Running` and `EndedIsFreed`); if nothing is scanned either, pins stay driven and every
piece that went wrong is known to `rc` (`IdleInv`, `HandledInv`).

`WebSdProofs` proves `CardInv`, `SaveAnswerIsHonest`, `OledReadyElsewhere` and `NothingTwice` for any
number of packets and blocks, any files and every interleaving of the two tasks. `WebInv` has five parts.
`ControlInv`: only statements that call `sd_mount` or `sd_unmount` are ever within them. `HeldInv`: a card
that the SD library has begun, and that is not kept on purpose, has a task that will give it back; one
that is within a call, or one with its unmount still before it while `sd_mounted` is true, so that it will
not skip it. It is what makes `CardInv`, which speaks of rest only, hold through every race of the two
flags. `UploadInv`: pieces are counted, and all went to the same place as long as no write failed, from
which `SaveAnswerIsHonest` follows at the last one. `OledInv`: who is attached, or lists as a handler, has
an OLED that is ready. `RequestInv`: until `loop()` is behind the opening, whoever asked for a file has
assigned a name that was not opened since, or is just about to (`CommandLine`, the exception that
`NothingTwice` makes). `LoopFlow` and `NetFlow` say where statements lead; the rest of the proof does not
look into the tables.

`SdProofs` has two parts. `JumpIsSafe` and `VerdictIsHonest` of `F32cUpload` hold for any blocks, checksums, tries
and buffer. `UploadInv` adds where the core's checksum can come from (`HeldInv`: from before, from garbage, or
from a block up to the one in hand, which is then in memory) and that a part of an answer that came since
the last sending is half of just that checksum (`Sincere`). `FaultlessInv` is what a line without faults leaves
empty between two requests, which makes the verdict honest.

`ScreenIsTrue` and `ChosenWasLit` of `FileBrowser` hold for any card, screen, hold counters and changes
from the web. Both need that the cursor is on an entry and in the window (`CursorInViewAlways`), and this
needs `PlaceInv`: in an empty directory cursor and window are at 0, or a key would scroll a screen that
shows nothing. `RedrawingsAgree` is the heart: the line left and the line reached, drawn over the old
screen, make the new one, because the window has not moved when they are drawn (`WindowFollows`).

`ListingIsDirectory` holds for directories of any size. That both passes are functions at all is
`FirstExists` and `SecondExists`, by induction along the entries (`AlongEntries`, a set in place of a
predicate). `SecondCounts` says that the second pass counts what the first has counted, so that every name
fits; `SecondWrites` that each entry's slot goes on pointing at its name, because no two have a slot or a
place in common (`PlacesDiffer`); there are as many slots as entries, so that none is left unwritten
(`SlotsArePlaces`, which takes a pigeonhole argument). `SortedIsInOrder` takes another: ranks are smaller
than the number of entries and differ. That names in a directory differ is kept by every change of the
card (`ChangesKeepCard`). From the listing follow the types in `CursorInv` (`CursorInvAlways`): a path is
only ever extended by a name that was listed.

Every safety invariant and every action property that a passing run checks is proved. Only model-checked
is liveness, which is out of the prover's reach: `WalkReturns`, `EveryUploadAnswered`, `RequestsEnd`,
`UploadEnds`. The hypotheses that some theorems make (`CleanHandover`, `TextIsUsual`, `RunStatesRest`,
`NoShiftNamed`, `~Buffered`) are about files, texts and hosts; they are met by the constants of the
passing runs and named in the theorems.

What the models show to fail, and no run states because nothing in the repository promises it:
`SvfSession!BeliefIsDevice` in an upload that a scan came into; `SvfSession!BufferIsLive` without its
exception, as told above; that a block survives a failed realloc, which overwrites its only pointer
(`svf.c:55`); `SvfPlayer!BeliefIsDevice` with RUNTEST in RESET, which the device leaves; `WebSd!OledReady`
and `WebSd!BinaryGetsF32c` (see the hazards at `websvf_sd.ino:258` and `web.cpp:27`).

## Not modelled

* TRST, FREQUENCY and PIO of SVF, clock rates, verbosity, the time that passes: none of it decides what a
  later command does; of delays only RUNTEST's numbers, and whether there is one;
* the data of XSVF but XSDRINC's: they are compared by the device's choice;
* the bits that `rmask` catches on the ESP host: only code that is compiled out reports them;
* both tasks of `websvf_sd` inside the one packet player, or one in `read_directory` while the other draws:
  data races in every statement, on freed memory in part, for which no outcome can be promised;
* the configuration file of `websvf_sd`, WiFi, pages, the GPIO host, name tables: no behaviour of their own
  that another component depends on;
* an asynchronous host is in `SvfSession` (`Buffered`) but in no run: the hosts of the repository that take
  packets have no sync callback. With `Buffered = TRUE`, `DoneIsHonest` fails, because the mismatch is only
  seen after "Done".

## Plan

What is left, in the order of its worth:

1. `SvfSession` within `WebSd`: uploads of several clients to card and player at once.
2. The GPIO host's late reports beneath `SvfPlayer`, as they are beneath `XsvfPlayer`.
