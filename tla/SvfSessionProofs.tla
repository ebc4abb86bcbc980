-------------------------- MODULE SvfSessionProofs --------------------------
(***************************************************************************)
(* What the upload handler and the packet player promise, proved for any   *)
(* number of clients, any files, and all connections that break, uploads   *)
(* that overlap and scans that come in between.                            *)
(***************************************************************************)
EXTENDS SvfSession, TLAPS

Entry == [client : Clients, piece : Nat \ {0}, ok : BOOLEAN]

OfPacket == job.kind = "packet"
InHand   == pc \in {"setup", "start", "feed"} /\ OfPacket    \* the packet is not played yet
Played   == pc \in {"close", "sync", "shutdown", "free", "answer"} /\ OfPacket

Typed ==
  /\ sending \in [Clients -> Nat] /\ expect_index \in Nat /\ out_of_order \in Nat
  /\ pc \in {"idle", "setup", "start", "feed", "close", "scan", "sync", "shutdown",
             "free", "answer"}
  /\ given \in Seq(Entry) /\ rc \in {0, -1}

(* What is being handled: a scan, or a packet of a client.                 *)
JobInv ==
  /\ pc \in {"start", "feed", "close", "free", "answer"} => OfPacket
  /\ pc = "scan" => job.kind = "scan"
  /\ pc \in {"setup", "sync", "shutdown"} => job.kind \in {"packet", "scan"}
  /\ OfPacket => job.client \in Clients /\ job.index \in Nat
                 /\ (job.final <=> job.index + 1 = Pieces[job.client])
  /\ InHand => sending[job.client] = IF job.final THEN 0 ELSE job.index + 1
  /\ Played => job.final /\ sending[job.client] = 0
  /\ pc \in {"start", "scan"} => pins = "driven"

(* The pieces played are the packets that came in order: as many as        *)
(* expect_index says, but for the one in hand.                             *)
OrderInv ==
  /\ PlayedContiguous
  /\ (InHand \/ Played) => expect_index = job.index + 1
  /\ (InHand \/ (Played /\ pc # "answer")) => out_of_order = 0
  /\ InHand /\ pc # "feed" => job.index = 0
  /\ pc = "feed" => Len(given) = job.index
  /\ ~InHand /\ out_of_order = 0 => Len(given) = expect_index

(* A failed stream is never reported as done.                              *)
ReportInv ==
  /\ rc = -1 => report # "Done"
  /\ pc = "close" /\ rc = -1 => ret = -1
  /\ pending => Buffered

(* The stream is the client's own, nobody else is sending, and nothing of  *)
(* the stream went wrong unless rc says so.                                *)
Streams(c) == \A n \in DOMAIN given : given[n].client = c
Alone(c)   == \A d \in Clients \ {c} : sending[d] = 0
Sound      == rc = 0 /\ ~Buffered => \A n \in DOMAIN given : given[n].ok

(* Between two packets, a scan or not, the client that is sending is where *)
(* its last packet left it, and a stream that has ended has freed its      *)
(* buffer.                                                                 *)
Between == pc = "idle" \/ ~OfPacket

Running(c) ==
  sending[c] > 0 =>
    /\ Alone(c) /\ Streams(c) /\ out_of_order = 0 /\ expect_index = sending[c]
    /\ command_buffer # "freed"

EndedIsFreed ==
  given # <<>> /\ sending[Owner] = 0 /\ Owner \notin broken => command_buffer # "live"

(* So it is as long as no other upload runs beside.                        *)
AloneInv ==
  /\ ~overlapped =>
       /\ Between => EndedIsFreed /\ \A c \in Clients : Running(c)
       /\ InHand \/ Played => Alone(job.client)
       /\ Played \/ pc = "feed" => Streams(job.client)
       /\ pc \in {"feed", "close"} \/ (pc \in {"sync", "shutdown", "free"} /\ OfPacket) =>
            command_buffer # "freed"
       /\ pc = "free" => pins = "released"
       /\ pc = "answer" => out_of_order = 0 /\ pins = "released" /\ command_buffer # "live"
  /\ LeftTidy

(* If no scan comes in either, pins stay driven and what is played arrives.*)
IdleInv ==
  ~disturbed /\ pc = "idle" => \A c \in Clients : sending[c] > 0 => Sound /\ pins = "driven"

HandledInv ==
  ~disturbed =>
    /\ Played \/ pc = "feed" => Sound
    /\ pc \in {"feed", "close"} => pins = "driven"
    /\ pc # "idle" /\ ~OfPacket => \A c \in Clients : sending[c] = 0

BeliefInv == /\ UndisturbedBelief
             /\ pc = "start" => tap_state = INIT

SessionInv ==
  /\ Typed /\ JobInv /\ OrderInv /\ ReportInv
  /\ AloneInv /\ IdleInv /\ HandledInv /\ BeliefInv /\ (~Buffered => DoneIsHonest)

-----------------------------------------------------------------------------
LEMMA DisturbedIs == /\ disturbed = (overlapped \/ scanned)
                     /\ UNCHANGED others => disturbed' = disturbed
BY DEF disturbed, others

LEMMA Files == Pieces \in [Clients -> Nat \ {0}]
BY SessionAssumption

LEMMA NextPiece ==
  ASSUME NEW n \in Nat, NEW k \in 0 .. n - 1, k + 1 # n PROVE k + 1 \in 0 .. n - 1
OBVIOUS

(* Nothing is being sent and nothing was played.                           *)
LEMMA SessionInit == Init => SessionInv
<1> SUFFICES ASSUME Init PROVE SessionInv
  OBVIOUS
<1>1. /\ ~OfPacket /\ ~InHand /\ ~Played /\ job.kind = "none" /\ pc = "idle"
      /\ given = <<>> /\ Len(given) = 0
  BY DEF Init, OfPacket, InHand, Played, NoJob
<1> sending = [c \in Clients |-> 0] /\ expect_index = 0 /\ out_of_order = 0 /\ rc = 0 /\ ~pending
  BY DEF Init
<1>2. Typed /\ JobInv
  <2>1. <<>> \in Seq(Entry)
    OBVIOUS
  <2>2. QED
    BY <1>1, <2>1 DEF Typed, JobInv
<1>3. OrderInv /\ ReportInv
  BY <1>1 DEF OrderInv, ReportInv, PlayedContiguous
<1>4. AloneInv /\ IdleInv
  BY <1>1 DEF AloneInv, Between, Running, EndedIsFreed, LeftTidy, IdleInv
<1>5. HandledInv
  BY <1>1 DEF HandledInv
<1>6. BeliefInv /\ DoneIsHonest
  BY DEF Init, BeliefInv, UndisturbedBelief, BeliefIsDevice, DoneIsHonest
<1>7. QED
  BY <1>2, <1>3, <1>4, <1>5, <1>6 DEF SessionInv

(* A packet arrives: in its order, or it is not played.                    *)
LEMMA PacketKeeps == ASSUME SessionInv, NEW c \in Clients, Packet(c) PROVE SessionInv'
<1> USE Files DEF SessionInv, Typed
<1> DEFINE index == sending[c]
           final == index + 1 = Pieces[c]
<1>1. /\ pc = "idle" /\ index \in Nat /\ out_of_order' = Count(index) /\ expect_index' = index + 1
      /\ sending' = [sending EXCEPT ![c] = IF final THEN 0 ELSE index + 1]
      /\ overlapped' = (overlapped \/ Others(c)) /\ scanned' = scanned
      /\ UNCHANGED <<command_buffer, rc, leaked, given, ret, report, host, answer>>
  BY DEF Packet
<1>2. /\ OfPacket' /\ job'.client = c /\ job'.index = index /\ (job'.final <=> final)
  BY DEF Packet, OfPacket
<1>3. pc' \in {"setup", "feed", "answer", "idle"}
      /\ (pc' = "setup" <=> out_of_order' = 0 /\ index = 0)
      /\ (pc' = "feed" <=> out_of_order' = 0 /\ index # 0)
      /\ (pc' = "answer" <=> out_of_order' # 0 /\ final)
  BY DEF Packet
<1>4. /\ out_of_order' \in Nat
      /\ index = 0 => out_of_order' = 0
      /\ index # 0 => (out_of_order' = 0 <=> out_of_order = 0 /\ index = expect_index)
  BY <1>1 DEF Count
<1>5. Typed' /\ JobInv'
  BY <1>1, <1>2, <1>3, <1>4 DEF JobInv, InHand, Played, OfPacket
<1>6. OrderInv' /\ ReportInv'
  BY <1>1, <1>2, <1>3, <1>4 DEF OrderInv, ReportInv, InHand, Played, PlayedContiguous, host
<1>7. ASSUME ~overlapped'
      PROVE  /\ ~overlapped /\ Alone(c) /\ Alone(c)' /\ out_of_order' = 0
             /\ index # 0 => Streams(c) /\ command_buffer # "freed"
  <2>1. ~overlapped /\ Alone(c)
    <3>1. ~overlapped /\ ~Others(c)
      BY <1>1, <1>7
    <3>2. QED
      BY <3>1 DEF Others, Alone
  <2>2. index # 0 => /\ Streams(c) /\ out_of_order = 0 /\ expect_index = index
                     /\ command_buffer # "freed"
    BY <1>1, <2>1 DEF AloneInv, Between, Running
  <2>3. QED
    BY <1>1, <1>4, <2>1, <2>2 DEF Alone
<1>8. AloneInv'
  <2>1. CASE overlapped'
    BY <2>1 DEF AloneInv, LeftTidy
  <2>2. CASE ~overlapped'
    <3>1. pc' \in {"setup", "feed"} /\ ~Between' /\ ~Played'
      BY <1>2, <1>3, <1>7, <2>2 DEF Between, Played
    <3>2. pc' = "feed" => Streams(c)' /\ command_buffer' # "freed"
      BY <1>1, <1>3, <1>7, <2>2 DEF Streams
    <3>3. QED
      BY <1>2, <1>7, <2>2, <3>1, <3>2 DEF AloneInv, LeftTidy
  <2>3. QED
    BY <2>1, <2>2
<1>9. IdleInv' /\ HandledInv'
  <2> SUFFICES ASSUME ~disturbed' PROVE IdleInv' /\ HandledInv'
    BY DEF IdleInv, HandledInv
  <2>1. ~overlapped' /\ ~disturbed
    BY <1>1 DEF disturbed
  <2>2. pc' \in {"setup", "feed"} /\ ~Played'
    BY <1>2, <1>3, <1>7, <2>1 DEF Played
  <2>3. pc' = "feed" => Sound' /\ pins' = "driven"
    BY <1>1, <1>3, <2>1 DEF IdleInv, Sound, host
  <2>4. QED
    BY <1>2, <2>2, <2>3 DEF IdleInv, HandledInv
<1>10. BeliefInv' /\ (~Buffered => DoneIsHonest')
  BY <1>1, <1>3 DEF BeliefInv, UndisturbedBelief, BeliefIsDevice, DoneIsHonest, host, disturbed
<1>11. QED
  BY <1>5, <1>6, <1>8, <1>9, <1>10

(* A connection breaks, and a command line comes.                          *)
LEMMA BreakKeeps == ASSUME SessionInv, NEW c \in Clients, Break(c) PROVE SessionInv'
<1> USE DEF SessionInv, Typed
<1>1. /\ pc = "idle" /\ sending' = [sending EXCEPT ![c] = 0] /\ broken' = broken \union {c}
      /\ UNCHANGED <<expect_index, out_of_order, pc, job, player, ret, report, host, answer>>
  BY DEF Break
<1>2. Typed' /\ JobInv' /\ OrderInv' /\ ReportInv'
  BY <1>1 DEF JobInv, OrderInv, ReportInv, InHand, Played, OfPacket, PlayedContiguous, player, host
<1>3. disturbed' = disturbed /\ overlapped' = overlapped
  BY <1>1, DisturbedIs DEF player, others
<1>4. \A d \in Clients : sending'[d] > 0 => sending'[d] = sending[d]
  BY <1>1
<1>5. AloneInv'
  <2>1. \A d \in Clients : Running(d) => Running(d)'
    <3>1. \A d \in Clients : Alone(d) => Alone(d)'
      BY <1>1 DEF Alone
    <3>2. QED
      BY <1>1, <1>4, <3>1 DEF Running, Streams, player
  <2>2. given # <<>> => Owner \in Clients
    <3> SUFFICES ASSUME given # <<>> PROVE Owner \in Clients
      OBVIOUS
    <3>1. 1 \in DOMAIN given /\ given[1] \in Entry
      OBVIOUS
    <3>2. QED
      BY <3>1 DEF Owner, Entry
  <2>3. Owner' = Owner
    BY <1>1 DEF Owner, player
  <2>4. given' # <<>> /\ sending'[Owner'] = 0 /\ Owner' \notin broken' =>
          given # <<>> /\ sending[Owner] = 0 /\ Owner \notin broken
    BY <1>1, <2>2, <2>3 DEF player
  <2>5. EndedIsFreed => EndedIsFreed'
    BY <1>1, <2>4 DEF EndedIsFreed, player
  <2>6. LeftTidy'
    BY <1>1, <1>3, <2>4 DEF AloneInv, LeftTidy, player, host
  <2>7. QED
    BY <1>1, <1>3, <2>1, <2>5, <2>6 DEF AloneInv, Between, InHand, Played
<1>6. IdleInv'
  BY <1>1, <1>3, <1>4 DEF IdleInv, Sound, player, host
<1>7. HandledInv' /\ BeliefInv' /\ (~Buffered => DoneIsHonest')
  BY <1>1, <1>3 DEF HandledInv, Played, BeliefInv, UndisturbedBelief, BeliefIsDevice,
                    DoneIsHonest, player, host
<1>8. QED
  BY <1>2, <1>5, <1>6, <1>7

LEMMA CommandLineKeeps == ASSUME SessionInv, CommandLine PROVE SessionInv'
<1> USE DEF SessionInv, Typed
<1>1. pc = "idle" /\ pc' = "setup" /\ job' = [kind |-> "scan"] /\ overlapped' = overlapped
      /\ scanned' = (scanned \/ \E c \in Clients : sending[c] > 0)
      /\ UNCHANGED <<handler, command_buffer, rc, leaked, given, ret, report, host, broken, answer>>
  BY DEF CommandLine
<1>2. Typed' /\ JobInv' /\ OrderInv' /\ ReportInv'
  BY <1>1 DEF JobInv, OrderInv, ReportInv, InHand, Played, OfPacket, PlayedContiguous, handler, host
<1>3. ~OfPacket' /\ ~InHand' /\ ~Played' /\ sending' = sending
  BY <1>1 DEF InHand, Played, OfPacket, handler
<1>4. AloneInv'
  BY <1>1, <1>3 DEF AloneInv, Between, Running, EndedIsFreed, Owner, Alone, Streams, LeftTidy, handler
<1>5. IdleInv' /\ HandledInv'
  <2>1. ~disturbed' => \A c \in Clients : ~(sending[c] > 0)
    BY <1>1 DEF disturbed
  <2>2. ~disturbed' => \A c \in Clients : sending'[c] = 0
    BY <1>3, <2>1
  <2>3. QED
    BY <1>1, <1>3, <2>2 DEF IdleInv, HandledInv
<1>6. BeliefInv' /\ (~Buffered => DoneIsHonest')
  BY <1>1 DEF BeliefInv, UndisturbedBelief, BeliefIsDevice, DoneIsHonest, host, disturbed
<1>7. QED
  BY <1>2, <1>4, <1>5, <1>6

-----------------------------------------------------------------------------
(* The pins are driven, and the player forgets where the TAP was.          *)
LEMMA SetupKeeps == ASSUME SessionInv, Setup PROVE SessionInv'
<1> USE DEF SessionInv, Typed
<1>1. /\ pc = "setup" /\ pc' \in {"start", "scan"} /\ (pc' = "start" <=> OfPacket)
      /\ tap_state' = INIT /\ pins' = "driven"
      /\ UNCHANGED <<handler, job, player, ret, report, pending, broken, answer>>
  BY DEF Setup, OfPacket, JobInv
<1>2. (OfPacket' <=> OfPacket) /\ (InHand' <=> InHand) /\ ~Played' /\ ~Played
  BY <1>1 DEF OfPacket, InHand, Played
<1>3. Typed' /\ JobInv' /\ OrderInv' /\ ReportInv'
  <2>1. Typed' /\ ReportInv'
    BY <1>1 DEF ReportInv, handler, player
  <2>2. JobInv'
    BY <1>1, <1>2 DEF JobInv, OfPacket, handler
  <2>3. OrderInv'
    BY <1>1, <1>2 DEF OrderInv, PlayedContiguous, handler, player
  <2>4. QED
    BY <2>1, <2>2, <2>3
<1>4. disturbed' = disturbed
  BY <1>1, DisturbedIs DEF player
<1>5. AloneInv'
  BY <1>1, <1>2 DEF AloneInv, Between, Running, EndedIsFreed, Owner, Alone, Streams, LeftTidy,
                    handler, player, others
<1>6. IdleInv' /\ HandledInv'
  BY <1>1, <1>2, <1>4 DEF IdleInv, HandledInv, handler
<1>7. BeliefInv' /\ (~Buffered => DoneIsHonest')
  BY <1>1 DEF BeliefInv, UndisturbedBelief, BeliefIsDevice, DoneIsHonest
<1>8. QED
  BY <1>3, <1>5, <1>6, <1>7

(* A stream begins: nothing is played, and no error is left.               *)
LEMMA StreamKeeps == ASSUME SessionInv, StartStream PROVE SessionInv'
<1> USE DEF SessionInv, Typed
<1>1. /\ pc = "start" /\ pc' = "feed" /\ command_buffer' = "null" /\ rc' = 0 /\ given' = <<>>
      /\ overlapped' = Others(job.client) /\ scanned' = FALSE /\ report' = "Start"
      /\ UNCHANGED <<handler, job, ret, host, answer>>
  BY DEF StartStream
<1>2. OfPacket /\ OfPacket' /\ InHand /\ InHand' /\ ~Played /\ ~Played' /\ job.client \in Clients
  BY <1>1 DEF OfPacket, InHand, Played, JobInv
<1>3. given' \in Seq(Entry) /\ Len(given') = 0
  <2>1. <<>> \in Seq(Entry) /\ Len(<<>>) = 0
    OBVIOUS
  <2>2. QED
    BY <1>1, <2>1
<1>4. Typed' /\ JobInv' /\ ReportInv'
  BY <1>1, <1>2, <1>3 DEF JobInv, ReportInv, handler, host
<1>5. OrderInv'
  BY <1>1, <1>2, <1>3 DEF OrderInv, PlayedContiguous, handler
<1>6. Streams(job.client)' /\ Sound'
  BY <1>3 DEF Streams, Sound
<1>7. AloneInv'
  <2>1. CASE overlapped'
    BY <1>1, <2>1 DEF AloneInv, LeftTidy
  <2>2. CASE ~overlapped'
    <3>1. Alone(job.client)
      <4>1. ~Others(job.client)
        BY <1>1, <2>2
      <4>2. QED
        BY <1>2, <4>1 DEF Others, Alone
    <3>2. ~Between'
      BY <1>1, <1>2 DEF Between
    <3>3. QED
      BY <1>1, <1>2, <1>6, <2>2, <3>1, <3>2 DEF AloneInv, Alone, LeftTidy, handler
  <2>3. QED
    BY <2>1, <2>2
<1>8. IdleInv' /\ HandledInv'
  BY <1>1, <1>2, <1>6 DEF IdleInv, HandledInv, JobInv, host
<1>9. BeliefInv' /\ (~Buffered => DoneIsHonest')
  BY <1>1 DEF BeliefInv, UndisturbedBelief, BeliefIsDevice, DoneIsHonest, host
<1>10. QED
  BY <1>4, <1>5, <1>7, <1>8, <1>9

-----------------------------------------------------------------------------
(* What all four outcomes of libxsvf_feed(1) have in common: the packet is *)
(* the next piece, and an error is kept.                                   *)
LEMMA FedKeeps ==
  ASSUME SessionInv, pc = "feed",
         \E ok \in BOOLEAN : Fed(ok) /\ (~disturbed /\ ~Buffered /\ rc' = 0 => ok),
         rc' \in {0, -1}, rc = -1 => rc' = -1,
         rc' = -1 => report' # "Done" /\ ret' = -1,
         pending' => Buffered,
         pins' = pins, ~overlapped => command_buffer' # "freed", UndisturbedBelief'
  PROVE  SessionInv'
<1> USE DEF SessionInv, Typed
<1> PICK ok \in BOOLEAN : Fed(ok) /\ (~disturbed /\ ~Buffered /\ rc' = 0 => ok)
  OBVIOUS
<1> DEFINE entry == [client |-> job.client, piece |-> job.index + 1, ok |-> ok]
<1>1. /\ given' = Append(given, entry) /\ pc' = (IF job.final THEN "close" ELSE "idle")
      /\ UNCHANGED <<handler, job, overlapped, answer>> /\ disturbed' = disturbed
  BY DisturbedIs DEF Fed, others
<1>2. OfPacket /\ OfPacket' /\ InHand /\ ~Played /\ ~InHand' /\ (Played' <=> job.final)
      /\ job.client \in Clients /\ job.index \in Nat /\ Len(given) = job.index
      /\ expect_index = job.index + 1
  BY <1>1 DEF OfPacket, InHand, Played, JobInv, OrderInv
<1>3. entry \in Entry
  BY <1>2 DEF Entry
<1>4. /\ given' \in Seq(Entry) /\ Len(given') = Len(given) + 1
      /\ \A n \in DOMAIN given : given'[n] = given[n]
      /\ given'[Len(given) + 1] = entry
      /\ DOMAIN given' = DOMAIN given \union {Len(given) + 1}
  <2> HIDE DEF entry
  <2>1. QED
    BY <1>1, <1>3
<1>5. Typed' /\ ReportInv'
  BY <1>1, <1>4 DEF ReportInv, handler
<1>6. JobInv'
  BY <1>1, <1>2 DEF JobInv, handler
<1>7. OrderInv'
  <2>1. PlayedContiguous'
    BY <1>2, <1>4 DEF OrderInv, PlayedContiguous
  <2>2. QED
    BY <1>1, <1>2, <1>4, <2>1 DEF OrderInv, handler
<1>8. ASSUME ~overlapped PROVE Streams(job.client)' /\ Alone(job.client)
  <2>1. Streams(job.client) /\ Alone(job.client)
    BY <1>2, <1>8 DEF AloneInv
  <2>2. ASSUME NEW n \in DOMAIN given' PROVE given'[n].client = job.client
    BY <1>4, <2>1 DEF Streams
  <2>3. QED
    BY <1>1, <2>1, <2>2 DEF Streams
<1>9. AloneInv'
  <2>1. CASE overlapped'
    BY <2>1 DEF AloneInv, LeftTidy
  <2>2. CASE ~overlapped'
    <3>1. Streams(job.client)' /\ Alone(job.client)' /\ Alone(job.client) /\ ~overlapped
      BY <1>1, <1>8, <2>2 DEF Alone, handler
    <3>2. Owner' = job.client
      BY <1>1, <1>2, <1>4, <3>1 DEF Streams, Owner
    <3>3. ASSUME pc' = "idle" PROVE sending'[job.client] # 0 /\ \A c \in Clients : Running(c)'
      <4>1. sending'[job.client] = job.index + 1 /\ out_of_order' = 0 /\ expect_index' = job.index + 1
        BY <1>1, <1>2, <3>3 DEF JobInv, OrderInv, handler
      <4>2. Running(job.client)'
        BY <1>1, <2>2, <3>1, <4>1 DEF Running, Streams, Alone
      <4>3. ASSUME NEW c \in Clients, c # job.client PROVE Running(c)'
        <5>1. sending'[c] = 0
          BY <1>1, <3>1, <4>3 DEF Alone, handler
        <5>2. QED
          BY <5>1 DEF Running
      <4>4. sending'[job.client] # 0
        BY <1>2, <4>1
      <4>5. ASSUME NEW c \in Clients, c = job.client PROVE Running(c)'
        BY <1>1, <4>2, <4>5
      <4>6. QED
        BY <4>3, <4>4, <4>5
    <3>4. pc' = "idle" => EndedIsFreed' /\ LeftTidy'
      BY <3>2, <3>3 DEF EndedIsFreed, LeftTidy
    <3>5. Between' <=> pc' = "idle"
      BY <1>2 DEF Between
    <3>6. LeftTidy'
      BY <3>4 DEF LeftTidy
    <3>7. QED
      BY <1>1, <1>2, <2>2, <3>1, <3>3, <3>4, <3>5, <3>6 DEF AloneInv
  <2>3. QED
    BY <2>1, <2>2
<1>10. IdleInv' /\ HandledInv'
  <2> SUFFICES ASSUME ~disturbed PROVE Sound' /\ pins' = "driven"
    BY <1>1, <1>2 DEF IdleInv, HandledInv
  <2>1. Sound /\ pins = "driven"
    BY DEF HandledInv
  <2>2. ASSUME rc' = 0, ~Buffered, NEW n \in DOMAIN given' PROVE given'[n].ok
    <3>1. CASE n \in DOMAIN given
      BY <1>4, <2>1, <2>2, <3>1 DEF Sound
    <3>2. CASE n = Len(given) + 1
      BY <1>4, <2>2, <3>2
    <3>3. QED
      BY <1>4, <3>1, <3>2
  <2>3. QED
    BY <2>1, <2>2 DEF Sound
<1>11. BeliefInv' /\ (~Buffered => DoneIsHonest')
  BY <1>1 DEF BeliefInv, DoneIsHonest
<1>12. QED
  BY <1>5, <1>6, <1>7, <1>9, <1>10, <1>11

(* The four outcomes.                                                      *)
LEMMA FeedKeeps ==
  ASSUME SessionInv, FeedPlays \/ FeedMismatches \/ FeedFails \/ FeedRefuses
  PROVE  SessionInv'
<1> USE DEF SessionInv, Typed
<1>1. pc = "feed"
  BY DEF FeedPlays, FeedMismatches, FeedFails, FeedRefuses
<1>2. /\ ~disturbed => pins = "driven" /\ BeliefIsDevice
      /\ ~overlapped => command_buffer # "freed"
  BY <1>1 DEF AloneInv, HandledInv, BeliefInv, UndisturbedBelief
<1>3. ASSUME NEW t \in {tap_state, IDLE}, Clocks(t), disturbed' = disturbed
      PROVE  pins' = pins /\ UndisturbedBelief'
  BY <1>2, <1>3 DEF Clocks, UndisturbedBelief, BeliefIsDevice
<1>4. CASE FeedPlays
  <2>1. /\ rc = 0 /\ rc' = 0 /\ pending' = pending /\ Fed(pins = "driven")
        /\ disturbed' = disturbed /\ command_buffer' \in {"live", command_buffer}
    BY <1>4, DisturbedIs DEF FeedPlays, Allocated, Fed
  <2>2. pins' = pins /\ UndisturbedBelief'
    BY <1>3, <1>4, <2>1 DEF FeedPlays
  <2>3. \E ok \in BOOLEAN : Fed(ok) /\ (~disturbed /\ ~Buffered /\ rc' = 0 => ok)
    <3>1. (pins = "driven") \in BOOLEAN
      OBVIOUS
    <3>2. QED
      BY <1>2, <2>1, <3>1, Zenon
  <2>4. /\ rc' \in {0, -1} /\ (rc = -1 => rc' = -1)
        /\ rc' = -1 => report' # "Done" /\ ret' = -1
        /\ pending' => Buffered
        /\ ~overlapped => command_buffer' # "freed"
    BY <1>2, <2>1, <2>2 DEF ReportInv
  <2> HIDE DEF SessionInv, Typed
  <2>5. QED
    BY <1>1, <2>2, <2>3, <2>4, FedKeeps
<1>5. CASE FeedMismatches
  <2>1. /\ rc = 0 /\ Fed(FALSE) /\ disturbed' = disturbed
        /\ command_buffer' \in {"live", command_buffer}
        /\ \/ rc' = -1 /\ ret' = -1 /\ report' = "error" /\ pending' = pending
           \/ Buffered /\ rc' = 0 /\ pending' = TRUE
    BY <1>5, DisturbedIs DEF FeedMismatches, Allocated, Fed
  <2>2. pins' = pins /\ UndisturbedBelief'
    BY <1>3, <1>5, <2>1 DEF FeedMismatches
  <2>3. \E ok \in BOOLEAN : Fed(ok) /\ (~disturbed /\ ~Buffered /\ rc' = 0 => ok)
    <3>1. ~(~Buffered /\ rc' = 0) /\ FALSE \in BOOLEAN
      BY <2>1
    <3>2. QED
      BY <2>1, <3>1, Zenon
  <2>4. /\ rc' \in {0, -1} /\ (rc = -1 => rc' = -1)
        /\ rc' = -1 => report' # "Done" /\ ret' = -1
        /\ pending' => Buffered
        /\ ~overlapped => command_buffer' # "freed"
    BY <1>2, <2>1, <2>2 DEF ReportInv
  <2> HIDE DEF SessionInv, Typed
  <2>5. QED
    BY <1>1, <2>2, <2>3, <2>4, FedKeeps
<1>6. CASE FeedFails
  <2>1. /\ rc' = -1 /\ ret' = -1 /\ report' = "error" /\ pending' = pending /\ Fed(FALSE)
        /\ disturbed' = disturbed /\ command_buffer' \in {"live", "null", command_buffer}
    BY <1>6, DisturbedIs DEF FeedFails, Allocated, Fed
  <2>2. pins' = pins /\ UndisturbedBelief'
    BY <1>3, <1>6, <2>1 DEF FeedFails
  <2>3. \E ok \in BOOLEAN : Fed(ok) /\ (~disturbed /\ ~Buffered /\ rc' = 0 => ok)
    <3>1. ~(~Buffered /\ rc' = 0) /\ FALSE \in BOOLEAN
      BY <2>1
    <3>2. QED
      BY <2>1, <3>1, Zenon
  <2>4. /\ rc' \in {0, -1} /\ (rc = -1 => rc' = -1)
        /\ rc' = -1 => report' # "Done" /\ ret' = -1
        /\ pending' => Buffered
        /\ ~overlapped => command_buffer' # "freed"
    BY <1>2, <2>1, <2>2 DEF ReportInv
  <2> HIDE DEF SessionInv, Typed
  <2>5. QED
    BY <1>1, <2>2, <2>3, <2>4, FedKeeps
<1>7. CASE FeedRefuses
  <2>1. /\ rc = -1 /\ rc' = -1 /\ ret' = -1 /\ Fed(FALSE) /\ disturbed' = disturbed
        /\ UNCHANGED <<command_buffer, report, host>>
    BY <1>7, DisturbedIs DEF FeedRefuses, Fed
  <2>2. pins' = pins /\ pending' = pending /\ UndisturbedBelief' /\ report # "Done"
    BY <1>2, <2>1 DEF host, UndisturbedBelief, BeliefIsDevice, ReportInv
  <2>3. \E ok \in BOOLEAN : Fed(ok) /\ (~disturbed /\ ~Buffered /\ rc' = 0 => ok)
    <3>1. ~(~Buffered /\ rc' = 0) /\ FALSE \in BOOLEAN
      BY <2>1
    <3>2. QED
      BY <2>1, <3>1, Zenon
  <2>4. /\ rc' \in {0, -1} /\ (rc = -1 => rc' = -1)
        /\ rc' = -1 => report' # "Done" /\ ret' = -1
        /\ pending' => Buffered
        /\ ~overlapped => command_buffer' # "freed"
    BY <1>2, <2>1, <2>2 DEF ReportInv
  <2> HIDE DEF SessionInv, Typed
  <2>5. QED
    BY <1>1, <2>2, <2>3, <2>4, FedKeeps
<1>8. QED
  BY <1>4, <1>5, <1>6, <1>7

-----------------------------------------------------------------------------
(* What the steps behind the last feed have in common: nothing is played.  *)
LEMMA AfterFeed ==
  ASSUME SessionInv, pc \in {"close", "scan", "sync", "shutdown", "free"},
         UNCHANGED <<handler, job, given, others, broken, answer>>,
         ~OfPacket => command_buffer' = command_buffer,
         rc' \in {0, -1}, rc = -1 => rc' = -1,
         pc = "close" => pc' = "sync",
         pc = "scan" => pc' = "sync",
         pc = "sync" => pc' = "shutdown",
         pc = "shutdown" => pc' = IF OfPacket THEN "free" ELSE "idle",
         pc = "free" => pc' = "answer"
  PROVE  Typed' /\ JobInv' /\ OrderInv' /\ IdleInv' /\ (~Buffered => DoneIsHonest')
         /\ (OfPacket' <=> OfPacket) /\ (Played' <=> Played) /\ (Played <=> OfPacket)
         /\ ~InHand /\ ~InHand' /\ disturbed' = disturbed /\ overlapped' = overlapped
         /\ (OfPacket => out_of_order' = 0)
         /\ (~overlapped /\ OfPacket => Streams(job.client)' /\ Alone(job.client)')
         /\ (~overlapped /\ ~OfPacket => EndedIsFreed' /\ \A c \in Clients : Running(c)')
         /\ (~disturbed /\ OfPacket => (rc' = rc => Sound'))
         /\ (~disturbed /\ ~OfPacket => \A c \in Clients : sending'[c] = 0)
<1> USE DEF SessionInv, Typed
<1>1. (OfPacket' <=> OfPacket) /\ (Played' <=> Played) /\ (Played <=> OfPacket)
      /\ ~InHand /\ ~InHand' /\ pc' \in {"sync", "shutdown", "free", "idle", "answer"}
      /\ (pc' = "free" => OfPacket) /\ (pc' = "answer" => OfPacket)
      /\ (pc' = "idle" <=> ~OfPacket /\ pc = "shutdown")
  BY DEF OfPacket, Played, InHand, JobInv
<1>2. ~disturbed /\ ~OfPacket => \A c \in Clients : sending[c] = 0
  BY DEF HandledInv
<1>3. Typed'
  BY <1>1 DEF handler
<1>4. JobInv'
  BY <1>1 DEF JobInv, OfPacket, handler
<1>5. OrderInv'
  BY <1>1 DEF OrderInv, PlayedContiguous, handler
<1>6. disturbed' = disturbed /\ overlapped' = overlapped
  BY DisturbedIs DEF others
<1>7. IdleInv' /\ (~disturbed /\ ~OfPacket => \A c \in Clients : sending'[c] = 0)
  BY <1>1, <1>2, <1>6 DEF IdleInv, handler
<1>8. ASSUME ~overlapped, OfPacket PROVE Streams(job.client)' /\ Alone(job.client)'
  BY <1>1, <1>8 DEF AloneInv, Streams, Alone, handler
<1>9. ASSUME ~overlapped, ~OfPacket PROVE EndedIsFreed' /\ \A c \in Clients : Running(c)'
  BY <1>9 DEF AloneInv, Between, Running, EndedIsFreed, Owner, Streams, Alone, handler
<1>10. OfPacket => out_of_order' = 0
  BY <1>1 DEF OrderInv, handler
<1>11. ~disturbed /\ OfPacket => (rc' = rc => Sound')
  BY <1>1 DEF HandledInv, Sound
<1>12. ~Buffered => DoneIsHonest'
  BY DEF DoneIsHonest
<1>13. QED
  BY <1>1, <1>3, <1>4, <1>5, <1>6, <1>7, <1>8, <1>9, <1>10, <1>11, <1>12

(* "Done" is reported only of a stream without an error, and the device is *)
(* reset.                                                                  *)
LEMMA CloseKeeps == ASSUME SessionInv, Close PROVE SessionInv'
<1> USE DEF SessionInv, Typed
<1>1. /\ pc = "close" /\ pc' = "sync" /\ report' = (IF ret # -1 THEN "Done" ELSE report)
      /\ Clocks(RESET) /\ UNCHANGED <<handler, job, player, ret, pending, broken, answer>>
  BY DEF Close
<1>2. rc' = rc /\ UNCHANGED <<given, others, command_buffer>>
  BY <1>1 DEF player
<1>3. Typed' /\ JobInv' /\ OrderInv' /\ IdleInv' /\ (~Buffered => DoneIsHonest')
      /\ (OfPacket' <=> OfPacket) /\ (Played' <=> OfPacket) /\ ~InHand'
      /\ disturbed' = disturbed /\ overlapped' = overlapped
      /\ (OfPacket => out_of_order' = 0)
      /\ (~overlapped /\ OfPacket => Streams(job.client)' /\ Alone(job.client)')
      /\ (~overlapped /\ ~OfPacket => EndedIsFreed' /\ \A c \in Clients : Running(c)')
      /\ (~disturbed /\ OfPacket => Sound')
      /\ (~disturbed /\ ~OfPacket => \A c \in Clients : sending'[c] = 0)
  BY <1>1, <1>2, AfterFeed DEF JobInv
<1>4. OfPacket /\ ReportInv'
  BY <1>1, <1>2 DEF JobInv, ReportInv
<1>5. AloneInv'
  BY <1>1, <1>2, <1>3, <1>4 DEF AloneInv, Between, LeftTidy
<1>6. HandledInv'
  BY <1>1, <1>3, <1>4 DEF HandledInv
<1>7. BeliefInv'
  <2>1. ~disturbed => pins = "driven"
    BY <1>1 DEF HandledInv
  <2>2. QED
    BY <1>1, <1>3, <2>1 DEF BeliefInv, UndisturbedBelief, BeliefIsDevice, Clocks, INIT, RESET
<1>8. QED
  BY <1>3, <1>4, <1>5, <1>6, <1>7

LEMMA ScanKeeps == ASSUME SessionInv, Scan PROVE SessionInv'
<1> USE DEF SessionInv, Typed
<1>1. /\ pc = "scan" /\ pc' = "sync" /\ Clocks(RESET) /\ pins = "driven" /\ ~OfPacket
      /\ UNCHANGED <<handler, job, player, report, pending, broken, answer>>
  BY DEF Scan, JobInv, OfPacket
<1>2. rc' = rc /\ UNCHANGED <<given, others, command_buffer>>
  BY <1>1 DEF player
<1>3. Typed' /\ JobInv' /\ OrderInv' /\ IdleInv' /\ (~Buffered => DoneIsHonest')
      /\ (OfPacket' <=> OfPacket) /\ (Played' <=> OfPacket) /\ ~InHand'
      /\ disturbed' = disturbed /\ overlapped' = overlapped
      /\ (OfPacket => out_of_order' = 0)
      /\ (~overlapped /\ OfPacket => Streams(job.client)' /\ Alone(job.client)')
      /\ (~overlapped /\ ~OfPacket => EndedIsFreed' /\ \A c \in Clients : Running(c)')
      /\ (~disturbed /\ OfPacket => Sound')
      /\ (~disturbed /\ ~OfPacket => \A c \in Clients : sending'[c] = 0)
  BY <1>1, <1>2, AfterFeed
<1>4. AloneInv'
  BY <1>1, <1>3 DEF AloneInv, LeftTidy
<1>5. ReportInv' /\ HandledInv'
  BY <1>1, <1>2, <1>3 DEF ReportInv, HandledInv
<1>6. BeliefInv'
  BY <1>1, <1>3 DEF BeliefInv, UndisturbedBelief, BeliefIsDevice, Clocks, INIT, RESET
<1>7. QED
  BY <1>3, <1>4, <1>5, <1>6

(* The pins are released, and the buffer is freed behind them.             *)
LEMMA SyncKeeps == ASSUME SessionInv, Sync PROVE SessionInv'
<1> USE DEF SessionInv, Typed
<1>1. /\ pc = "sync" /\ pc' = "shutdown" /\ report' \in {"error", report} /\ pending' = FALSE
      /\ UNCHANGED <<handler, job, player, ret, pins, tap_state, dev, broken, answer>>
  BY DEF Sync
<1>2. rc' = rc /\ UNCHANGED <<given, others, command_buffer>>
  BY <1>1 DEF player
<1>3. Typed' /\ JobInv' /\ OrderInv' /\ IdleInv' /\ (~Buffered => DoneIsHonest')
      /\ (OfPacket' <=> OfPacket) /\ (Played' <=> OfPacket) /\ ~InHand'
      /\ disturbed' = disturbed /\ overlapped' = overlapped
      /\ (OfPacket => out_of_order' = 0)
      /\ (~overlapped /\ OfPacket => Streams(job.client)' /\ Alone(job.client)')
      /\ (~overlapped /\ ~OfPacket => EndedIsFreed' /\ \A c \in Clients : Running(c)')
      /\ (~disturbed /\ OfPacket => Sound')
      /\ (~disturbed /\ ~OfPacket => \A c \in Clients : sending'[c] = 0)
  BY <1>1, <1>2, AfterFeed
<1>4. ReportInv' /\ BeliefInv'
  BY <1>1, <1>2, <1>3 DEF ReportInv, BeliefInv, UndisturbedBelief, BeliefIsDevice
<1>5. AloneInv'
  BY <1>1, <1>2, <1>3 DEF AloneInv, Between, LeftTidy
<1>6. HandledInv'
  BY <1>1, <1>3 DEF HandledInv
<1>7. QED
  BY <1>3, <1>4, <1>5, <1>6

LEMMA ShutdownKeeps == ASSUME SessionInv, Shutdown PROVE SessionInv'
<1> USE DEF SessionInv, Typed
<1>1. /\ pc = "shutdown" /\ pc' = (IF OfPacket THEN "free" ELSE "idle") /\ pins' = "released"
      /\ UNCHANGED <<handler, job, player, ret, report, tap_state, dev, pending, broken, answer>>
  BY DEF Shutdown, JobInv, OfPacket
<1>2. rc' = rc /\ UNCHANGED <<given, others, command_buffer>>
  BY <1>1 DEF player
<1>3. Typed' /\ JobInv' /\ OrderInv' /\ IdleInv' /\ (~Buffered => DoneIsHonest')
      /\ (OfPacket' <=> OfPacket) /\ (Played' <=> OfPacket) /\ ~InHand'
      /\ disturbed' = disturbed /\ overlapped' = overlapped
      /\ (OfPacket => out_of_order' = 0)
      /\ (~overlapped /\ OfPacket => Streams(job.client)' /\ Alone(job.client)')
      /\ (~overlapped /\ ~OfPacket => EndedIsFreed' /\ \A c \in Clients : Running(c)')
      /\ (~disturbed /\ OfPacket => Sound')
      /\ (~disturbed /\ ~OfPacket => \A c \in Clients : sending'[c] = 0)
  BY <1>1, <1>2, AfterFeed
<1>4. ReportInv' /\ BeliefInv'
  BY <1>1, <1>2, <1>3 DEF ReportInv, BeliefInv, UndisturbedBelief, BeliefIsDevice
<1>5. LeftTidy'
  BY <1>1, <1>3 DEF LeftTidy, EndedIsFreed
<1>6. AloneInv'
  BY <1>1, <1>2, <1>3, <1>5 DEF AloneInv, Between
<1>7. HandledInv'
  BY <1>1, <1>3 DEF HandledInv
<1>8. QED
  BY <1>3, <1>4, <1>6, <1>7

LEMMA FreeKeeps == ASSUME SessionInv, FreeBuffers PROVE SessionInv'
<1> USE DEF SessionInv, Typed
<1>1. /\ pc = "free" /\ pc' = "answer" /\ OfPacket /\ pending' = FALSE
      /\ rc' \in {0, -1} /\ (rc = -1 => rc' = -1) /\ (rc' = -1 => report' # "Done")
      /\ command_buffer' # "live"
      /\ UNCHANGED <<handler, job, ret, leaked, given, others, pins, tap_state, dev, broken, answer>>
  BY DEF FreeBuffers, JobInv, ReportInv
<1>2. Typed' /\ JobInv' /\ OrderInv' /\ IdleInv' /\ (~Buffered => DoneIsHonest')
      /\ OfPacket' /\ Played' /\ Played /\ ~InHand' /\ out_of_order' = 0
      /\ disturbed' = disturbed /\ overlapped' = overlapped
      /\ (~overlapped => Streams(job.client)' /\ Alone(job.client)')
  BY <1>1, AfterFeed
<1>3. ReportInv' /\ BeliefInv'
  BY <1>1, <1>2 DEF ReportInv, BeliefInv, UndisturbedBelief, BeliefIsDevice
<1>4. AloneInv'
  BY <1>1, <1>2 DEF AloneInv, Between, LeftTidy
<1>5. HandledInv'
  <2>1. Sound => Sound'
    BY <1>1 DEF Sound
  <2>2. QED
    BY <1>1, <1>2, <2>1 DEF HandledInv
<1>6. QED
  BY <1>2, <1>3, <1>4, <1>5

(* "Done" is answered to a client whose file was played.                   *)
LEMMA AnswerKeeps == ASSUME SessionInv, Answer PROVE SessionInv'
<1> USE Files DEF SessionInv, Typed
<1>1. /\ pc = "answer" /\ pc' = "idle" /\ OfPacket /\ Played /\ ~InHand
      /\ answer' = [client |-> job.client,
                    text |-> IF out_of_order # 0 THEN "out of order" ELSE report,
                    given |-> given, disturbed |-> disturbed]
      /\ UNCHANGED <<handler, job, player, ret, report, host, broken>>
  BY DEF Answer, JobInv, OfPacket, Played, InHand
<1>2. /\ job.client \in Clients /\ job.final /\ expect_index = Pieces[job.client]
      /\ (out_of_order = 0 => Len(given) = Pieces[job.client])
  BY <1>1 DEF JobInv, OrderInv
<1>3. OfPacket' /\ ~Played' /\ ~InHand' /\ given' = given /\ disturbed' = disturbed
      /\ sending' = sending /\ out_of_order' = out_of_order /\ expect_index' = expect_index
      /\ rc' = rc /\ job' = job /\ tap_state' = tap_state /\ dev' = dev /\ pending' = pending
      /\ expect_index' = expect_index /\ UNCHANGED <<command_buffer, overlapped, pins, broken>>
  BY <1>1, DisturbedIs DEF OfPacket, Played, InHand, handler, player, host, others
<1>4. Typed' /\ JobInv' /\ OrderInv' /\ ReportInv' /\ BeliefInv'
  BY <1>1, <1>3 DEF JobInv, OrderInv, ReportInv, BeliefInv, UndisturbedBelief, BeliefIsDevice,
                    PlayedContiguous
<1>5. ~overlapped => \A c \in Clients : sending[c] = 0
  BY <1>1 DEF AloneInv, JobInv, Alone
<1>6. AloneInv'
  <2>1. CASE overlapped
    BY <1>3, <2>1 DEF AloneInv, LeftTidy
  <2>2. CASE ~overlapped
    <3>1. pins' = "released" /\ command_buffer' # "live"
      BY <1>1, <1>3, <2>2 DEF AloneInv
    <3>2. \A c \in Clients : Running(c)'
      BY <1>3, <1>5, <2>2 DEF Running
    <3>3. QED
      BY <1>1, <1>3, <3>1, <3>2 DEF AloneInv, EndedIsFreed, LeftTidy
  <2>3. QED
    BY <2>1, <2>2
<1>7. IdleInv' /\ HandledInv'
  <2>1. IdleInv'
    <3> SUFFICES ASSUME ~disturbed', NEW c \in Clients PROVE ~(sending'[c] > 0)
      BY DEF IdleInv
    <3>1. sending'[c] = 0
      BY <1>3, <1>5 DEF disturbed
    <3>2. QED
      BY <3>1
  <2>2. HandledInv'
    BY <1>1, <1>3 DEF HandledInv
  <2>3. QED
    BY <2>1, <2>2
<1>8. ~Buffered => DoneIsHonest'
  <2> SUFFICES ASSUME ~Buffered, answer'.text = "Done", ~answer'.disturbed
               PROVE  given = [k \in 1 .. Pieces[job.client] |->
                                [client |-> job.client, piece |-> k, ok |-> TRUE]]
    BY <1>1 DEF DoneIsHonest
  <2>1. out_of_order = 0 /\ report = "Done" /\ ~disturbed
    BY <1>1
  <2>2. rc = 0 /\ Sound /\ Streams(job.client) /\ PlayedContiguous
    BY <1>1, <2>1 DEF ReportInv, HandledInv, OrderInv, AloneInv, disturbed
  <2>3. \A n \in 1 .. Pieces[job.client] :
           given[n] = [client |-> job.client, piece |-> n, ok |-> TRUE]
    <3> TAKE n \in 1 .. Pieces[job.client]
    <3>1. n \in DOMAIN given /\ given[n] \in Entry
      BY <1>2, <2>1
    <3>2. given[n].client = job.client /\ given[n].piece = n /\ given[n].ok
      BY <2>2, <3>1 DEF Sound, Streams, PlayedContiguous
    <3>3. given[n].ok = TRUE
      BY <3>1, <3>2 DEF Entry
    <3>4. QED
      BY <3>1, <3>2, <3>3 DEF Entry
  <2>4. given = [n \in 1 .. Pieces[job.client] |-> given[n]]
    BY <1>2, <2>1
  <2>5. QED
    BY <2>3, <2>4
<1>9. QED
  BY <1>4, <1>6, <1>7, <1>8

-----------------------------------------------------------------------------
(* Every step keeps the invariant.                                         *)
LEMMA SessionNext == SessionInv /\ [Next]_vars => SessionInv'
<1> SUFFICES ASSUME SessionInv, [Next]_vars PROVE SessionInv'
  OBVIOUS
<1>1. CASE Handle
  BY <1>1, SetupKeeps, StreamKeeps, FeedKeeps, CloseKeeps, ScanKeeps, SyncKeeps, ShutdownKeeps,
     FreeKeeps, AnswerKeeps DEF Handle
<1>2. CASE CommandLine
  BY <1>2, CommandLineKeeps
<1>3. CASE \E c \in Clients : Packet(c) \/ Break(c)
  BY <1>3, PacketKeeps, BreakKeeps
<1>4. CASE UNCHANGED vars
  BY <1>4 DEF SessionInv, Typed, JobInv, OrderInv, ReportInv, AloneInv, IdleInv, HandledInv, BeliefInv,
              UndisturbedBelief, BeliefIsDevice, DoneIsHonest, PlayedContiguous, Streams, Alone, Sound,
              Between, Running, EndedIsFreed, LeftTidy, Owner, disturbed,
              OfPacket, InHand, Played, vars, handler, player, host, others
<1>5. QED
  BY <1>1, <1>2, <1>3, <1>4 DEF Next

THEOREM SessionInvHolds == Spec => []SessionInv
BY SessionInit, SessionNext, PTL DEF Spec

(* The variables keep their types; in particular no upload is ever counted *)
(* beyond its file.                                                        *)
THEOREM TypeCorrect == Spec => []TypeOK
<1>a. ASSUME NEW c \in Clients
      PROVE  Pieces[c] \in Nat /\ Pieces[c] > 0 /\ 0 \in 0 .. Pieces[c] - 1
  <2>1. Pieces[c] \in Nat \ {0}
    BY Files
  <2>2. QED
    BY <2>1
<1>b. DRSHIFT \in DevState /\ RESET \in DevState /\ IDLE \in DevState
  BY DEF DRSHIFT, RESET, IDLE, DevState, IRUPDATE
<1>c. {INIT, RESET, IDLE} = Stops
  BY DEF Stops
<1>1. Init => TypeOK
  <2> SUFFICES ASSUME Init PROVE TypeOK
    OBVIOUS
  <2>1. sending = [c \in Clients |-> 0]
    BY DEF Init
  <2>2. \A c \in Clients : sending[c] \in 0 .. Pieces[c] - 1
    BY <1>a, <2>1
  <2>3. QED
    BY <1>b, <1>c, <2>2 DEF Init, TypeOK
<1>2. TypeOK /\ SessionInv /\ [Next]_vars => TypeOK'
  <2> SUFFICES ASSUME TypeOK, SessionInv, [Next]_vars PROVE TypeOK'
    OBVIOUS
  <2> USE DEF TypeOK, handler, player, host, others
  <2>1. ASSUME NEW c \in Clients, Packet(c) PROVE TypeOK'
    <3>1. sending[c] + 1 # Pieces[c] => sending[c] + 1 \in 0 .. Pieces[c] - 1
      <4>1. sending[c] \in 0 .. Pieces[c] - 1
        OBVIOUS
      <4>2. QED
        BY <1>a, <4>1, NextPiece
    <3>2. ASSUME NEW d \in Clients PROVE sending'[d] \in 0 .. Pieces[d] - 1
      <4>1. sending' = [sending EXCEPT ![c] = IF sending[c] + 1 = Pieces[c] THEN 0
                                                ELSE sending[c] + 1]
        BY <2>1 DEF Packet
      <4>2. sending[d] \in 0 .. Pieces[d] - 1 /\ sending \in [Clients -> Nat]
        BY DEF SessionInv, Typed
      <4>3. QED
        BY <1>a, <3>1, <4>1, <4>2
    <3>3. QED
      BY <2>1, <3>2 DEF Packet
  <2>2. ASSUME NEW c \in Clients, Break(c) PROVE TypeOK'
    <3>1. ASSUME NEW d \in Clients PROVE sending'[d] \in 0 .. Pieces[d] - 1
      <4>1. sending' = [sending EXCEPT ![c] = 0]
        BY <2>2 DEF Break
      <4>2. sending[d] \in 0 .. Pieces[d] - 1 /\ sending \in [Clients -> Nat]
        BY DEF SessionInv, Typed
      <4>3. QED
        BY <1>a, <4>1, <4>2
    <3>2. QED
      BY <2>2, <3>1 DEF Break
  <2>3. CASE CommandLine
    BY <2>3 DEF CommandLine
  <2>4. CASE Setup
    BY <1>b, <1>c, <2>4 DEF Setup
  <2>5. CASE StartStream
    BY <2>5 DEF StartStream
  <2>6. ASSUME NEW s \in Stops, Clocks(s)
        PROVE  tap_state' \in Stops /\ dev' \in DevState /\ pins' \in {"driven", "released"}
    BY <1>b, <1>c, <2>6 DEF Clocks
  <2>7. CASE FeedPlays \/ FeedMismatches \/ FeedFails \/ FeedRefuses
    <3>1. \E ok : Fed(ok)
      BY <2>7 DEF FeedPlays, FeedMismatches, FeedFails, FeedRefuses
    <3>2. tap_state' \in Stops /\ dev' \in DevState /\ pins' \in {"driven", "released"}
      BY <1>c, <2>6, <2>7 DEF FeedPlays, FeedMismatches, FeedFails, FeedRefuses
    <3>3. /\ command_buffer' \in {"null", "live", "freed"} /\ rc' \in {0, -1}
          /\ ret' \in {0, -1, -2} /\ report' \in {"", "Start", "Done", "error"}
      BY <2>7 DEF FeedPlays, FeedMismatches, FeedFails, FeedRefuses, Allocated
    <3>4. QED
      BY <3>1, <3>2, <3>3 DEF Fed
  <2>8. CASE Close \/ Scan
    BY <1>c, <2>6, <2>8 DEF Close, Scan
  <2>9. CASE Sync \/ Shutdown \/ FreeBuffers \/ Answer
    BY <2>9 DEF Sync, Shutdown, FreeBuffers, Answer
  <2>10. CASE UNCHANGED vars
    BY <2>10 DEF vars
  <2>11. QED
    BY <2>1, <2>2, <2>3, <2>4, <2>5, <2>7, <2>8, <2>9, <2>10 DEF Next, Handle
<1>3. QED
  BY <1>1, <1>2, SessionInvHolds, PTL DEF Spec

(* The pieces played since a stream's start are consecutive, with any      *)
(* number of clients whose uploads overlap and break.                      *)
THEOREM PlayedContiguousAlways == Spec => []PlayedContiguous
<1>1. SessionInv => PlayedContiguous
  BY DEF SessionInv, OrderInv
<1>2. QED
  BY <1>1, SessionInvHolds, PTL

(* The player neither writes to nor frees a command buffer it has freed,   *)
(* whatever breaks, fails or is scanned in between, in an upload that no   *)
(* other one ran beside.                                                   *)
THEOREM BufferIsLiveAlways == Spec => []BufferIsLive
<1>1. SessionInv => BufferIsLive
  BY DEF SessionInv, AloneInv, JobInv, BufferIsLive
<1>2. QED
  BY <1>1, SessionInvHolds, PTL

(* An upload that came to its end holds neither pins nor buffer: what the  *)
(* next start loses was held by one that broke off, or overlapped.         *)
THEOREM LeftTidyAlways == Spec => []LeftTidy
<1>1. SessionInv => LeftTidy
  BY DEF SessionInv, AloneInv
<1>2. QED
  BY <1>1, SessionInvHolds, PTL

(* The player's belief survives broken and failed uploads.                 *)
THEOREM UndisturbedBeliefAlways == Spec => []UndisturbedBelief
<1>1. SessionInv => UndisturbedBelief
  BY DEF SessionInv, BeliefInv
<1>2. QED
  BY <1>1, SessionInvHolds, PTL

(* "Done" means that the client's whole file was played without an error,  *)
(* on hosts that check TDO at every pulse, as the ESP host does.           *)
THEOREM DoneIsHonestAlways == ASSUME ~Buffered PROVE Spec => []DoneIsHonest
<1>1. SessionInv => DoneIsHonest
  BY DEF SessionInv
<1>2. QED
  BY <1>1, SessionInvHolds, PTL
=============================================================================
