----------------------------- MODULE FileBrowser -----------------------------
(***************************************************************************)
(* The directory browser of websvf_sd (storage.cpp, keyboard.cpp): the     *)
(* keys, the listing of a directory read in two passes, the cursor, the    *)
(* window of LineN lines on the OLED; the web handlers that change the     *)
(* card or ask for a directory, and loop() as far as it affects these.     *)
(*                                                                         *)
(* A path is the sequence of its names, a name a number whose order is     *)
(* strcasecmp's. A handler and a turn of loop() are one step each: that    *)
(* the network task may preempt loop() is not modelled here.               *)
(***************************************************************************)
EXTENDS Integers, SequencesExt

CONSTANTS
  Names,       \* what an entry may be called
  NameLen,     \* strlen of "/" and the name
  Bins,        \* the names with ".bin" in them
  LineN,       \* lines of the screen: 8 in the code
  HoldMax,     \* where a hold counter saturates: 255
  RepeatFrom,  \* a key held longer repeats: 40
  KeySets,     \* keys that may be down at once
  FirstCard,   \* the card to begin with
  MaxChanges,  \* how often it is changed
  NewNames, WebPaths,   \* what is added to it, and what the web asks to see
  MaxDepth,    \* bound: no deeper path is entered
  COVERED, NONE

(* A FAT file system does not tell names apart by case alone: those of a   *)
(* directory differ in strcasecmp's order too.                             *)
ASSUME BrowserAssumption ==
  /\ Names \subseteq Nat \ {0} /\ NameLen \in [Names -> Nat \ {0}] /\ Bins \union NewNames \subseteq Names
  /\ {LineN, HoldMax, RepeatFrom} \subseteq Nat \ {0} /\ {MaxChanges, MaxDepth} \subseteq Nat
  /\ WebPaths \subseteq Seq(Names) /\ <<>> \in DOMAIN FirstCard
  /\ \A path \in DOMAIN FirstCard : FirstCard[path] \in Seq(Names) /\ IsInjective(FirstCard[path])

Buttons == {"BTN_UP", "BTN_DOWN", "BTN_LEFT", "BTN_RIGHT"}

VARIABLES
  card,        \* of each directory, its names in the card's order
  changes,     \* of the card so far
  DirPath,
  listing,     \* DirEntries, DirN of them
  cursor, topitem, hold,     \* Ifb
  screen,      \* the lines of the listing on the OLED, or COVERED by something else
  sd_detach,
  request,     \* the file a key has asked loop() to program
  listed,      \* history: the directory listed, what was in it
  overrun      \* history: a name was written behind DirNames

browser == <<listing, cursor, topitem, listed, overrun>>
browser_vars == <<card, changes, DirPath, browser, hold, screen, sd_detach, request>>

DirN == Len(listing)
IsDir(c, path, n) == Append(path, n) \in DOMAIN c

BrowserTypeOK ==
  /\ DirPath \in Seq(Names) /\ hold \in [Buttons -> 0 .. HoldMax]
  /\ \A i \in 1 .. DirN : listing[i].name \in Names
  /\ {cursor, topitem} \subseteq Nat /\ {sd_detach, overrun} \subseteq BOOLEAN

BrowserInit ==
  /\ card = FirstCard /\ changes = 0 /\ DirPath = <<>>
  /\ listing = <<>> /\ cursor = 0 /\ topitem = 0 /\ overrun = FALSE
  /\ hold = [b \in Buttons |-> 0]
  /\ screen = COVERED /\ sd_detach = TRUE /\ request = NONE
  /\ listed = [path |-> <<>>, dirs |-> {}, files |-> {}]

-----------------------------------------------------------------------------
(* The first pass after k entries: all_names_length and ndirs.             *)
FirstPass(c, path) ==
  LET seen[k \in 0 .. Len(c[path])] ==
        IF k = 0 THEN [length |-> 0, ndirs |-> 0]
        ELSE [length |-> seen[k - 1].length + NameLen[c[path][k]],
              ndirs  |-> seen[k - 1].ndirs + IF IsDir(c, path, c[path][k]) THEN 1 ELSE 0]
  IN  seen

(* Mutant: the files are not put behind the directories.                   *)
SlotOfUnsplit(r, dir, ndirs) == IF dir THEN r.cdirs + 1 ELSE r.cfiles + 1

SlotOf(r, dir, ndirs) == IF dir THEN r.cdirs + 1 ELSE ndirs + r.cfiles + 1

Put(f, x, v) == [y \in DOMAIN f \union {x} |-> IF y = x THEN v ELSE f[y]]

(* The second pass for one entry: a slot points at the place in DirNames   *)
(* where its name is written; the place is only left if the name fits.     *)
Filled(r, n, dir, ndirs, room) ==
  [slot   |-> Put(r.slot, SlotOf(r, dir, ndirs), [at |-> r.used, dir |-> dir]),
   text   |-> Put(r.text, r.used, n),
   used   |-> IF r.used + NameLen[n] <= room THEN r.used + NameLen[n] ELSE r.used,
   over   |-> r.over \/ r.used + NameLen[n] > room,
   cdirs  |-> IF dir THEN r.cdirs + 1 ELSE r.cdirs,
   cfiles |-> IF dir THEN r.cfiles ELSE r.cfiles + 1]

(* The second pass after k entries, with the first's totals.               *)
SecondPass(c, path, total) ==
  LET filled[k \in 0 .. Len(c[path])] ==
        IF k = 0 THEN [slot |-> <<>>, text |-> <<>>, used |-> 0, over |-> FALSE,
                       cdirs |-> 0, cfiles |-> 0]
        ELSE Filled(filled[k - 1], c[path][k], IsDir(c, path, c[path][k]),
                    total.ndirs, total.length)
  IN  filled

(* qsort by strcasecmp. It may leave equal names in any order: here the    *)
(* order they are in.                                                      *)
Precedes(entries, j, i) ==
  \/ entries[j].name < entries[i].name
  \/ entries[j].name = entries[i].name /\ j < i

Rank(entries, i) == Cardinality({j \in 1 .. Len(entries) : Precedes(entries, j, i)})

Sorted(entries) ==
  [k \in 1 .. Len(entries) |->
     entries[CHOOSE i \in 1 .. Len(entries) : Rank(entries, i) = k - 1]]

Unwritten == [name |-> 0, dir |-> FALSE]

(* What the n slots of DirEntries point at.                                *)
Entries(n, fill) ==
  [i \in 1 .. n |->
     IF i \in DOMAIN fill.slot
       THEN [name |-> fill.text[fill.slot[i].at], dir |-> fill.slot[i].dir]
       ELSE Unwritten]

(* Both passes and the sorting: DirN is what the first pass has counted,   *)
(* the slots what the second has filled. What cannot be opened has no      *)
(* entries.                                                                *)
read_directory(c, path) ==
  IF path \notin DOMAIN c THEN [entries |-> <<>>, over |-> FALSE]
  ELSE LET n     == Len(c[path])
           total == FirstPass(c, path)[n]
           fill  == SecondPass(c, path, total)[n]
           all   == Entries(n, fill)
           dirs  == Sorted([i \in 1 .. total.ndirs |-> all[i]])
           files == Sorted([i \in 1 .. n - total.ndirs |-> all[total.ndirs + i]])
       IN  [entries |-> [i \in 1 .. n |->
                           IF i <= total.ndirs THEN dirs[i] ELSE files[i - total.ndirs]],
            over    |-> fill.over]

show_directory(entries, at, top) ==
  [lines |-> [i \in {j \in 0 .. LineN - 1 : j + top < Len(entries)} |-> entries[i + top + 1]],
   lit   |-> {at - top} \intersect {j \in 0 .. LineN - 1 : j + top < Len(entries)}]

(* With the card as c, the path and what is on the screen before: nothing  *)
(* more happens if the card cannot be mounted.                             *)
mount_read_directory(c, path, before) ==
  /\ DirPath' = path
  /\ \/ LET r == read_directory(c, path)
            in == IF path \in DOMAIN c THEN ToSet(c[path]) ELSE {}
        IN  /\ listing' = r.entries /\ overrun' = r.over
            /\ cursor' = 0 /\ topitem' = 0
            /\ screen' = show_directory(r.entries, 0, 0)
            /\ listed' = [path |-> path, dirs |-> {n \in in : IsDir(c, path, n)},
                          files |-> {n \in in : ~IsDir(c, path, n)}]
     \/ screen' = before /\ UNCHANGED browser

-----------------------------------------------------------------------------
(* scan_keyboard                                                           *)
Held(keys) ==
  [b \in Buttons |-> IF b \notin keys THEN 0
                     ELSE IF hold[b] < HoldMax THEN hold[b] + 1 ELSE hold[b]]

Up(path) == IF path = <<>> THEN path ELSE Front(path)

(* Mutant: the line on the screen is taken for the entry.                  *)
PointedOnScreen == listing[cursor - topitem + 1]

Pointed == listing[cursor + 1]

(* A key held repeats, "slowdown every 8".                                 *)
Acts(h) == (h = 1 \/ h > RepeatFrom) /\ h % 8 = 1

Target(h) ==
  LET down == IF Acts(h["BTN_DOWN"]) /\ cursor < DirN - 1 THEN cursor + 1 ELSE cursor
  IN  IF Acts(h["BTN_UP"]) /\ down > 0 THEN down - 1 ELSE down

(* Mutant: the window does not follow the cursor.                          *)
TopStays(to) == topitem

Top(to) ==
  IF to < topitem /\ topitem > 0 THEN topitem - 1
  ELSE IF to >= topitem + LineN /\ topitem < DirN - 1 THEN topitem + 1
  ELSE topitem

Redrawn(line) ==
  [i \in DOMAIN screen.lines \union {line} |->
     IF i = line THEN listing[line + topitem + 1] ELSE screen.lines[i]]

(* Mutant: the line the cursor leaves stays highlighted.                   *)
RefreshedOnce(to) ==
  [lines |-> Redrawn(to - topitem), lit |-> screen.lit \union {to - topitem}]

(* refresh_dir_line for the line left and the line reached.                *)
Refreshed(to) ==
  [lines |-> Redrawn(to - topitem),
   lit   |-> (screen.lit \ {cursor - topitem}) \union {to - topitem}]

Moves(to) ==
  /\ cursor' = to /\ topitem' = Top(to)
  /\ screen' = IF to = cursor THEN screen
               ELSE IF to - topitem \notin 0 .. LineN - 1
                 THEN IF topitem' # topitem THEN show_directory(listing, to, topitem') ELSE screen
               ELSE IF screen = COVERED THEN COVERED ELSE Refreshed(to)
  /\ UNCHANGED <<DirPath, listing, listed, overrun>>

(* periodic, file_browser(0): one turn of loop() without a request.        *)
file_browser(keys) ==
  /\ ~sd_detach /\ request = NONE
  /\ hold' = Held(keys)
  /\ LET right == hold'["BTN_RIGHT"] = 1 /\ cursor < DirN
     IN  \/ /\ hold'["BTN_LEFT"] = 1
            /\ mount_read_directory(card, Up(DirPath), screen)
            /\ UNCHANGED request
         \/ /\ hold'["BTN_LEFT"] # 1 /\ right /\ Pointed.dir
            /\ Len(DirPath) < MaxDepth
            /\ mount_read_directory(card, Append(DirPath, Pointed.name), screen)
            /\ UNCHANGED request
         \/ /\ hold'["BTN_LEFT"] # 1 /\ ~(right /\ Pointed.dir)
            /\ request' = IF right THEN [file |-> Append(DirPath, Pointed.name),
                                         bin |-> Pointed.name \in Bins]
                          ELSE NONE
            /\ Moves(Target(hold'))
  /\ UNCHANGED <<card, changes, sd_detach>>

-----------------------------------------------------------------------------
(* loop() programs a file that a key or the web has asked for: the card    *)
(* cannot be mounted, the file cannot be opened, or it is played, and the  *)
(* browser detached.                                                       *)
Program ==
  /\ request' = NONE
  /\ \/ UNCHANGED <<screen, sd_detach>>
     \/ ~sd_detach /\ screen' = COVERED /\ UNCHANGED sd_detach
     \/ sd_detach' = TRUE /\ screen' = IF sd_detach THEN screen ELSE COVERED
  /\ UNCHANGED <<card, changes, DirPath, browser, hold>>

(* The same from SPIFFS: nothing is detached, and the directory read.      *)
ProgramPassthru ==
  /\ request # NONE => request.bin
  /\ mount_read_directory(card, DirPath, IF sd_detach THEN screen ELSE COVERED)
  /\ UNCHANGED <<card, changes, hold, sd_detach, request>>

(* BTN0 held for half a second                                             *)
Attach ==
  /\ request = NONE
  /\ sd_detach' = FALSE /\ screen' = COVERED
  /\ UNCHANGED <<card, changes, DirPath, browser, hold, request>>

handle_dir(path) ==
  /\ mount_read_directory(card, path, COVERED)
  /\ UNCHANGED <<card, changes, hold, sd_detach, request>>

Changes == changes < MaxChanges /\ changes' = changes + 1

Without(names, n) == RemoveAt(names, CHOOSE k \in DOMAIN names : names[k] = n)

(* An upload saves a file: an entry more, wherever the card has room.      *)
Save(path, n) ==
  /\ Changes
  /\ n \notin ToSet(card[path])
  /\ \E k \in 1 .. Len(card[path]) + 1 : card' = [card EXCEPT ![path] = InsertAt(@, k, n)]
  /\ UNCHANGED <<DirPath, browser, hold, screen, sd_detach, request>>

(* handle_mkdir, handle_rm, handle_rmdir that have succeeded               *)
Reread(c) ==
  /\ card' = c
  /\ mount_read_directory(c, DirPath, COVERED)
  /\ UNCHANGED <<hold, sd_detach, request>>

handle_mkdir(path, n) ==
  /\ Changes /\ n \notin ToSet(card[path])
  /\ \E k \in 1 .. Len(card[path]) + 1 :
       Reread([p \in DOMAIN card \union {Append(path, n)} |->
                 IF p = path THEN InsertAt(card[p], k, n)
                 ELSE IF p \in DOMAIN card THEN card[p] ELSE <<>>])

handle_rm(path, n) ==
  /\ Changes /\ n \in ToSet(card[path]) /\ ~IsDir(card, path, n)
  /\ Reread([card EXCEPT ![path] = Without(@, n)])

handle_rmdir(path, n) ==
  /\ Changes /\ n \in ToSet(card[path]) /\ IsDir(card, path, n) /\ card[Append(path, n)] = <<>>
  /\ Reread([p \in DOMAIN card \ {Append(path, n)} |->
               IF p = path THEN Without(card[p], n) ELSE card[p]])

BrowserNext ==
  \/ \E keys \in KeySets : file_browser(keys)
  \/ Program \/ ProgramPassthru \/ Attach
  \/ \E path \in WebPaths : handle_dir(path)
  \/ \E path \in DOMAIN card :
       \/ \E n \in NewNames : Save(path, n) \/ handle_mkdir(path, n)
       \/ \E n \in Names : handle_rm(path, n) \/ handle_rmdir(path, n)

BrowserSpec == BrowserInit /\ [][BrowserNext]_browser_vars

-----------------------------------------------------------------------------
(* After any history of moves, scrolls and directories becoming shorter,   *)
(* the cursor is on an entry and in the window; the hold counters stop.    *)
CursorInView == DirN > 0 => cursor < DirN /\ cursor - topitem \in 0 .. LineN - 1
CursorInv == BrowserTypeOK /\ CursorInView

(* The lines refreshed one at a time are those a redrawing would give:     *)
(* the entries of the window, and the cursor's line highlighted alone.     *)
ScreenIsTrue == screen # COVERED => screen = show_directory(listing, cursor, topitem)

(* The file that a key programs is the one highlighted when it was         *)
(* pressed: unless something else is on the screen, or the path was        *)
(* changed and then the card could not be mounted.                         *)
ChosenWasLit ==
  [][request = NONE /\ request' # NONE /\ screen # COVERED /\ DirPath = listed.path =>
       \E line \in screen.lit :
         /\ screen.lit = {line}
         /\ request'.file = Append(listed.path, screen.lines[line].name)]_browser_vars

(* The order of a listing: directories before files, each by name.         *)
Above(a, b) == IF a.dir = b.dir THEN a.name < b.name ELSE a.dir

(* The listing is the directory as it was read: every entry once, with     *)
(* its own name, directories before files, each in order; and the names    *)
(* fit into the room that the first pass has measured.                     *)
ListingIsDirectory ==
  /\ ~overrun
  /\ ToSet(listing) = [name : listed.dirs, dir : {TRUE}] \union [name : listed.files, dir : {FALSE}]
  /\ \A i, j \in 1 .. DirN : i < j => Above(listing[i], listing[j])
=============================================================================
