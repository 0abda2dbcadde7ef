------------------------------- MODULE Panel -------------------------------
(***************************************************************************)
(* The front panel (demo/ui.c): three keys and a display, to choose a      *)
(* preset from the memory card, to start and to stop it, which the shell's *)
(* commands render and stop do too; with the listing of the card's files   *)
(* (libbase/cffat.c) and the renderer's start and stop (demo/renderer.c).  *)
(*                                                                         *)
(* Keys and ticks are served by the interrupt handler, between the steps   *)
(* of a command in the main program.                                       *)
(***************************************************************************)
EXTENDS Libc

LOCAL INSTANCE SequencesExt

CONSTANTS Cards,        \* cards that may be in the slot, sequences of files
          Directories,  \* longer ones, to list them only
          FragSize,     \* characters of a long name in a directory entry: 13
          Fragments,    \* entries of a long name that are kept: 10
          MaxPresets,   \* MAX_PRESETS
          Debounce,     \* 100 ms, in steps of the clock
          ShownTicks    \* ticks for which the author or the title is shown, less one: 2

ASSUME PanelAssumption ==
  {FragSize, Fragments, MaxPresets, Debounce, ShownTicks} \subseteq Nat \ {0}

VARIABLES
  card,                 \* the files in the slot
  panel,                \* ui.c's variables, what is on the display, and the renderer
  since,                \* per key, how long ago it was last taken, up to Debounce
  shell,                \* where the main program is in a command, its file, the picture it
                        \* draws, and whether a key has changed the panel since it chose it
  history               \* for the properties: see PanelRight

panelVars == <<card, panel, since, shell, history>>

Unknown == <<"unknown">>
MinOf(a, b) == IF a < b THEN a ELSE b

-----------------------------------------------------------------------------
(* The directory of a card *)

\* As FAT has it: a long name comes in front of its file in parts, the last first.  Of a
\* deleted file the parts have the sequence number 0xe5; directories are listed too.
LayOut(files) ==
  LET Parts(f) == (Len(f.long) + FragSize - 1) \div FragSize
      Part(f, k) ==
        [kind |-> "part", seq |-> IF f.kind = "deleted" THEN 37 ELSE k,
         last |-> f.kind = "deleted" \/ k = Parts(f),
         text |-> SubSeq(Append(f.long, NUL), (k - 1) * FragSize + 1, k * FragSize)]
      Entry(f) == [kind |-> IF f.kind = "file" THEN "regular" ELSE "other", name |-> f.name]
  IN  FlattenSeq([i \in DOMAIN files |->
        LET f == files[i] IN
        Append([k \in 1..Parts(f) |-> Part(f, Parts(f) + 1 - k)], Entry(f))])

\* The part's characters go to where its number says, up to a NUL; the last one has a NUL
\* put behind it.
lfn_to_ascii(longname, e) ==
  LET at == (e.seq - 1) * FragSize
      text == IF \E i \in DOMAIN e.text : e.text[i] = NUL THEN Append(CString(e.text), NUL)
              ELSE IF e.last THEN Append(e.text, NUL) ELSE e.text
  IN  [i \in DOMAIN longname |-> IF i - at \in DOMAIN text THEN text[i - at] ELSE longname[i]]

\* What the callback is given: a file's name, and its long name if its first part was there.
ListEntry(found, e) ==
  CASE e.kind = "part" ->
         IF e.seq * FragSize < Len(found.longname)
         THEN [found EXCEPT !.longname = lfn_to_ascii(@, e), !.has = @ \/ e.seq = 1]
         ELSE found
    [] e.kind = "other" -> [found EXCEPT !.has = FALSE]
    [] e.kind = "regular" ->
         [found EXCEPT !.has = FALSE,
                       !.files = Append(@, [name |-> e.name,
                                            long |-> IF found.has THEN CString(found.longname)
                                                     ELSE <<e.name>>])]

\* The last character stays a NUL.
cffat_list_files(files) ==
  FoldLeft(ListEntry,
           [longname |-> Append(Repeat("?", Fragments * FragSize), NUL), has |-> FALSE,
            files |-> <<>>],
           LayOut(files)).files

-----------------------------------------------------------------------------
(* The display *)

NoPicture == [kind |-> "main", text |-> <<>>]
Picture(p) ==
  CASE p.state = "main"      -> NoPicture
    [] p.state = "list"      -> [kind |-> "list", text |-> <<p.list[p.index]>>]
    [] p.state = "rendering" ->
         [kind |-> "rendering", text |-> IF p.display_title THEN p.title ELSE p.author]
refresh_screen(p) == [p EXCEPT !.screen = Picture(p)]

-----------------------------------------------------------------------------
(* Loading a preset *)

\* "author - title.fnp"
Split(p, long) ==
  LET dashes == {i \in DOMAIN long : long[i] = "-"}
      dots == {i \in DOMAIN long : long[i] = "."}
      dash == Least(dashes)
      dot == CHOOSE i \in dots : \A j \in dots : j <= i
      author == [p EXCEPT !.author = SubSeq(long, 1, dash - 2)]
  IN  IF dashes = {} \/ dash - 2 < 1 THEN p
      ELSE IF dots = {} \/ dot - (dash + 2) < 1 THEN author
      ELSE [author EXCEPT !.title = SubSeq(long, dash + 2, dot - 1)]

\* getname_cb: the first file of the name.  The name is compared as it was typed.
Named(p, name, upper) ==
  LET listed == cffat_list_files(card)
      same == {i \in DOMAIN listed : upper /\ listed[i].name = name}
      plain == [p EXCEPT !.author = Unknown, !.title = Unknown]
  IN  IF same = {} THEN plain ELSE Split(plain, listed[Least(same)].long)

OnCard(name) == {i \in DOMAIN card : card[i].kind = "file" /\ card[i].name = name}
FileOf(name) == card[Least(OnCard(name))]

\* renderer_start: what does not compile has begun to take the place of what runs.
renderer_start(p, f) ==
  CASE f.code = "unparsable"   -> p
    [] f.code = "uncompilable" -> [p EXCEPT !.loaded = [f EXCEPT !.name = "mixed"]]
    [] f.code = "good"         -> [p EXCEPT !.loaded = f, !.recording = TRUE]
renderer_stop(p) == [p EXCEPT !.recording = FALSE]

ShowRendering(p) == [p EXCEPT !.state = "rendering", !.switch_count = 0, !.display_title = FALSE]
ui_render_stop(p) == refresh_screen([renderer_stop(p) EXCEPT !.state = "main"])

-----------------------------------------------------------------------------
(* The keys *)

list_presets(p, read) ==
  LET listed == cffat_list_files(card)
      none == [p EXCEPT !.index = 1, !.list = <<>>]
  IN  IF ~read THEN none
      ELSE IF listed = <<>> THEN none
      ELSE refresh_screen([none EXCEPT
             !.list = [i \in 1..MinOf(Len(listed), MaxPresets) |-> listed[i].name],
             !.state = "list"])

select_preset(p, up) ==
  refresh_screen([p EXCEPT !.index = IF up THEN IF @ > 1 THEN @ - 1 ELSE @
                                     ELSE IF @ < Len(p.list) THEN @ + 1 ELSE @])

\* ui_render_from_file in the handler, from its beginning to its end.
start_preset(p, read) ==
  LET name == p.list[p.index]
      f == FileOf(name)
      started == renderer_start(Named(p, name, TRUE), f)
  IN  IF ~read \/ OnCard(name) = {} THEN refresh_screen([p EXCEPT !.state = "main"])
      ELSE IF f.code = "good" THEN refresh_screen(ShowRendering(started))
      ELSE refresh_screen([started EXCEPT !.state = "main"])

Keys == {"N", "S", "C"}
HandleKey(p, n, read) ==
  CASE p.state = "main" /\ n = "C"      -> list_presets(p, read)
    [] p.state = "list" /\ n = "C"      -> start_preset(p, read)
    [] p.state = "list" /\ n # "C"      -> select_preset(p, n = "N")
    [] p.state = "rendering" /\ n = "C" -> ui_render_stop(p)
    [] OTHER                            -> p

\* What OK starts, and whether the main program is about to say the contrary.
Starting(before, after, read) ==
  LET shown == IF history.overtaken THEN before.list[before.index] ELSE before.screen.text[1]
      starts == after.state = "rendering"
  IN  IF ~read \/ OnCard(shown) = {} THEN history
      ELSE [history EXCEPT !.wanted = shown, !.upper = TRUE, !.failed = ~starts,
                           !.late = IF starts THEN shell.at = "stopped" ELSE @]
Stopping == [history EXCEPT !.late = shell.at = "started"]

\* ui_isr_key: all the keys that are down, whichever has caused the interrupt, but for those
\* taken less than 100 ms ago; `read' says whether the card can be read.  Neither the card nor
\* the compiler is made for two at a time, so no key comes while the main program uses them.
KeyIsr ==
  \E taken \in SUBSET {n \in Keys : since[n] = Debounce} :
  \E read \in IF "C" \in taken THEN BOOLEAN ELSE {TRUE} :
    LET north == IF "N" \in taken THEN HandleKey(panel, "N", read) ELSE panel
        south == IF "S" \in taken THEN HandleKey(north, "S", read) ELSE north
        pressed == IF "C" \notin taken THEN history
                   ELSE CASE south.state = "list"      -> Starting(south, panel', read)
                          [] south.state = "rendering" -> Stopping
                          [] OTHER                     -> history
    IN
    /\ taken # {}
    /\ panel' = IF "C" \in taken THEN HandleKey(south, "C", read) ELSE south
    /\ since' = [n \in Keys |-> IF n \in taken THEN 0 ELSE since[n]]
    /\ shell' = [shell EXCEPT !.cut = @ \/ (shell.at = "drawing" /\ panel' # panel)]
    /\ history' = [pressed EXCEPT !.overtaken = @ /\ panel'.screen # Picture(panel')]
    /\ UNCHANGED card

\* ui_tick
TickIsr ==
  /\ panel.state = "rendering"
  /\ LET over == panel.switch_count + 1 > ShownTicks IN
     panel' = refresh_screen([panel EXCEPT
                !.switch_count = IF over THEN 0 ELSE @ + 1,
                !.display_title = IF over THEN ~@ ELSE @])
  /\ history' = [history EXCEPT !.overtaken = FALSE]
  /\ UNCHANGED <<card, since, shell>>

-----------------------------------------------------------------------------
(* The shell's commands render and stop, in the main program *)

Resting == [at |-> "idle", file |-> "none", picture |-> NoPicture, cut |-> FALSE]

\* The file is read, and its author and title looked for.  One that cannot be read changes
\* nothing.
MainRender ==
  /\ shell.at = "idle"
  /\ \E i \in DOMAIN card, upper \in BOOLEAN :
       /\ card[i].kind = "file"
       /\ shell' = [Resting EXCEPT !.at = "loaded", !.file = FileOf(card[i].name)]
       /\ panel' = Named(panel, card[i].name, upper)
       /\ history' = [history EXCEPT !.wanted = card[i].name, !.upper = upper]
  /\ UNCHANGED <<card, since>>

MainStart ==
  /\ shell.at = "loaded"
  /\ panel' = renderer_start(panel, shell.file)
  /\ LET good == shell.file.code = "good" IN
     /\ shell' = IF good THEN [shell EXCEPT !.at = "started"] ELSE Resting
     /\ history' = [history EXCEPT !.failed = ~good \/ history.wanted # shell.file.name,
                                   !.late = ~good /\ @]
  /\ UNCHANGED <<card, since>>

MainState ==
  /\ shell.at \in {"started", "stopped"} /\ shell' = [Resting EXCEPT !.at = "shown"]
  /\ panel' = IF shell.at = "started" THEN ShowRendering(panel)
              ELSE [panel EXCEPT !.state = "main"]
  /\ UNCHANGED <<card, since, history>>

\* refresh_screen reads what it shows ...
MainPicture ==
  /\ shell.at = "shown"
  /\ shell' = [Resting EXCEPT !.at = "drawing", !.picture = Picture(panel)]
  /\ UNCHANGED <<card, panel, since, history>>

\* ... and shows it, whatever the handler has shown since.
MainRefresh ==
  /\ shell.at = "drawing" /\ shell' = Resting
  /\ panel' = [panel EXCEPT !.screen = shell.picture]
  /\ history' = [history EXCEPT !.overtaken = shell.cut]
  /\ UNCHANGED <<card, since>>

MainStop ==
  /\ shell.at = "idle" /\ shell' = [Resting EXCEPT !.at = "stopped"]
  /\ panel' = renderer_stop(panel) /\ history' = [history EXCEPT !.late = FALSE]
  /\ UNCHANGED <<card, since>>

-----------------------------------------------------------------------------

NoFile == [name |-> "none", kind |-> "file", long |-> <<>>, author |-> Unknown,
           title |-> Unknown, code |-> "good"]

\* The keys count as pressed when the panel is set up.
PanelInit ==
  /\ card = <<>> /\ shell = Resting /\ since = [n \in Keys |-> 0]
  /\ panel = [state |-> "main", screen |-> NoPicture, list |-> <<>>,
              index |-> 1, switch_count |-> 0, display_title |-> FALSE,
              author |-> <<>>, title |-> <<>>, recording |-> FALSE, loaded |-> NoFile]
  /\ history = [late |-> FALSE, wanted |-> "none", upper |-> FALSE, failed |-> FALSE,
                overtaken |-> FALSE]

TimePasses ==
  /\ \E n \in Keys : since[n] < Debounce
  /\ since' = [n \in Keys |-> MinOf(since[n] + 1, Debounce)]
  /\ UNCHANGED <<card, panel, shell, history>>

ChangeCard ==
  /\ shell.at = "idle" /\ card' \in Cards
  /\ UNCHANGED <<panel, since, shell, history>>

PanelNext ==
  \/ KeyIsr \/ TickIsr
  \/ MainRender \/ MainStart \/ MainState \/ MainPicture \/ MainRefresh \/ MainStop
  \/ TimePasses \/ ChangeCard

-----------------------------------------------------------------------------
(* Properties *)

\* Every file that is there is listed, with its long name as far as it is kept, or its own.
ListingRight(files) ==
  LET present == SelectSeq(files, LAMBDA f : f.kind = "file")
      listed == cffat_list_files(files)
  IN  /\ Len(listed) = Len(present)
      /\ \A i \in DOMAIN present :
           /\ listed[i].name = present[i].name
           /\ listed[i].long =
                LET long == present[i].long IN
                IF long = <<>> THEN <<present[i].name>>
                ELSE SubSeq(long, 1, MinOf(Len(long), Fragments * FragSize))

\* Between the commands the panel says that it renders if it does, unless a key started or
\* stopped a preset just before the main program said the contrary (`late'); what runs is what
\* the display showed when OK was pressed or what the command named, unless one failed to start
\* or OK started another between the reading of the command's file and its start (`failed').
\* And unless a key changed the panel while the main program drew an older picture
\* (`overtaken'), the display shows the panel's state, the file that OK would start, and the
\* author or the title of the preset that runs, if it was named as the card has it.
PanelRight ==
  /\ card = <<>> => \A files \in Cards \cup Directories : ListingRight(files)
  /\ shell.at = "idle" =>
       LET renders == panel.state = "rendering" IN
       /\ ~history.late => renders = panel.recording
       /\ panel.state = "list" => panel.index \in DOMAIN panel.list
       /\ renders /\ ~history.failed => panel.loaded.name = history.wanted
       /\ ~history.overtaken =>
            /\ panel.screen.kind = panel.state
            /\ panel.state = "list" => panel.screen.text = <<panel.list[panel.index]>>
            /\ renders /\ ~history.failed =>
                 panel.screen.text \in IF history.upper
                                       THEN {panel.loaded.author, panel.loaded.title}
                                       ELSE {Unknown}
=============================================================================
