------------------------------ MODULE Display ------------------------------
(***************************************************************************)
(* What page flipping promises to the program that draws: pictures are     *)
(* numbered in the order they are handed over, one is handed over only     *)
(* once the previous one is on its way to the screen, and none is skipped. *)
(***************************************************************************)
EXTENDS Naturals

CONSTANT MaxPictures   \* how many will be handed over

VARIABLES made,    \* the last picture handed over
          shown    \* the picture the screen is being refreshed from

dvars == <<made, shown>>

Init == made = 0 /\ shown = 0

\* The program hands over its next picture.
Submit == /\ shown = made
          /\ made < MaxPictures
          /\ made' = made + 1
          /\ UNCHANGED shown

\* A refresh of the screen starts, from the last picture handed over.
Refresh == shown' = made /\ UNCHANGED made

Next == Submit \/ Refresh

SafetySpec == Init /\ [][Next]_dvars
=============================================================================
