-------------------------------- MODULE Vga --------------------------------
(***************************************************************************)
(* Triple buffering: software/libhal/vga.c above the scan-out hardware     *)
(* (cores/vgafb), with the renderer that fills the back buffer.            *)
(*                                                                         *)
(* A frame buffer is NBursts strips, one per memory burst of the scan.  A  *)
(* strip holds the number of the picture it was last drawn for; picture 0  *)
(* is what the buffers hold when the program starts.                       *)
(***************************************************************************)
EXTENDS Naturals

CONSTANTS A, B, C,       \* framebufferA, framebufferB, framebufferC
          Boot,          \* the buffer the boot loader left on the screen
          NBursts,       \* bursts in a frame (the nbursts register)
          MaxFrames      \* bound: pictures the renderer draws

Buffers == {A, B, C}
Addresses == Buffers \cup {Boot}
Strips == 1..NBursts
Pictures == 0..MaxFrames

ASSUME DistinctAssumption == A # B /\ A # C /\ B # C /\ Boot \notin Buffers
ASSUME NBurstsAssumption == NBursts \in Nat \ {0, 1}
ASSUME MaxFramesAssumption == MaxFrames \in Nat

VARIABLES
  pc,          \* where the program is: in vga_init, drawing, or in vga_swap_buffers
  vga_frontbuffer, vga_backbuffer, vga_lastbuffer,
  frame,       \* number of the last picture handed to vga_swap_buffers
  memory,      \* contents of the frame buffers
  baseaddress, baseaddress_act, vga_rst,   \* control registers (vgafb_ctlif)
  state,       \* burst controller (vgafb_pixelfeed)
  fml_adr,     \* the strip the controller fetches: buffer and number
  sof,         \* the next burst is the first of a frame
  ignore,      \* drop the data of the burst in flight
  pixels       \* what the FIFO was given of the frame being scanned

software == <<pc, vga_frontbuffer, vga_backbuffer, vga_lastbuffer, frame, memory>>
scan == <<baseaddress_act, state, fml_adr, sof, ignore, pixels>>
vars == <<software, baseaddress, vga_rst, scan>>

-----------------------------------------------------------------------------
\* The scan-out hardware may be running from the boot loader's buffer, or be
\* in reset.  The frame buffers are in .bss: they hold picture 0.
Init ==
  /\ pc = "init"
  /\ vga_frontbuffer = A /\ vga_backbuffer = B /\ vga_lastbuffer = C
  /\ frame = 0
  /\ memory = [b \in Addresses |-> [s \in Strips |-> 0]]
  /\ baseaddress = Boot /\ baseaddress_act = Boot
  /\ vga_rst \in BOOLEAN
  /\ state = "IDLE"
  /\ fml_adr = [buffer |-> Boot, strip |-> 1]
  /\ sof = TRUE
  /\ ignore = vga_rst
  /\ pixels = [s \in {} |-> 0]

\* vga_init: the pointers are set, the base address register takes the front
\* buffer and the core leaves reset (two register writes).
InitBase ==
  /\ pc = "init"
  /\ baseaddress' = vga_frontbuffer
  /\ pc' = "release"
  /\ UNCHANGED <<vga_frontbuffer, vga_backbuffer, vga_lastbuffer, frame, memory, vga_rst, scan>>

InitRelease ==
  /\ pc = "release"
  /\ vga_rst' = FALSE
  /\ pc' = "draw"
  /\ UNCHANGED <<vga_frontbuffer, vga_backbuffer, vga_lastbuffer, frame, memory, baseaddress, scan>>

\* The renderer draws one strip of its next picture into the back buffer.
Draw(s) ==
  /\ pc = "draw"
  /\ frame < MaxFrames
  /\ memory[vga_backbuffer][s] # frame + 1
  /\ memory' = [memory EXCEPT ![vga_backbuffer][s] = frame + 1]
  /\ UNCHANGED <<pc, vga_frontbuffer, vga_backbuffer, vga_lastbuffer, frame, baseaddress, vga_rst, scan>>

\* Mutant: the swap does not wait for the request before it.
CallSwapNoWait ==
  /\ pc = "draw"
  /\ frame < MaxFrames
  /\ \A s \in Strips : memory[vga_backbuffer][s] = frame + 1
  /\ frame' = frame + 1
  /\ pc' = "rotate"
  /\ UNCHANGED <<vga_frontbuffer, vga_backbuffer, vga_lastbuffer, memory, baseaddress, vga_rst, scan>>

\* The picture is complete: vga_swap_buffers is called.
CallSwap ==
  /\ pc = "draw"
  /\ frame < MaxFrames
  /\ \A s \in Strips : memory[vga_backbuffer][s] = frame + 1
  /\ frame' = frame + 1
  /\ pc' = "wait"
  /\ UNCHANGED <<vga_frontbuffer, vga_backbuffer, vga_lastbuffer, memory, baseaddress, vga_rst, scan>>

\* Mutant: the poll looks at whether the core runs, not at what it scans.
SwapPollRunning ==
  /\ pc = "wait"
  /\ ~vga_rst
  /\ pc' = "rotate"
  /\ UNCHANGED <<vga_frontbuffer, vga_backbuffer, vga_lastbuffer, frame, memory, baseaddress, vga_rst, scan>>

\* The busy wait ends once the hardware scans from the requested base address.
SwapPoll ==
  /\ pc = "wait"
  /\ baseaddress_act = baseaddress
  /\ pc' = "rotate"
  /\ UNCHANGED <<vga_frontbuffer, vga_backbuffer, vga_lastbuffer, frame, memory, baseaddress, vga_rst, scan>>

\* Mutant: front and back are exchanged, as with two buffers.
SwapRotateTwo ==
  /\ pc = "rotate"
  /\ vga_frontbuffer' = vga_backbuffer
  /\ vga_backbuffer' = vga_frontbuffer
  /\ pc' = "request"
  /\ UNCHANGED <<vga_lastbuffer, frame, memory, baseaddress, vga_rst, scan>>

\* The three pointers rotate.
SwapRotate ==
  /\ pc = "rotate"
  /\ vga_frontbuffer' = vga_backbuffer
  /\ vga_backbuffer' = vga_lastbuffer
  /\ vga_lastbuffer' = vga_frontbuffer
  /\ pc' = "request"
  /\ UNCHANGED <<frame, memory, baseaddress, vga_rst, scan>>

\* Mutant: the base address is taken from the wrong pointer.
SwapRequestLast ==
  /\ pc = "request"
  /\ baseaddress' = vga_lastbuffer
  /\ pc' = "draw"
  /\ UNCHANGED <<vga_frontbuffer, vga_backbuffer, vga_lastbuffer, frame, memory, vga_rst, scan>>

\* The new front buffer is requested.
SwapRequest ==
  /\ pc = "request"
  /\ baseaddress' = vga_frontbuffer
  /\ pc' = "draw"
  /\ UNCHANGED <<vga_frontbuffer, vga_backbuffer, vga_lastbuffer, frame, memory, vga_rst, scan>>

\* vga_disable.  No code of the demo calls it.
Disable ==
  /\ pc = "draw"
  /\ ~vga_rst
  /\ vga_rst' = TRUE
  /\ UNCHANGED <<software, baseaddress, scan>>

-----------------------------------------------------------------------------
\* In reset the burst counter restarts, the FIFO is empty and the burst in
\* flight is to be dropped (one clock edge with vga_rst set).
ResetEdge ==
  /\ vga_rst
  /\ sof' = TRUE
  /\ ignore' = TRUE
  /\ pixels' = [s \in {} |-> 0]
  /\ UNCHANGED <<software, baseaddress, vga_rst, baseaddress_act, state, fml_adr>>

\* Mutant: the frame is one burst too long.
NextBurstLong ==
  /\ state = "IDLE"
  /\ ~vga_rst
  /\ state' = "WAIT"
  /\ ignore' = FALSE
  /\ LET first == IF sof THEN 1 ELSE fml_adr.strip + 1 IN
       /\ fml_adr' = [buffer |-> IF sof THEN baseaddress ELSE fml_adr.buffer, strip |-> first]
       /\ sof' = (first > NBursts)
  /\ baseaddress_act' = IF sof THEN baseaddress ELSE baseaddress_act
  /\ pixels' = IF sof THEN [s \in {} |-> 0] ELSE pixels
  /\ UNCHANGED <<software, baseaddress, vga_rst>>

\* Mutant: the start of a frame does not update baseaddress_act.
NextBurstNoAck ==
  /\ state = "IDLE"
  /\ ~vga_rst
  /\ state' = "WAIT"
  /\ ignore' = FALSE
  /\ LET first == IF sof THEN 1 ELSE fml_adr.strip + 1 IN
       /\ fml_adr' = [buffer |-> IF sof THEN baseaddress ELSE fml_adr.buffer, strip |-> first]
       /\ sof' = (first = NBursts)
  /\ pixels' = IF sof THEN [s \in {} |-> 0] ELSE pixels
  /\ UNCHANGED <<software, baseaddress, vga_rst, baseaddress_act>>

\* Mutant: a burst leaves the ignore flag as the reset set it.
NextBurstIgnores ==
  /\ state = "IDLE"
  /\ ~vga_rst
  /\ state' = "WAIT"
  /\ LET first == IF sof THEN 1 ELSE fml_adr.strip + 1 IN
       /\ fml_adr' = [buffer |-> IF sof THEN baseaddress ELSE fml_adr.buffer, strip |-> first]
       /\ sof' = (first = NBursts)
  /\ baseaddress_act' = IF sof THEN baseaddress ELSE baseaddress_act
  /\ pixels' = IF sof THEN [s \in {} |-> 0] ELSE pixels
  /\ UNCHANGED <<software, baseaddress, vga_rst, ignore>>

\* IDLE: pixels are needed.  At the start of a frame the address generator
\* loads the base address, and baseaddress_act follows it on the same edge.
NextBurst ==
  /\ state = "IDLE"
  /\ ~vga_rst
  /\ state' = "WAIT"
  /\ ignore' = FALSE
  /\ LET first == IF sof THEN 1 ELSE fml_adr.strip + 1 IN
       /\ fml_adr' = [buffer |-> IF sof THEN baseaddress ELSE fml_adr.buffer, strip |-> first]
       /\ sof' = (first = NBursts)
  /\ baseaddress_act' = IF sof THEN baseaddress ELSE baseaddress_act
  /\ pixels' = IF sof THEN [s \in {} |-> 0] ELSE pixels
  /\ UNCHANGED <<software, baseaddress, vga_rst>>

\* WAIT: the memory acknowledges and the burst's data follow, into the FIFO
\* unless they are ignored.
Fetch ==
  /\ state = "WAIT"
  /\ state' = "FETCH"
  /\ pixels' = IF ignore THEN pixels
               ELSE [s \in DOMAIN pixels \cup {fml_adr.strip} |->
                       IF s = fml_adr.strip THEN memory[fml_adr.buffer][s] ELSE pixels[s]]
  /\ UNCHANGED <<software, baseaddress, vga_rst, baseaddress_act, fml_adr, sof, ignore>>

BurstDone ==
  /\ state = "FETCH"
  /\ state' = "IDLE"
  /\ UNCHANGED <<software, baseaddress, vga_rst, baseaddress_act, fml_adr, sof, ignore, pixels>>

-----------------------------------------------------------------------------
Swap == SwapPoll \/ SwapRotate \/ SwapRequest
Software == InitBase \/ InitRelease \/ (\E s \in Strips : Draw(s)) \/ CallSwap \/ Swap \/ Disable
Hardware == NextBurst \/ Fetch \/ BurstDone \/ ResetEdge

Next == Software \/ Hardware

\* The pixel clock drains the FIFO whatever the processor does, so the core
\* never stops fetching; the processor always runs vga_init and vga_swap_buffers
\* to their ends.  Nothing forces the renderer to finish a picture.
Fairness == /\ WF_vars(InitBase \/ InitRelease \/ Swap)
            /\ WF_vars(NextBurst \/ Fetch \/ BurstDone)

Spec == Init /\ [][Next]_vars /\ Fairness

-----------------------------------------------------------------------------
TypeOK ==
  /\ pc \in {"init", "release", "draw", "wait", "rotate", "request"}
  /\ {vga_frontbuffer, vga_backbuffer, vga_lastbuffer} \subseteq Buffers
  /\ frame \in Pictures
  /\ memory \in [Addresses -> [Strips -> Pictures]]
  /\ {baseaddress, baseaddress_act} \subseteq Addresses
  /\ vga_rst \in BOOLEAN /\ sof \in BOOLEAN /\ ignore \in BOOLEAN
  /\ state \in {"IDLE", "WAIT", "FETCH"}
  /\ fml_adr \in [buffer : Addresses, strip : Strips]
  /\ DOMAIN pixels \subseteq Strips
  /\ \A s \in DOMAIN pixels : pixels[s] \in Pictures

\* vga.c says of the back buffer that it is never read by the hardware: the
\* buffer being drawn is neither scanned nor requested, in no interleaving of
\* the swap with the start of a frame.
BackNeverRead ==
  vga_backbuffer \notin {baseaddress, baseaddress_act, fml_adr.buffer}

\* No tearing: the strips scanned so far for a frame come from one picture,
\* and it is one the renderer has finished and handed over.
WholePicture ==
  \A s, t \in DOMAIN pixels : pixels[s] = pixels[t] /\ pixels[s] <= frame

\* The swap never overwrites a request the hardware has not taken: the base
\* address changes only when the hardware already scans from the old one (or
\* on the boot loader's).
RequestTaken ==
  [][baseaddress' # baseaddress => baseaddress_act = baseaddress]_vars

\* The display never goes back to an earlier picture, nor skips one: the driver
\* implements Display, where the picture made is what the requested buffer holds
\* and the picture shown is what the scanned one holds.
D == INSTANCE Display WITH MaxPictures <- MaxFrames,
                           made <- memory[baseaddress][1],
                           shown <- memory[baseaddress_act][1]
ImplementsDisplay == D!SafetySpec

\* The busy wait of vga_swap_buffers ends: the hardware takes every request at
\* the next frame, unless it was put in reset, where the wait never ends.
SwapReturns == (pc = "wait") ~> (pc = "draw" \/ vga_rst)

\* Every picture handed over reaches the screen whole.
EveryPictureShown ==
  \A n \in Pictures :
    (frame = n) ~> (vga_rst \/ \A s \in Strips : s \in DOMAIN pixels /\ pixels[s] = n)
=============================================================================
