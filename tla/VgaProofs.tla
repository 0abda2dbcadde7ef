----------------------------- MODULE VgaProofs -----------------------------
(***************************************************************************)
(* Triple buffering for every number of bursts and pictures: the renderer  *)
(* never draws into a buffer the hardware reads, no frame mixes two        *)
(* pictures, no request is overwritten, and the driver implements Display. *)
(***************************************************************************)
EXTENDS Vga, TLAPS

(***************************************************************************)
(* The inductive invariant.  Roles says which buffer the hardware can be   *)
(* scanning at each point of the program; Contents says what the buffers   *)
(* hold there.                                                             *)
(***************************************************************************)
Distinct ==
  /\ vga_frontbuffer # vga_backbuffer
  /\ vga_frontbuffer # vga_lastbuffer
  /\ vga_backbuffer # vga_lastbuffer

Roles ==
  /\ fml_adr.buffer = baseaddress_act
  /\ pc = "init" => baseaddress = Boot /\ baseaddress_act = Boot
  /\ pc \in {"release", "draw", "wait"} =>
       /\ baseaddress = vga_frontbuffer
       /\ baseaddress_act \in {vga_frontbuffer, vga_lastbuffer, Boot}
  /\ pc = "rotate" => baseaddress = vga_frontbuffer /\ baseaddress_act = vga_frontbuffer
  /\ pc = "request" => baseaddress = vga_lastbuffer /\ baseaddress_act = vga_lastbuffer

Holds(b, n) == \A s \in Strips : memory[b][s] = n

Contents ==
  /\ pc \in {"init", "release"} => frame = 0 /\ \A b \in Addresses : Holds(b, 0)
  /\ pc = "draw" => Holds(vga_frontbuffer, frame)
  /\ pc \in {"wait", "rotate"} =>
       frame > 0 /\ Holds(vga_frontbuffer, frame - 1) /\ Holds(vga_backbuffer, frame)
  /\ pc = "request" =>
       frame > 0 /\ Holds(vga_frontbuffer, frame) /\ Holds(vga_lastbuffer, frame - 1)
  /\ \A b \in Addresses \ {vga_backbuffer} : \E n \in 0..frame : Holds(b, n)

Scanned ==
  \A s \in DOMAIN pixels : pixels[s] = memory[baseaddress_act][s]

\* The controller's counter stays in the frame: sof is raised on the last burst.
BurstCount == ~sof => fml_adr.strip < NBursts

RolesInv == TypeOK /\ BurstCount /\ Distinct /\ Roles
ContentsInv == Contents /\ Scanned
IInv == RolesInv /\ ContentsInv

-----------------------------------------------------------------------------
LEMMA InitRoles == Init => RolesInv
  BY DistinctAssumption, NBurstsAssumption, MaxFramesAssumption
  DEF Init, RolesInv, TypeOK, BurstCount, Distinct, Roles, Buffers, Addresses, Strips, Pictures

\* The pointers and the type invariant: one step per action of the program,
\* then one per action of the hardware.
LEMMA NextRoles == RolesInv /\ [Next]_vars => RolesInv'
  <1> SUFFICES ASSUME RolesInv, [Next]_vars PROVE RolesInv'
    OBVIOUS
  <1> USE DistinctAssumption, NBurstsAssumption, MaxFramesAssumption
      DEF RolesInv, TypeOK, BurstCount, Distinct, Roles, scan, software, Addresses
  <1>1. CASE InitBase
    BY <1>1 DEF InitBase
  <1>2. CASE InitRelease
    BY <1>2 DEF InitRelease
  <1>3. CASE \E s \in Strips : Draw(s)
    <2> PICK s \in Strips : Draw(s)
      BY <1>3
    <2>1. frame + 1 \in Pictures
      BY DEF Draw, Pictures
    <2>2. memory' \in [Addresses -> [Strips -> Pictures]]
      BY <2>1 DEF Draw
    <2> QED BY <2>2 DEF Draw
  <1>4. CASE CallSwap
    BY <1>4 DEF CallSwap, Pictures
  <1>5. CASE SwapPoll
    BY <1>5 DEF SwapPoll
  <1>6. CASE SwapRotate
    BY <1>6 DEF SwapRotate
  <1>7. CASE SwapRequest
    BY <1>7 DEF SwapRequest
  <1>8. CASE Disable
    BY <1>8 DEF Disable
  <1>9. CASE ResetEdge
    BY <1>9 DEF ResetEdge
  <1>10. CASE NextBurst
    <2> DEFINE first == IF sof THEN 1 ELSE fml_adr.strip + 1
               buffer == IF sof THEN baseaddress ELSE fml_adr.buffer
    <2>a. first \in Strips /\ buffer \in Addresses
      BY DEF Strips
    <2>b. fml_adr' = [buffer |-> buffer, strip |-> first] /\ sof' = (first = NBursts)
      BY <1>10 DEF NextBurst
    <2>1. fml_adr' \in [buffer : Addresses, strip : Strips] /\ fml_adr'.strip = first
      <3> HIDE DEF first, buffer
      <3> QED BY <2>a, <2>b
    <2>c. sof' \in BOOLEAN /\ (~sof' => first # NBursts)
      <3> HIDE DEF first, buffer
      <3> QED BY ONLY <2>b, Zenon
    <2>d. first # NBursts => first < NBursts
      <3> HIDE DEF first
      <3> QED BY <2>a DEF Strips
    <2>2. BurstCount' /\ sof' \in BOOLEAN
      <3> HIDE DEF first, buffer
      <3> QED BY <2>1, <2>c, <2>d, Zenon
    <2> QED BY <1>10, <2>1, <2>2 DEF NextBurst
  <1>11. CASE Fetch
    BY <1>11 DEF Fetch
  <1>12. CASE BurstDone
    BY <1>12 DEF BurstDone
  <1>13. CASE UNCHANGED vars
    BY <1>13 DEF vars
  <1> QED
    BY <1>1, <1>2, <1>3, <1>4, <1>5, <1>6, <1>7, <1>8, <1>9, <1>10, <1>11, <1>12, <1>13
    DEF Next, Software, Hardware, Swap

\* The back buffer is the one buffer the hardware can neither scan nor be asked
\* to scan.
LEMMA RolesImplyBack == RolesInv => BackNeverRead
  BY DistinctAssumption DEF RolesInv, TypeOK, Distinct, Roles, BackNeverRead

-----------------------------------------------------------------------------
LEMMA InitContents == Init => ContentsInv
  <1> SUFFICES ASSUME Init PROVE ContentsInv
    OBVIOUS
  <1>1. \A b \in Addresses : Holds(b, 0)
    BY DEF Init, Holds
  <1>2. 0 \in 0..frame /\ frame = 0 /\ pc = "init"
    BY DEF Init
  <1> QED
    BY <1>1, <1>2 DEF Init, ContentsInv, Contents, Scanned

\* A step that leaves the buffers alone keeps what they hold.
LEMMA HoldsStable ==
  ASSUME memory' = memory
  PROVE  \A b, n : Holds(b, n) => Holds(b, n)'
  BY DEF Holds

LEMMA NextContents == RolesInv /\ RolesInv' /\ ContentsInv /\ [Next]_vars => ContentsInv'
  <1> SUFFICES ASSUME RolesInv, RolesInv', ContentsInv, [Next]_vars PROVE ContentsInv'
    OBVIOUS
  <1>a. frame \in Nat /\ baseaddress_act # vga_backbuffer
    BY RolesImplyBack, MaxFramesAssumption DEF RolesInv, TypeOK, Pictures, BackNeverRead
  <1>b. {vga_frontbuffer, vga_backbuffer, vga_lastbuffer} \subseteq Addresses
    BY DEF RolesInv, TypeOK, Addresses
  <1>1. ASSUME UNCHANGED <<vga_frontbuffer, vga_backbuffer, vga_lastbuffer, frame, memory, pc>>
        PROVE  Contents'
    BY <1>1 DEF ContentsInv, Contents, Holds
  <1>2. ASSUME UNCHANGED <<memory, baseaddress_act, pixels>>
        PROVE  Scanned'
    BY <1>2 DEF ContentsInv, Scanned
  <1>3. CASE InitBase \/ InitRelease
    <2>1. Contents'
      BY <1>3, <1>a, <1>b DEF InitBase, InitRelease, ContentsInv, Contents, Holds
    <2> QED BY <2>1, <1>2, <1>3 DEF InitBase, InitRelease, scan, ContentsInv
  <1>4. CASE \E s \in Strips : Draw(s)
    <2> PICK s \in Strips : Draw(s)
      BY <1>4
    <2>1. \A b \in Addresses \ {vga_backbuffer} : memory'[b] = memory[b]
      BY <1>b DEF Draw, RolesInv, TypeOK
    <2>2. \A b \in Addresses \ {vga_backbuffer} : \A n : Holds(b, n) => Holds(b, n)'
      BY <2>1 DEF Holds
    <2>3. Contents'
      BY <2>2, <1>b DEF Draw, RolesInv, Distinct, ContentsInv, Contents
    <2>4. Scanned'
      BY <2>1, <1>a DEF Draw, scan, RolesInv, TypeOK, ContentsInv, Scanned
    <2> QED BY <2>3, <2>4 DEF ContentsInv
  <1>5. CASE CallSwap
    <2>a. frame' > 0 /\ frame' = frame + 1 /\ frame' - 1 = frame
      BY <1>5, <1>a DEF CallSwap
    <2>1. Holds(vga_backbuffer, frame)' /\ Holds(vga_frontbuffer, frame - 1)'
      BY <1>5, <2>a DEF CallSwap, Holds, ContentsInv, Contents
    <2>2. 0..frame \subseteq 0..frame'
      BY <1>5, <1>a DEF CallSwap
    <2>3. \A b \in Addresses \ {vga_backbuffer} : \E n \in 0..frame' : Holds(b, n)'
      BY <1>5, <2>2, HoldsStable DEF CallSwap, ContentsInv, Contents
    <2>4. Contents'
      BY <1>5, <2>a, <2>1, <2>3 DEF CallSwap, Contents
    <2> QED BY <2>4, <1>2, <1>5 DEF CallSwap, scan, ContentsInv
  <1>6. CASE SwapPoll
    <2>1. Contents'
      BY <1>6, HoldsStable DEF SwapPoll, ContentsInv, Contents
    <2> QED BY <2>1, <1>2, <1>6 DEF SwapPoll, scan, ContentsInv
  <1>7. CASE SwapRotate
    <2>1. frame' > 0 /\ Holds(vga_frontbuffer', frame') /\ Holds(vga_lastbuffer', frame' - 1)
      BY <1>7 DEF SwapRotate, ContentsInv, Contents
    <2>2. frame \in 0..frame
      BY <1>a
    <2>3. \A b \in Addresses \ {vga_backbuffer'} : \E n \in 0..frame : Holds(b, n)
      BY <1>7, <2>1, <2>2 DEF SwapRotate, ContentsInv, Contents
    <2>4. Contents'
      BY <1>7, <2>1, <2>3, HoldsStable DEF SwapRotate, Contents
    <2> QED BY <2>4, <1>2, <1>7 DEF SwapRotate, scan, ContentsInv
  <1>8. CASE SwapRequest
    <2>1. Contents'
      BY <1>8, HoldsStable DEF SwapRequest, ContentsInv, Contents
    <2> QED BY <2>1, <1>2, <1>8 DEF SwapRequest, scan, ContentsInv
  <1>9. CASE Disable
    BY <1>9, <1>1, <1>2 DEF Disable, scan, software, ContentsInv
  <1>10. CASE ResetEdge
    BY <1>10, <1>1 DEF ResetEdge, software, ContentsInv, Scanned
  <1>11. CASE NextBurst
    <2>1. CASE sof
      BY <1>11, <1>1, <2>1 DEF NextBurst, software, ContentsInv, Scanned
    <2>2. CASE ~sof
      BY <1>11, <1>1, <1>2, <2>2 DEF NextBurst, software, ContentsInv
    <2> QED BY <2>1, <2>2
  <1>12. CASE Fetch
    <2>1. Scanned'
      BY <1>12 DEF Fetch, software, RolesInv, Roles, ContentsInv, Scanned
    <2> QED BY <2>1, <1>12, <1>1 DEF Fetch, software, ContentsInv
  <1>13. CASE BurstDone
    BY <1>13, <1>1, <1>2 DEF BurstDone, software, ContentsInv
  <1>14. CASE UNCHANGED vars
    BY <1>14, <1>1, <1>2 DEF vars, scan, software, ContentsInv
  <1> QED
    BY <1>3, <1>4, <1>5, <1>6, <1>7, <1>8, <1>9, <1>10, <1>11, <1>12, <1>13, <1>14
    DEF Next, Software, Hardware, Swap

-----------------------------------------------------------------------------
LEMMA Invariance == Spec => []IInv
  <1>1. Init => IInv
    BY InitRoles, InitContents DEF IInv
  <1>2. IInv /\ [Next]_vars => IInv'
    BY NextRoles, NextContents DEF IInv
  <1> QED BY <1>1, <1>2, PTL DEF Spec

\* The variables of the driver and of the scan-out core keep their types:
\* the burst counter never leaves the frame.
THEOREM TypeCorrect == Spec => []TypeOK
  <1>1. IInv => TypeOK
    BY DEF IInv, RolesInv
  <1> QED BY <1>1, Invariance, PTL

\* vga.c's promise about the back buffer: whatever the timing of the swap and of
\* the hardware's frames, the renderer's buffer is neither scanned nor requested.
THEOREM BackBufferSafe == Spec => []BackNeverRead
  <1>1. IInv => BackNeverRead
    BY RolesImplyBack DEF IInv
  <1> QED BY <1>1, Invariance, PTL

LEMMA ScannedWhole == IInv => WholePicture
  <1> SUFFICES ASSUME IInv PROVE WholePicture
    OBVIOUS
  <1>1. baseaddress_act \in Addresses \ {vga_backbuffer} /\ frame \in Nat
    BY RolesImplyBack, MaxFramesAssumption DEF IInv, RolesInv, TypeOK, BackNeverRead, Pictures
  <1>2. PICK n \in 0..frame : Holds(baseaddress_act, n)
    BY <1>1 DEF IInv, ContentsInv, Contents
  <1>3. \A s \in DOMAIN pixels : pixels[s] = n
    BY <1>2 DEF IInv, RolesInv, TypeOK, ContentsInv, Scanned, Holds
  <1> QED BY <1>1, <1>3 DEF WholePicture

\* No frame on the screen mixes two pictures or shows an unfinished one.
THEOREM NoTearing == Spec => []WholePicture
  BY ScannedWhole, Invariance, PTL

\* A new base address is written only after the hardware took the old one.
THEOREM RequestsAreTaken == Spec => RequestTaken
  <1>1. IInv /\ [Next]_vars => (baseaddress' # baseaddress => baseaddress_act = baseaddress)
    <2> SUFFICES ASSUME IInv, [Next]_vars, baseaddress' # baseaddress
                 PROVE  InitBase \/ SwapRequest
      BY DEF IInv, RolesInv, Roles, InitBase, SwapRequest
    <2> QED
      BY DEF Next, Software, Hardware, Swap, vars, scan, software, InitRelease, Draw, CallSwap,
             SwapPoll, SwapRotate, Disable, ResetEdge, NextBurst, Fetch, BurstDone
  <1>2. IInv /\ [Next]_vars => [baseaddress' # baseaddress => baseaddress_act = baseaddress]_vars
    BY <1>1
  <1> QED BY <1>2, Invariance, PTL DEF Spec, RequestTaken

-----------------------------------------------------------------------------
\* What the registers' buffers hold, as Display's two variables see it.
LEMMA ShownAndMade ==
  ASSUME IInv
  PROVE  /\ 1 \in Strips /\ frame \in Nat /\ frame <= MaxFrames
         /\ pc = "draw" => memory[vga_frontbuffer][1] = frame
         /\ pc = "request" => /\ memory[vga_frontbuffer][1] = frame
                             /\ memory[baseaddress][1] = frame - 1
                             /\ baseaddress_act = baseaddress
                             /\ frame > 0
         /\ pc = "init" => \A b \in Addresses : memory[b][1] = 0
  <1>1. 1 \in Strips
    BY NBurstsAssumption DEF Strips
  <1>2. frame \in Nat /\ frame <= MaxFrames
    BY MaxFramesAssumption DEF IInv, RolesInv, TypeOK, Pictures
  <1> QED
    BY <1>1, <1>2 DEF IInv, RolesInv, Roles, ContentsInv, Contents, Holds

\* A request is Display's Submit, the start of a frame is its Refresh, and every
\* other step leaves what is made and shown alone.
LEMMA StepsImplementDisplay == IInv /\ IInv' /\ [Next]_vars => [D!Next]_(D!dvars)
  <1> SUFFICES ASSUME IInv, IInv', [Next]_vars PROVE [D!Next]_(D!dvars)
    OBVIOUS
  <1>a. vga_backbuffer \notin {baseaddress, baseaddress_act}
    BY RolesImplyBack DEF IInv, BackNeverRead
  <1>b. {baseaddress, baseaddress_act} \subseteq Addresses /\ vga_backbuffer \in Addresses
    BY DEF IInv, RolesInv, TypeOK, Addresses
  <1>1. ASSUME UNCHANGED <<memory, baseaddress, baseaddress_act>>
        PROVE  UNCHANGED D!dvars
    BY <1>1 DEF D!dvars
  <1>2. CASE InitBase
    <2>1. vga_frontbuffer \in Addresses /\ pc = "init"
      BY <1>2 DEF InitBase, IInv, RolesInv, TypeOK, Addresses
    <2>2. UNCHANGED D!dvars
      BY <1>2, <2>1, <1>b, ShownAndMade DEF InitBase, scan, D!dvars
    <2> QED BY <2>2
  <1>3. CASE \E s \in Strips : Draw(s)
    <2> PICK s \in Strips : Draw(s)
      BY <1>3
    <2>1. memory'[baseaddress] = memory[baseaddress] /\ memory'[baseaddress_act] = memory[baseaddress_act]
      BY <1>a, <1>b DEF Draw, IInv, RolesInv, TypeOK
    <2> QED BY <2>1 DEF Draw, scan, D!dvars
  <1>4. CASE SwapRequest
    <2>1. D!Submit
      BY <1>4, ShownAndMade, MaxFramesAssumption DEF SwapRequest, scan, D!Submit
    <2> QED BY <2>1 DEF D!Next
  <1>5. CASE NextBurst
    <2>1. CASE sof
      <3>1. D!Refresh
        BY <1>5, <2>1 DEF NextBurst, software, D!Refresh
      <3> QED BY <3>1 DEF D!Next
    <2>2. CASE ~sof
      BY <1>5, <1>1, <2>2 DEF NextBurst, software
    <2> QED BY <2>1, <2>2
  <1>6. CASE InitRelease \/ CallSwap \/ SwapPoll \/ SwapRotate \/ Disable
    BY <1>6, <1>1 DEF InitRelease, CallSwap, SwapPoll, SwapRotate, Disable, scan, software
  <1>7. CASE ResetEdge \/ Fetch \/ BurstDone
    BY <1>7, <1>1 DEF ResetEdge, Fetch, BurstDone, software
  <1>8. CASE UNCHANGED vars
    BY <1>8, <1>1 DEF vars, software, scan
  <1> QED
    BY <1>2, <1>3, <1>4, <1>5, <1>6, <1>7, <1>8 DEF Next, Software, Hardware, Swap

\* The driver and the scan-out core together implement Display: the pictures
\* reach the screen in order, none skipped, none taken back.
THEOREM DisplayRefinement == Spec => ImplementsDisplay
  <1>1. Init => D!Init
    <2> SUFFICES ASSUME Init PROVE D!Init
      OBVIOUS
    <2>1. 1 \in Strips
      BY NBurstsAssumption DEF Strips
    <2> QED BY <2>1 DEF Init, Addresses, D!Init
  <1>2. IInv /\ IInv' /\ [Next]_vars => [D!Next]_(D!dvars)
    BY StepsImplementDisplay
  <1> QED BY <1>1, <1>2, Invariance, PTL DEF Spec, ImplementsDisplay, D!SafetySpec
=============================================================================
