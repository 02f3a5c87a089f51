------------------------------ MODULE VideoSwitch ------------------------------
(***************************************************************************)
(* Runtime selection of the picture: the physical VIC or the HDMI renderer *)
(* (scpuUpdateVideoSelection in src/Source/App/boot.cpp, the loop of core 1*)
(* in src/Source/App/hdmi_display.cpp, and the knock at $D0BA in           *)
(* src/Source/SuperCPU/registers.cpp).  VIDEO_MODE 1 is assumed: without it*)
(* none of this state moves.                                               *)
(*                                                                         *)
(* Core 0 runs the guest program and, after every frame, the hook.  Core 1 *)
(* renders for as long as m_PictureEnabled is set and parks otherwise.  One*)
(* call of the hook is one step: it writes each shared variable once, and  *)
(* no step of core 1 depends on two of them.  The load of m_PictureEnabled *)
(* and the store of m_PictureParked are two steps of core 1; they are      *)
(* adjacent instructions, and the hook runs once a frame, so the hook runs *)
(* at most once between them.  That is the only use made of time.          *)
(***************************************************************************)
EXTENDS Naturals

CONSTANT DebounceFrames  \* frames between two completed switches (30)

ASSUME DebounceAssumption == DebounceFrames \in Nat \ {0}

VARIABLES
    request,     \* m_VideoRequestedHDMI
    knock,       \* m_VideoKnockArmed
    iec,         \* iecBusActive()
    exclusive,   \* s_HDMIExclusive: HDMI owns the picture
    transition,  \* s_VideoTransition
    since,       \* frames since the last completed switch, DebounceFrames at most
    presented,   \* presentedFrames() differs from s_VideoTransitionFrame
    delivery,    \* the physical mirror delivers (and the bus keepalive is off)
    log,         \* m_VICLogEnabled
    newEpoch,    \* the log's generation is not the one core 1 sampled
    pictureEnabled, \* m_PictureEnabled
    parked,      \* m_PictureParked
    pc,          \* where core 1 is
    hooked,      \* the hook ran since core 1 last loaded m_PictureEnabled
    sampledAfter, \* history: core 1 sampled its frame after the log was last started
    fresh,       \* history: such a frame was presented since HDMI was last accepted
    accepted     \* history: the hook has accepted a transition since power-on

guestVars   == <<request, knock, iec>>
hookVars    == <<exclusive, transition, since, delivery>>
sharedVars  == <<presented, log, newEpoch, pictureEnabled, parked>>
core1Vars   == <<pc, hooked>>
historyVars == <<sampledAfter, fresh, accepted>>
switchVars == <<guestVars, hookVars, sharedVars, core1Vars, historyVars>>

TypeOK ==
    /\ request \in BOOLEAN /\ knock \in BOOLEAN /\ iec \in BOOLEAN
    /\ exclusive \in BOOLEAN /\ delivery \in BOOLEAN
    /\ transition \in {"none", "toHDMI", "toVIC"}
    /\ since \in 0..DebounceFrames
    /\ presented \in BOOLEAN /\ log \in BOOLEAN /\ newEpoch \in BOOLEAN
    /\ pictureEnabled \in BOOLEAN /\ parked \in BOOLEAN /\ hooked \in BOOLEAN
    /\ pc \in {"top", "parking", "asleep", "waking", "sample", "snapshot", "draw", "hold"}
    /\ sampledAfter \in BOOLEAN /\ fresh \in BOOLEAN /\ accepted \in BOOLEAN

\* Core 1 has been started and drew its first frame; the physical mirror is
\* on, and HDMI is the default request.
SwitchInit ==
    /\ request = TRUE /\ knock = FALSE /\ iec \in BOOLEAN
    /\ exclusive = FALSE /\ transition = "none" /\ since = DebounceFrames
    /\ presented = TRUE /\ delivery = TRUE /\ log = TRUE /\ newEpoch = FALSE
    /\ pictureEnabled = TRUE /\ parked = FALSE /\ pc = "top" /\ hooked = FALSE
    /\ sampledAfter = TRUE /\ fresh = FALSE /\ accepted = FALSE

--------------------------------------------------------------------------------
(* The guest program, the serial bus and the reset button.                    *)

\* A write to $D0BA.  The write after a knock closes the latch, whatever its value.
WriteVideo(v) ==
    /\ knock' = (~knock /\ v = "knock")
    /\ request' = IF knock /\ v \in {"vic", "hdmi"} THEN v = "hdmi" ELSE request
    /\ UNCHANGED <<iec, hookVars, sharedVars, core1Vars, historyVars>>

\* A read of $D0BA: after a knock it answers exclusive and closes the latch.
ReadVideo ==
    /\ knock' = FALSE
    /\ UNCHANGED <<request, iec, hookVars, sharedVars, core1Vars, historyVars>>

SerialBusChanges ==
    /\ iec' = ~iec
    /\ UNCHANGED <<request, knock, hookVars, sharedVars, core1Vars, historyVars>>

\* The reset button: the default request, and a new generation of the log.
Reset ==
    /\ request' = TRUE /\ knock' = FALSE /\ iec' = FALSE
    /\ newEpoch' = TRUE
    /\ UNCHANGED <<hookVars, presented, log, pictureEnabled, parked, core1Vars, historyVars>>

--------------------------------------------------------------------------------
(* scpuUpdateVideoSelection, once a frame: one action per path through it.    *)

\* (u32)( s_VideoFrames - s_VideoLastSwitchFrame ), as far as the debounce tells.
Ticked == IF since < DebounceFrames THEN since + 1 ELSE since
DebounceDone == Ticked = DebounceFrames

\* What every path of the hook does.
Hook ==
    /\ pc \in {"parking", "waking"} => ~hooked
    /\ hooked' = TRUE
    /\ UNCHANGED <<guestVars, parked, pc>>

SwitchLogOn == log' = TRUE /\ newEpoch' = (newEpoch \/ ~log)
SwitchLogOff == log' = FALSE /\ UNCHANGED newEpoch

AcceptHDMI ==
    /\ Hook /\ transition = "none" /\ DebounceDone /\ ~iec
    /\ request /\ ~exclusive
    /\ SwitchLogOn
    /\ presented' = FALSE
    /\ pictureEnabled' = TRUE
    /\ transition' = "toHDMI"
    /\ since' = Ticked
    /\ sampledAfter' = (sampledAfter /\ log) /\ fresh' = FALSE /\ accepted' = TRUE
    /\ UNCHANGED <<exclusive, delivery>>

AcceptVIC ==
    /\ Hook /\ transition = "none" /\ DebounceDone /\ ~iec
    /\ ~request /\ exclusive
    /\ pictureEnabled' = FALSE
    /\ transition' = "toVIC"
    /\ since' = Ticked
    /\ accepted' = TRUE
    /\ UNCHANGED <<exclusive, delivery, presented, log, newEpoch, sampledAfter, fresh>>

\* Mutant: the cancelled request leaves the log recording.
CancelHDMIKeepsLog ==
    /\ Hook /\ transition = "toHDMI" /\ ~request
    /\ pictureEnabled' = FALSE
    /\ transition' = "none"
    /\ since' = Ticked
    /\ UNCHANGED <<exclusive, delivery, presented, log, newEpoch, historyVars>>

CancelHDMI ==
    /\ Hook /\ transition = "toHDMI" /\ ~request
    /\ pictureEnabled' = FALSE
    /\ SwitchLogOff
    /\ transition' = "none"
    /\ since' = Ticked
    /\ UNCHANGED <<exclusive, delivery, presented, historyVars>>

CancelVIC ==
    /\ Hook /\ transition = "toVIC" /\ request
    /\ pictureEnabled' = TRUE
    /\ transition' = "none"
    /\ since' = Ticked
    /\ UNCHANGED <<exclusive, delivery, presented, log, newEpoch, historyVars>>

\* A frame was presented since the request was accepted: detach the mirror.
CompleteHDMI ==
    /\ Hook /\ transition = "toHDMI" /\ request
    /\ presented /\ ~iec /\ DebounceDone
    /\ delivery' = FALSE
    /\ exclusive' = TRUE
    /\ transition' = "none"
    /\ since' = 0
    /\ UNCHANGED <<presented, log, newEpoch, pictureEnabled, historyVars>>

\* Core 1 is parked: the mirror takes over and the log stops.
CompleteVIC ==
    /\ Hook /\ transition = "toVIC" /\ ~request
    /\ parked /\ ~iec /\ DebounceDone
    /\ delivery' = TRUE
    /\ SwitchLogOff
    /\ exclusive' = FALSE
    /\ transition' = "none"
    /\ since' = 0
    /\ UNCHANGED <<presented, pictureEnabled, historyVars>>

\* Nothing to do, or something still to wait for.
HookWaits ==
    /\ Hook
    /\ \/ transition = "none" /\ (request = exclusive \/ ~DebounceDone \/ iec)
       \/ transition = "toHDMI" /\ request /\ (~presented \/ iec \/ ~DebounceDone)
       \/ transition = "toVIC" /\ ~request /\ (~parked \/ iec \/ ~DebounceDone)
    /\ since' = Ticked
    /\ UNCHANGED <<exclusive, transition, delivery, presented, log, newEpoch, pictureEnabled,
                   historyVars>>

--------------------------------------------------------------------------------
(* Core 1: CHDMIDisplay::run and renderFrame.                                 *)

Core1Leaves == UNCHANGED <<guestVars, hookVars, log, pictureEnabled, fresh, accepted>>

LoadEnabled ==
    /\ pc = "top"
    /\ pc' = IF pictureEnabled THEN "waking" ELSE "parking"
    /\ hooked' = FALSE
    /\ UNCHANGED <<presented, newEpoch, parked, sampledAfter>> /\ Core1Leaves

\* Mutant: a parked core does not say so.
ParkSilently ==
    /\ pc = "parking"
    /\ pc' = "asleep"
    /\ UNCHANGED <<presented, newEpoch, parked, hooked, sampledAfter>> /\ Core1Leaves

Park ==
    /\ pc = "parking"
    /\ parked' = TRUE
    /\ pc' = "asleep"
    /\ UNCHANGED <<presented, newEpoch, hooked, sampledAfter>> /\ Core1Leaves

\* The wait to the end of the frame, parked or with nothing new to show.
FrameOver ==
    /\ pc \in {"asleep", "hold"}
    /\ pc' = "top"
    /\ UNCHANGED <<presented, newEpoch, parked, hooked, sampledAfter>> /\ Core1Leaves

\* Mutant: the acknowledgement outlives the parking.
UnparkForgotten ==
    /\ pc = "waking"
    /\ pc' = "sample"
    /\ UNCHANGED <<presented, newEpoch, parked, hooked, sampledAfter>> /\ Core1Leaves

Unpark ==
    /\ pc = "waking"
    /\ parked' = FALSE
    /\ pc' = "sample"
    /\ UNCHANGED <<presented, newEpoch, hooked, sampledAfter>> /\ Core1Leaves

\* The latch loop samples the generation, and the replay has a frame or not.
Sample(held) ==
    /\ pc = "sample"
    /\ newEpoch' = FALSE
    /\ sampledAfter' = TRUE
    /\ pc' = IF held THEN "hold" ELSE "snapshot"
    /\ UNCHANGED <<presented, parked, hooked>> /\ Core1Leaves

\* Colour and source RAM are copied; a frame of two epochs is dropped.
Snapshot ==
    /\ pc = "snapshot"
    /\ pc' = IF newEpoch THEN "hold" ELSE "draw"
    /\ UNCHANGED <<presented, newEpoch, parked, hooked, sampledAfter>> /\ Core1Leaves

Present ==
    /\ pc = "draw"
    /\ presented' = TRUE
    /\ fresh' = (fresh \/ sampledAfter)
    /\ pc' = "top"
    /\ UNCHANGED <<guestVars, hookVars, log, newEpoch, pictureEnabled, parked, hooked,
                   sampledAfter, accepted>>

--------------------------------------------------------------------------------
Guest ==
    \/ \E v \in {"knock", "vic", "hdmi", "other"} : WriteVideo(v)
    \/ ReadVideo \/ SerialBusChanges \/ Reset

UpdateVideoSelection ==
    \/ AcceptHDMI \/ AcceptVIC \/ CancelHDMI \/ CancelVIC
    \/ CompleteHDMI \/ CompleteVIC \/ HookWaits

Core1 ==
    \/ LoadEnabled \/ Park \/ FrameOver \/ Unpark
    \/ (\E held \in BOOLEAN : Sample(held)) \/ Snapshot \/ Present

SwitchNext == Guest \/ UpdateVideoSelection \/ Core1

SwitchSpec == SwitchInit /\ [][SwitchNext]_switchVars

\* Both cores keep running.  The replay does not hold for ever (an event older
\* than a frame and a half, or the start of another frame, releases it), and the
\* reset button is not pressed in every frame.
FairSwitchSpec ==
    /\ SwitchSpec
    /\ WF_switchVars(UpdateVideoSelection)
    /\ WF_switchVars(Core1)
    /\ SF_switchVars(Sample(FALSE))
    /\ SF_switchVars(Snapshot /\ ~newEpoch)

--------------------------------------------------------------------------------
(* Properties.                                                                *)

\* Whoever is to show the picture is able to: while HDMI owns it the log records
\* and core 1 is on, or on its way out; a transition finds the state its
\* acceptance left; and once it is over, completed or cancelled, core 1, the log
\* and the mirror all agree with the mode (scpuUpdateVideoSelection).
ModeAgrees ==
    /\ delivery = ~exclusive
    /\ pictureEnabled => log
    /\ transition = "toHDMI" => pictureEnabled /\ ~exclusive
    /\ transition = "toVIC" => ~pictureEnabled /\ log /\ exclusive
    /\ transition = "none" /\ accepted => pictureEnabled = exclusive /\ log = exclusive

\* The mirror resumes bursts only when core 1 is out of its frame and will not
\* begin another until it is woken ("Core 1 now generates no shared-memory
\* traffic"), however often the request was reversed meanwhile.
MirrorResumesQuietly ==
    [][~delivery /\ delivery' => ~pictureEnabled /\ pc \in {"top", "parking", "asleep"}]_switchVars

\* A request that is left alone is honoured once the serial bus is quiet,
\* whatever was cancelled, held or reset before; and selecting the VIC parks
\* core 1, if the hook ever accepted a transition.
RequestHonoured ==
    <>[]~iec => /\ <>[]request => <>[]exclusive
                /\ <>[]~request => <>[]~exclusive
                /\ <>[]~request /\ <>accepted => <>[]parked

\* The register documentation: "Selecting the physical VIC parks the HDMI
\* renderer on its last complete picture".
SelectingVICParks == <>[]~request /\ <>[]~iec => <>[]parked

\* The register documentation: "Returning to HDMI captures and completes a fresh
\* frame before it stops physical mirroring".
FreshFrameFirst == [][delivery /\ ~delivery' => fresh]_switchVars

================================================================================
