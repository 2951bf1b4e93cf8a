------------------------------- MODULE UxSdl3 -------------------------------
(***************************************************************************)
(* The SDL3 adapter (src/runtime_ext/uxraylib/uxsdl3_adapter.c): the queue *)
(* of events folded into state that a program polls, and the tables of     *)
(* what the adapter opened.  Calls that only pass on to SDL are left out;  *)
(* keys and mouse buttons are codes, a typed chunk stands for one length.  *)
(***************************************************************************)
EXTENDS Naturals, FiniteSets, SequencesExt

CONSTANTS
  SdlKeys, SdlButtons,
  SdlEvents,       \* the other kinds of events that come: see EventFlags and PumpEvents
  SdlSlots,        \* bound: 127 sounds in the code
  SdlPadSlots,     \* bound: 15 pads of each kind in the code
  SdlCursorIds,
  SdlVolumes,      \* volumes a program sets; 1 is one of them
  SdlTextMax,      \* bound: chunks that fit, for the 1023 bytes in the code
  SdlDropMax,      \* bound: 16 in the code
  SdlQueueMax      \* bound: events that wait in SDL's queue

ASSUME SdlAssumption ==
  /\ {SdlSlots, SdlPadSlots} \subseteq Nat /\ SdlVolumes \subseteq Nat
  /\ "none" \notin SdlKeys \cup SdlButtons /\ SdlEvents \cap {"down", "up", "repeat"} = {}

VARIABLES
  sdlUp,        \* SDL is initialised; the program uses the adapter only then
  sdlQueue,     \* SDL's queue of events
  sdlDown,      \* the codes that are down, and what a device may send next
  sdlLost,      \* the codes whose last event was flushed, or forgotten with the rest
  sdlKeys,      \* held, pressed and released codes: uxSdl3KeyHeld and the others
  sdlFlags,     \* what is set and was not read or cleared yet
  sdlText,      \* chunks in uxSdl3TextIn and in uxSdl3TextPending
  sdlDrops,     \* uxSdl3DropCount
  sdlSounds,    \* uxSdl3Sounds and uxSdl3SoundUsed; set: the gain of the stream
  sdlMaster,    \* uxSdl3MasterGain
  sdlPads,      \* uxSdl3Joysticks and uxSdl3Gamepads, the slots in use
  sdlCursors,   \* uxSdl3Cursors, those created
  sdlCaches,    \* the caches that hold a string or a list
  sdlAlive      \* how many objects of each kind SDL has given out

sdlInput == <<sdlQueue, sdlDown, sdlLost, sdlKeys, sdlFlags, sdlText, sdlDrops>>
sdlObjects == <<sdlSounds, sdlMaster, sdlPads, sdlCursors, sdlCaches, sdlAlive>>
sdlVars == <<sdlUp, sdlInput, sdlObjects>>

SdlCodes == SdlKeys \cup SdlButtons
NoKeys == [held |-> {}, pressed |-> {}, released |-> {}]

(* The flags that describe the last pump only, and those that a call reads    *)
(* and clears; the others ("quit", "tracked", "last key") stay.              *)
SdlPumpFlags == {"motion", "window event"}
SdlReadFlags == {"resized", "wheel", "device"}
SdlCacheIds == {"clipboard", "path", "list", "locale", "mapping"}
SdlPadKinds == {"joystick", "gamepad"}
SdlKinds == {"stream", "buffer", "cursor"} \cup SdlPadKinds \cup SdlCacheIds

(* Events as they come from devices or from the push functions. *)
PushEvent(kind, code) ==
  /\ Len(sdlQueue) < SdlQueueMax
  /\ kind = "repeat" => code \in sdlDown \cap SdlKeys
  /\ sdlQueue' = Append(sdlQueue, [kind |-> kind, code |-> code])
  /\ sdlDown' = CASE kind = "down" -> sdlDown \cup {code}
                  [] kind = "up" -> sdlDown \ {code}
                  [] OTHER -> sdlDown
  /\ sdlLost' = sdlLost \ {code}
  /\ UNCHANGED <<sdlKeys, sdlFlags, sdlText, sdlDrops, sdlObjects>>

(* uxsdl3_flush_events: what waits is lost. *)
FlushEvents ==
  /\ sdlQueue' = <<>>
  /\ sdlLost' = sdlLost \cup ({sdlQueue[i].code : i \in DOMAIN sdlQueue} \cap SdlCodes)
  /\ UNCHANGED <<sdlDown, sdlKeys, sdlFlags, sdlText, sdlDrops, sdlObjects>>

(* One event folded into the keys and buttons. *)
FoldKey(keys, ev) ==
  CASE ev.kind = "down" -> [keys EXCEPT !.held = @ \cup {ev.code}, !.pressed = @ \cup {ev.code}]
    [] ev.kind = "repeat" -> [keys EXCEPT !.held = @ \cup {ev.code}]
    [] ev.kind = "up" -> [keys EXCEPT !.held = @ \ {ev.code}, !.released = @ \cup {ev.code}]
    [] OTHER -> keys
Folded(keys, queue) ==
  LET fold[i \in 0..Len(queue)] == IF i = 0 THEN keys ELSE FoldKey(fold[i - 1], queue[i])
  IN  fold[Len(queue)]
EventFlags(ev) ==
  CASE ev.code \in SdlButtons -> {"tracked"}
    [] ev.code \in SdlKeys /\ ev.kind # "up" -> {"last key"}
    [] ev.kind = "motion" -> {"motion", "tracked"}
    [] ev.kind = "resize" -> {"window event", "resized"}
    [] ev.kind \in {"wheel", "quit", "device"} -> {ev.kind}
    [] OTHER -> {}
EventsOf(kind) == Cardinality({i \in DOMAIN sdlQueue : sdlQueue[i].kind = kind})

(* uxSdl3AppendText: chunks that do not fit whole are dropped. *)
AppendText(have, n) == IF n = 0 \/ have + n > SdlTextMax THEN have ELSE have + n
AddDrops(n) == Min({SdlDropMax, sdlDrops + n})

(* uxsdl3_pump_events; typed chunks come one by one, those injected at once.  *)
(* The looping sounds are fed, which changes nothing here.                   *)
PumpEvents ==
  /\ sdlQueue' = <<>>
  /\ sdlKeys' = Folded([sdlKeys EXCEPT !.pressed = {}, !.released = {}], sdlQueue)
  /\ sdlFlags' = (sdlFlags \ SdlPumpFlags)
                 \cup UNION {EventFlags(sdlQueue[i]) : i \in DOMAIN sdlQueue}
  /\ LET typed == Min({SdlTextMax, sdlText.in + EventsOf("text")})
     IN  sdlText' = [in |-> AppendText(typed, sdlText.pending), pending |-> 0]
  /\ sdlDrops' = AddDrops(EventsOf("drop"))
  /\ UNCHANGED <<sdlDown, sdlLost, sdlObjects>>

ClearQuit == sdlFlags' = sdlFlags \ {"quit"} /\ UNCHANGED <<sdlQueue, sdlDown, sdlLost, sdlKeys, sdlText, sdlDrops, sdlObjects>>
TakeFlag(f) ==
  /\ f \in SdlReadFlags /\ sdlFlags' = sdlFlags \ {f}
  /\ UNCHANGED <<sdlQueue, sdlDown, sdlLost, sdlKeys, sdlText, sdlDrops, sdlObjects>>
TakeDrop ==
  /\ sdlDrops > 0 /\ sdlDrops' = sdlDrops - 1
  /\ UNCHANGED <<sdlQueue, sdlDown, sdlLost, sdlKeys, sdlFlags, sdlText, sdlObjects>>
PushDrop ==
  /\ sdlDrops' = AddDrops(1)
  /\ UNCHANGED <<sdlQueue, sdlDown, sdlLost, sdlKeys, sdlFlags, sdlText, sdlObjects>>
TakeTextInput ==
  /\ sdlText' = [sdlText EXCEPT !.in = 0]
  /\ UNCHANGED <<sdlQueue, sdlDown, sdlLost, sdlKeys, sdlFlags, sdlDrops, sdlObjects>>
PushTextInput ==
  /\ sdlText' = [sdlText EXCEPT !.pending = AppendText(@, 1)]
  /\ UNCHANGED <<sdlQueue, sdlDown, sdlLost, sdlKeys, sdlFlags, sdlDrops, sdlObjects>>

-----------------------------------------------------------------------------
(* What the adapter opens *)

SdlGive(kinds) == sdlAlive' = [k \in SdlKinds |-> sdlAlive[k] + IF k \in kinds THEN 1 ELSE 0]
SdlTake(kinds) == sdlAlive' = [k \in SdlKinds |-> sdlAlive[k] - IF k \in kinds THEN 1 ELSE 0]
NoSound == [used |-> FALSE, gain |-> 1, set |-> 1]

(* uxSdl3SoundAdd, into the first free slot. *)
SoundAdd(i) ==
  /\ ~sdlSounds[i].used /\ \A j \in 1..(i - 1) : sdlSounds[j].used
  /\ sdlSounds' = [sdlSounds EXCEPT ![i] = [used |-> TRUE, gain |-> 1, set |-> sdlMaster]]

(* uxsdl3_sound_load and uxsdl3_sound_create_tone: the samples, the stream,   *)
(* the slot; what was made is given back when a later step fails.            *)
SoundLoad ==
  /\ \/ \E i \in 1..SdlSlots : SoundAdd(i) /\ SdlGive({"buffer", "stream"})
     \/ UNCHANGED <<sdlSounds, sdlAlive>>
  /\ UNCHANGED <<sdlInput, sdlMaster, sdlPads, sdlCursors, sdlCaches>>
SoundCreateTone == SoundLoad

SoundUnload(i) ==
  /\ sdlSounds[i].used
  /\ sdlSounds' = [sdlSounds EXCEPT ![i].used = FALSE]
  /\ SdlTake({"buffer", "stream"})
  /\ UNCHANGED <<sdlInput, sdlMaster, sdlPads, sdlCursors, sdlCaches>>

SoundSetVolume(i, v) ==
  /\ sdlSounds[i].used
  /\ sdlSounds' = [sdlSounds EXCEPT ![i].gain = v, ![i].set = v * sdlMaster]
  /\ UNCHANGED <<sdlInput, sdlMaster, sdlPads, sdlCursors, sdlCaches, sdlAlive>>
SetMasterVolume(v) ==
  /\ sdlMaster' = v
  /\ sdlSounds' = [i \in 1..SdlSlots |-> IF sdlSounds[i].used THEN [sdlSounds[i] EXCEPT !.set = sdlSounds[i].gain * v]
                                                              ELSE sdlSounds[i]]
  /\ UNCHANGED <<sdlInput, sdlPads, sdlCursors, sdlCaches, sdlAlive>>

PadOpen(kind) ==
  /\ \/ \E i \in 1..SdlPadSlots :
          /\ i \notin sdlPads[kind] /\ 1..(i - 1) \subseteq sdlPads[kind]
          /\ sdlPads' = [sdlPads EXCEPT ![kind] = @ \cup {i}]
          /\ SdlGive({kind})
     \/ UNCHANGED <<sdlPads, sdlAlive>>
  /\ UNCHANGED <<sdlInput, sdlSounds, sdlMaster, sdlCursors, sdlCaches>>
PadClose(kind, i) ==
  /\ i \in sdlPads[kind]
  /\ sdlPads' = [sdlPads EXCEPT ![kind] = @ \ {i}]
  /\ SdlTake({kind})
  /\ UNCHANGED <<sdlInput, sdlSounds, sdlMaster, sdlCursors, sdlCaches>>
JoystickOpen == PadOpen("joystick")
JoystickClose(i) == PadClose("joystick", i)
GamepadOpen == PadOpen("gamepad")
GamepadClose(i) == PadClose("gamepad", i)

SetSystemCursor(id) ==
  /\ \/ id \notin sdlCursors /\ sdlCursors' = sdlCursors \cup {id} /\ SdlGive({"cursor"})
     \/ UNCHANGED <<sdlCursors, sdlAlive>>
  /\ UNCHANGED <<sdlInput, sdlSounds, sdlMaster, sdlPads, sdlCaches>>

(* A call that returns a string or a list: the previous one is freed first.   *)
CacheReplace(c) ==
  /\ sdlCaches' \in {sdlCaches \cup {c}, sdlCaches \ {c}}
  /\ LET before == IF c \in sdlCaches THEN 1 ELSE 0
         after == IF c \in sdlCaches' THEN 1 ELSE 0
     IN  sdlAlive' = [sdlAlive EXCEPT ![c] = (@ - before) + after]
  /\ UNCHANGED <<sdlInput, sdlSounds, sdlMaster, sdlPads, sdlCursors>>
GetClipboardText == CacheReplace("clipboard")
CacheString == CacheReplace("path")
ListDirectory == CacheReplace("list")
LocaleCount == CacheReplace("locale")
GamepadMapping == CacheReplace("mapping")

(* Mutant of ReleasedPads: the joysticks are forgotten. *)
ReleasedPadsOfGamepads(alive) == [alive EXCEPT !["gamepad"] = @ - Cardinality(sdlPads["gamepad"])]
ReleasedPads(alive) ==
  [k \in SdlKinds |-> IF k \in SdlPadKinds THEN alive[k] - Cardinality(sdlPads[k]) ELSE alive[k]]

(* uxsdl3_quit: uxSdl3ReleaseResources, then SDL_Quit, which empties its queue. *)
Quit ==
  /\ sdlUp /\ sdlUp' = FALSE
  /\ LET sounds == Cardinality({i \in 1..SdlSlots : sdlSounds[i].used})
         freed(k) == CASE k \in {"stream", "buffer"} -> sounds
                       [] k = "cursor" -> Cardinality(sdlCursors)
                       [] k \in sdlCaches -> 1
                       [] OTHER -> 0
     IN  sdlAlive' = ReleasedPads([k \in SdlKinds |-> sdlAlive[k] - freed(k)])
  /\ sdlSounds' = [i \in 1..SdlSlots |-> [sdlSounds[i] EXCEPT !.used = FALSE]]
  /\ sdlPads' = [k \in SdlPadKinds |-> {}] /\ sdlCursors' = {} /\ sdlCaches' = {}
  /\ sdlKeys' = NoKeys
  /\ sdlFlags' = sdlFlags \ {"device", "tracked", "quit", "window event"}
  /\ sdlDrops' = 0 /\ sdlText' = [in |-> 0, pending |-> 0] /\ sdlMaster' = 1
  /\ sdlQueue' = <<>> /\ UNCHANGED sdlDown /\ sdlLost' = SdlCodes

(* uxsdl3_init *)
InitSdl == ~sdlUp /\ sdlUp' = TRUE /\ UNCHANGED <<sdlInput, sdlObjects>>

SdlInit ==
  /\ sdlUp = FALSE
  /\ sdlQueue = <<>> /\ sdlDown = {} /\ sdlLost = {} /\ sdlFlags = {} /\ sdlDrops = 0
  /\ sdlKeys = NoKeys
  /\ sdlText = [in |-> 0, pending |-> 0]
  /\ sdlSounds = [i \in 1..SdlSlots |-> NoSound] /\ sdlMaster = 1
  /\ sdlPads = [k \in SdlPadKinds |-> {}] /\ sdlCursors = {} /\ sdlCaches = {}
  /\ sdlAlive = [k \in SdlKinds |-> 0]

SdlInputNext ==
  /\ sdlUp /\ UNCHANGED sdlUp
  /\ \/ \E kind \in {"down", "up", "repeat"}, code \in SdlCodes : PushEvent(kind, code)
     \/ \E kind \in SdlEvents : PushEvent(kind, "none")
     \/ FlushEvents \/ PumpEvents \/ ClearQuit \/ \E f \in SdlReadFlags : TakeFlag(f)
     \/ TakeDrop \/ PushDrop \/ TakeTextInput \/ PushTextInput

SdlDevicesNext ==
  /\ sdlUp /\ UNCHANGED sdlUp
  /\ \/ SoundLoad \/ SoundCreateTone
     \/ \E v \in SdlVolumes : SetMasterVolume(v) \/ \E i \in 1..SdlSlots : SoundSetVolume(i, v)
     \/ \E i \in 1..SdlSlots : SoundUnload(i)
     \/ \E i \in 1..SdlPadSlots : JoystickClose(i) \/ GamepadClose(i)
     \/ JoystickOpen \/ GamepadOpen

SdlCachesNext ==
  /\ sdlUp /\ UNCHANGED sdlUp
  /\ \/ \E id \in SdlCursorIds : SetSystemCursor(id)
     \/ GetClipboardText \/ CacheString \/ ListDirectory \/ LocaleCount \/ GamepadMapping

SdlNext == InitSdl \/ Quit \/ SdlInputNext \/ SdlDevicesNext \/ SdlCachesNext

SdlSpec == SdlInit /\ [][SdlNext]_sdlVars

-----------------------------------------------------------------------------
(* Properties *)

(* "Releases everything the adapter opened": what SDL gave out is in one of   *)
(* the tables, through replaced caches, full tables and failed loads, and    *)
(* after uxsdl3_quit nothing is left; "the stream gain is gain * master" for *)
(* every sound, whichever of the two was set last.                           *)
SdlObjectsAccounted ==
  /\ LET sounds == {i \in 1..SdlSlots : sdlSounds[i].used}
         held(k) == CASE k \in {"stream", "buffer"} -> Cardinality(sounds)
                      [] k = "cursor" -> Cardinality(sdlCursors)
                      [] k \in SdlPadKinds -> Cardinality(sdlPads[k])
                      [] k \in SdlCacheIds -> IF k \in sdlCaches THEN 1 ELSE 0
     IN  /\ \A k \in SdlKinds : sdlAlive[k] = held(k)
         /\ \A i \in sounds : sdlSounds[i].set = sdlSounds[i].gain * sdlMaster

(* No press or release is missed or taken in the wrong order: once the events  *)
(* that wait are folded in, a code is held exactly if it is down, whatever     *)
(* else was in the queue; events that the program had flushed excepted.       *)
SdlInputFollowed ==
  \A code \in SdlCodes \ sdlLost :
     code \in Folded(sdlKeys, sdlQueue).held <=> code \in sdlDown

(* Both: nothing opened is lost and no event is missed.                       *)
SdlFaithful == SdlObjectsAccounted /\ SdlInputFollowed

=============================================================================
