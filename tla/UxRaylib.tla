------------------------------- MODULE UxRaylib -------------------------------
(***************************************************************************)
(* The handles of the Raylib adapter (src/runtime_ext/uxraylib/             *)
(* uxraylib_adapter.c): tables of textures, fonts and render textures, which *)
(* live in the window, of sounds and music, which live in the audio device,   *)
(* and of images, which live in memory.  Place 0 of a table is never used,    *)
(* so that 0 is no handle.  One thread calls.  Raylib is external: it may     *)
(* fail to load, what a device holds is gone when the device is closed, and   *)
(* it gives the names of gone objects again.  What is drawn is left out.      *)
(***************************************************************************)
EXTENDS Integers, FiniteSets, FiniteSetsExt

CONSTANTS
  RlLimit,    \* UX_MAX_TEXTURES and the others, by kind: 64 to 1024 in the code
  RlCloses    \* bound: how often a device is closed

InWindow == {"texture", "font", "render texture"}
InAudio == {"sound", "music"}
RlKinds == InWindow \cup InAudio

ASSUME RlAssumption ==
  RlLimit \in [RlKinds \cup {"image"} -> Nat \ {0}] /\ RlCloses \in Nat

VARIABLES
  rlTables,     \* uxTextures, uxTextureUsed and the others: the name in each used place
  rlDevices,    \* external: the devices that are open
  rlObjects,    \* external: the names in use, by kind, images in memory too
  rlMissed,     \* for the property: the kinds of which a use reached nothing
  rlLeft,       \* for the property: the kinds with a handle when their device was closed
  rlCloses      \* the closes counted by the bound

rlVars == <<rlTables, rlDevices, rlObjects, rlMissed, rlLeft, rlCloses>>

-----------------------------------------------------------------------------
DeviceOf(kind) == IF kind \in InWindow THEN "window" ELSE "audio"
Places(kind) == 1..(RlLimit[kind] - 1)
UsedPlaces(kind) == {h \in Places(kind) : rlTables[kind][h] # 0}
Handle(kind, h) == h \in UsedPlaces(kind)   \* 0 < handle < limit, and used
Unstored(kind) == Places(kind) \ UsedPlaces(kind)

NewName(names) == CHOOSE n \in 1..(Cardinality(names) + 1) : n \notin names /\ \A m \in 1..(n - 1) : m \in names

(* The object that was loaded takes the first free place, or is unloaded. *)
Stores(kind, handle) ==
  LET name == NewName(rlObjects[kind])
  IN  IF Unstored(kind) = {}
      THEN handle = 0 /\ UNCHANGED <<rlTables, rlObjects>>
      ELSE /\ handle = Min(Unstored(kind))
           /\ rlTables' = [rlTables EXCEPT ![kind][handle] = name]
           /\ rlObjects' = [rlObjects EXCEPT ![kind] = @ \cup {name}]

(* Mutant of StoreObject: with a full table, what was loaded stays. *)
StoreObjectLoses(kind) ==
  /\ \E h \in 0..(RlLimit[kind] - 1) :
       IF Unstored(kind) = {}
       THEN /\ h = 0 /\ UNCHANGED rlTables
            /\ rlObjects' = [rlObjects EXCEPT ![kind] = @ \cup {NewName(@)}]
       ELSE Stores(kind, h)
  /\ UNCHANGED <<rlDevices, rlMissed, rlLeft, rlCloses>>

StoreObject(kind) ==
  /\ \E h \in 0..(RlLimit[kind] - 1) : Stores(kind, h)
  /\ UNCHANGED <<rlDevices, rlMissed, rlLeft, rlCloses>>

(* Raylib forgets the name, which may be another object's by now. *)
Unload(kind, h) ==
  /\ Handle(kind, h)
  /\ rlObjects' = [rlObjects EXCEPT ![kind] = @ \ {rlTables[kind][h]}]
  /\ rlTables' = [rlTables EXCEPT ![kind][h] = 0]
  /\ UNCHANGED <<rlDevices, rlMissed, rlLeft, rlCloses>>

(* Drawing, playing, asking, and configuring through a handle. *)
Use(kind, h) ==
  /\ Handle(kind, h)
  /\ rlMissed' = IF rlTables[kind][h] \in rlObjects[kind] THEN rlMissed ELSE rlMissed \cup {kind}
  /\ UNCHANGED <<rlTables, rlDevices, rlObjects, rlLeft, rlCloses>>

-----------------------------------------------------------------------------
Load(kind) == DeviceOf(kind) \in rlDevices /\ StoreObject(kind)

TextureLoad == Load("texture")
TextureUse(h) == Use("texture", h)
TextureSetting(h) == Use("texture", h)
TextureUnload(h) == "window" \in rlDevices /\ Unload("texture", h)
FontLoad == Load("font")
FontDraw(h) == Use("font", h)
FontUnload(h) == "window" \in rlDevices /\ Unload("font", h)
RenderTextureLoad == Load("render texture")
RenderTextureUse(h) == Use("render texture", h)
RenderTextureUnload(h) == "window" \in rlDevices /\ Unload("render texture", h)
RlSoundLoad == Load("sound")
RlSoundUse(h) == Use("sound", h)
RlSoundUnload(h) == "audio" \in rlDevices /\ Unload("sound", h)
RlMusicLoad == Load("music")
RlMusicUse(h) == Use("music", h)
RlMusicUnload(h) == "audio" \in rlDevices /\ Unload("music", h)

(* Images need no device.  What changes the size or the format of an image    *)
(* puts it elsewhere in memory: the new one is there before the old is freed. *)
ImageMake == StoreObject("image")
ImageCopy(h) == Handle("image", h) /\ StoreObject("image")
ImageUse(h) == Use("image", h)
ImageUnload(h) == Unload("image", h)
ImageRemake(h) ==
  /\ Handle("image", h)
  /\ LET old == rlTables["image"][h]
         name == NewName(rlObjects["image"])
     IN  /\ rlTables' = [rlTables EXCEPT !["image"][h] = name]
         /\ rlObjects' = [rlObjects EXCEPT !["image"] = (@ \ {old}) \cup {name}]
  /\ UNCHANGED <<rlDevices, rlMissed, rlLeft, rlCloses>>

(* The tables are not looked at when a device is opened or closed. *)
OpenDevice(device) ==
  /\ device \notin rlDevices
  /\ rlDevices' = rlDevices \cup {device}
  /\ UNCHANGED <<rlTables, rlObjects, rlMissed, rlLeft, rlCloses>>
InitWindow == OpenDevice("window")
InitAudio == OpenDevice("audio")

CloseDevice(device) ==
  /\ device \in rlDevices /\ rlCloses < RlCloses
  /\ rlDevices' = rlDevices \ {device}
  /\ rlObjects' = [kind \in DOMAIN rlObjects |->
       IF kind \in RlKinds /\ DeviceOf(kind) = device THEN {} ELSE rlObjects[kind]]
  /\ rlLeft' = rlLeft \cup {kind \in RlKinds : DeviceOf(kind) = device /\ UsedPlaces(kind) # {}}
  /\ rlCloses' = rlCloses + 1
  /\ UNCHANGED <<rlTables, rlMissed>>
CloseWindow == CloseDevice("window")
CloseAudio == CloseDevice("audio")

RlInit ==
  /\ rlTables = [kind \in RlKinds \cup {"image"} |-> [h \in Places(kind) |-> 0]]
  /\ rlObjects = [kind \in RlKinds \cup {"image"} |-> {}]
  /\ rlDevices = {} /\ rlMissed = {} /\ rlLeft = {} /\ rlCloses = 0

RlNext ==
  \/ InitWindow \/ InitAudio \/ CloseWindow \/ CloseAudio
  \/ TextureLoad \/ FontLoad \/ RenderTextureLoad \/ RlSoundLoad \/ RlMusicLoad \/ ImageMake
  \/ \E h \in 1..Max({RlLimit[kind] : kind \in DOMAIN RlLimit}) :
       \/ TextureUse(h) \/ TextureSetting(h) \/ TextureUnload(h)
       \/ FontDraw(h) \/ FontUnload(h)
       \/ RenderTextureUse(h) \/ RenderTextureUnload(h)
       \/ RlSoundUse(h) \/ RlSoundUnload(h) \/ RlMusicUse(h) \/ RlMusicUnload(h)
       \/ ImageCopy(h) \/ ImageUse(h) \/ ImageRemake(h) \/ ImageUnload(h)

RlSpec == RlInit /\ [][RlNext]_rlVars

-----------------------------------------------------------------------------
(* Properties *)

(* Of the kinds of which no handle was left when their device was closed: the  *)
(* devices and the memory hold exactly what the tables name, each object      *)
(* under one handle, also when a table was full or an image was put           *)
(* elsewhere, and no use of a handle reaches what is not there.              *)
RaylibObjectsOwned ==
  \A kind \in (RlKinds \cup {"image"}) \ rlLeft :
    /\ {rlTables[kind][h] : h \in UsedPlaces(kind)} = rlObjects[kind]
    /\ Cardinality(UsedPlaces(kind)) = Cardinality(rlObjects[kind])
    /\ kind \notin rlMissed

=============================================================================
