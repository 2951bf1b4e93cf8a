----------------------------- MODULE MCBridges -----------------------------
(***************************************************************************)
(* The wrappers around foreign run times, one at a time: they share no      *)
(* state, so a behaviour exercises the one that focus names.               *)
(***************************************************************************)
EXTENDS UxJs, UxPython, UxWasm, UxFfi, UxGsl, UxSdl3, UxCapi, Frameworks

VARIABLE focus

(* Room for two textures and for one object of each other kind. *)
RaylibLimit == [kind \in RlKinds \cup {"image"} |-> IF kind = "texture" THEN 3 ELSE 2]

(* Each slot for contexts is taken twice. *)
JsGenerations == [kind \in {"rt", "ctx", "res"} |-> IF kind = "ctx" THEN 3 ELSE 1]

(* A Lua library that is whole and one that lacks an entry point. *)
LuaEntries == [library \in LgLibraries |-> IF library = "whole" THEN LgSymbols ELSE LgSymbols - 1]

bridgeVars == <<focus, jsVars, pyVars, wmVars, ffVars, gslVars, sdlVars, capiVars, frameworkVars>>

Init ==
  /\ focus \in {"js", "python", "wasm", "ffi", "gsl", "sdl input", "sdl devices", "sdl caches",
                "capi types", "capi callback", "frames", "inference",
                "raylib", "lua", "prolog", "database", "regex", "json"}
  /\ JsInit /\ PyInit /\ WmInit /\ FfInit /\ GslInit /\ SdlInit /\ CapiInit
  /\ FrameworksInit

InFocus(which) == focus = which /\ UNCHANGED focus

Next ==
  \/ /\ \/ InFocus("js") /\ JsNext /\ UNCHANGED <<pyVars, wmVars, ffVars, gslVars, sdlVars, capiVars>>
        \/ InFocus("python") /\ PyNext /\ UNCHANGED <<jsVars, wmVars, ffVars, gslVars, sdlVars, capiVars>>
        \/ InFocus("wasm") /\ WmNext /\ UNCHANGED <<jsVars, pyVars, ffVars, gslVars, sdlVars, capiVars>>
        \/ InFocus("ffi") /\ FfNext /\ UNCHANGED <<jsVars, pyVars, wmVars, gslVars, sdlVars, capiVars>>
        \/ InFocus("gsl") /\ GslNext /\ UNCHANGED <<jsVars, pyVars, wmVars, ffVars, sdlVars, capiVars>>
        \/ /\ \/ InFocus("sdl input") /\ (InitSdl \/ Quit \/ SdlInputNext)
              \/ InFocus("sdl devices") /\ (InitSdl \/ Quit \/ SdlDevicesNext)
              \/ InFocus("sdl caches") /\ (InitSdl \/ Quit \/ SdlCachesNext)
           /\ UNCHANGED <<jsVars, pyVars, wmVars, ffVars, gslVars, capiVars>>
        \/ /\ \/ InFocus("capi types") /\ CapiTypesNext
              \/ InFocus("capi callback") /\ CapiCallbackNext
           /\ UNCHANGED <<jsVars, pyVars, wmVars, ffVars, gslVars, sdlVars>>
     /\ UNCHANGED frameworkVars
  \/ /\ \/ InFocus("frames") /\ DdNext /\ UNCHANGED <<oxVars, rlVars, lgVars, csVars>>
        \/ InFocus("inference") /\ OxNext /\ UNCHANGED <<ddVars, rlVars, lgVars, csVars>>
        \/ InFocus("raylib") /\ RlNext /\ UNCHANGED <<ddVars, oxVars, lgVars, csVars>>
        \/ /\ \/ InFocus("lua") /\ LuaNext
              \/ InFocus("prolog") /\ PrologNext
           /\ UNCHANGED <<ddVars, oxVars, rlVars, csVars>>
        \/ /\ \/ InFocus("database") /\ SqliteNext
              \/ InFocus("regex") /\ RegexNext
              \/ InFocus("json") /\ JsonNext
           /\ UNCHANGED <<ddVars, oxVars, rlVars, lgVars>>
     /\ UNCHANGED <<jsVars, pyVars, wmVars, ffVars, gslVars, sdlVars, capiVars>>

Spec == Init /\ [][Next]_bridgeVars

=============================================================================
