--------------------------- MODULE ConfigEntries ---------------------------
(***************************************************************************)
(* The settings of common/config.cpp: which there are, which functions set  *)
(* them, which of them load, save and setDefaultValues handle, and how.     *)
(* Entries are of class ConfigEntry (a base value and a value of the game); *)
(* Plain values are simple variables.  load and save spell the section and  *)
(* the key of an entry alike, so that its name stands for its key.          *)
(***************************************************************************)
General == {"volumeSlider", "isNeo", "isDevKit", "extraDmemInMbytes", "isPSNSignedIn",
  "isTrophyPopupDisabled", "trophyNotificationDuration", "logFilter", "logType", "userName",
  "chooseHomeTab", "isShowSplash", "isSideTrophy", "isConnectedToNetwork"}
Input == {"cursorState", "cursorHideTimeout", "useSpecialPad", "specialPadClass",
  "isMotionControlsEnabled", "useUnifiedInputConfig", "defaultControllerID",
  "backgroundControllerInput"}
Audio == {"micDevice", "mainOutputDevice", "padSpkOutputDevice"}
GPU == {"windowWidth", "windowHeight", "internalScreenWidth", "internalScreenHeight",
  "isNullGpu", "shouldCopyGPUBuffers", "readbacksEnabled", "readbackLinearImagesEnabled",
  "directMemoryAccessEnabled", "shouldDumpShaders", "shouldPatchShaders", "vblankFrequency",
  "isFullscreen", "fullscreenMode", "presentMode", "isHDRAllowed", "fsrEnabled",
  "rcasEnabled", "rcasAttenuation"}
Vulkan == {"gpuId", "vkValidation", "vkValidationCore", "vkValidationSync",
  "vkValidationGpu", "vkCrashDiagnostic", "vkHostMarkers", "vkGuestMarkers", "rdocEnable"}
DebugAndRest == {"isDebugDump", "isShaderDebug", "isSeparateLogFilesEnabled", "isFpsColor",
  "logEnabled", "separateupdatefolder", "m_language"}
Entries == General \cup Input \cup Audio \cup GPU \cup Vulkan \cup DebugAndRest

GeneralPlain == {"enableDiscordRPC", "checkCompatibilityOnStartup", "compatibilityData",
  "sys_modules_path"}
GuiPlain == {"load_game_size", "settings_addon_install_dir", "save_data_path", "m_pkg_viewer"}
Plain == GeneralPlain \cup GuiPlain \cup {"trophyKey"}

\* The entries of class ConfigEntry<int>, <u32>, <s32> and <double>.
Numbers == {"volumeSlider", "extraDmemInMbytes", "trophyNotificationDuration", "cursorState",
  "cursorHideTimeout", "specialPadClass", "windowWidth", "windowHeight",
  "internalScreenWidth", "internalScreenHeight", "vblankFrequency", "rcasAttenuation",
  "gpuId", "m_language"}

-----------------------------------------------------------------------------
\* The setters in the order of the file: byMode gives the value to the game or
\* to the base, byBase to the base (or to the plain variable) whoever asks.
SettersToRpc == [
  byMode |-> {"volumeSlider"},
  byBase |-> {"sys_modules_path", "useUnifiedInputConfig", "trophyKey", "load_game_size"},
  zero   |-> {"extraDmemInMbytes"}]  \* setExtraDmemInMbytes ignores its argument
SettersToRcp == [
  byMode |-> {"vkCrashDiagnostic", "vkHostMarkers", "vkGuestMarkers", "isConnectedToNetwork",
    "gpuId", "windowWidth", "windowHeight", "isDebugDump", "logEnabled", "isShaderDebug",
    "isShowSplash", "isSideTrophy", "isNullGpu", "isHDRAllowed", "shouldCopyGPUBuffers",
    "readbacksEnabled", "readbackLinearImagesEnabled", "directMemoryAccessEnabled",
    "shouldDumpShaders", "vkValidation", "vkValidationSync", "rdocEnable",
    "vblankFrequency", "isFullscreen", "fullscreenMode", "presentMode"},
  byBase |-> {"internalScreenWidth", "internalScreenHeight"}]
SettersToDirs == [
  byMode |-> {"isTrophyPopupDisabled", "cursorState", "cursorHideTimeout", "micDevice",
    "mainOutputDevice", "padSpkOutputDevice", "trophyNotificationDuration", "m_language",
    "isNeo", "isDevKit", "logType", "logFilter", "isSeparateLogFilesEnabled", "userName",
    "chooseHomeTab", "isMotionControlsEnabled"},
  byBase |-> {"enableDiscordRPC", "useSpecialPad", "specialPadClass", "separateupdatefolder",
    "compatibilityData", "checkCompatibilityOnStartup"}]
SettersOfPaths == {"settings_addon_install_dir", "m_pkg_viewer", "save_data_path"}
SettersToEnd == [
  byMode |-> {"isPSNSignedIn", "backgroundControllerInput", "fsrEnabled", "rcasEnabled",
    "rcasAttenuation"},
  byBase |-> {"defaultControllerID"}]
ByMode == SettersToRpc.byMode \cup SettersToRcp.byMode \cup SettersToDirs.byMode
            \cup SettersToEnd.byMode
ByBase == SettersToRpc.byBase \cup SettersToRcp.byBase \cup SettersToDirs.byBase
            \cup SettersOfPaths \cup SettersToEnd.byBase

-----------------------------------------------------------------------------
\* What save writes for a game and for all, and what it adds for all only.
SavedByMode == Entries \ {"defaultControllerID", "useSpecialPad", "specialPadClass",
  "useUnifiedInputConfig", "internalScreenWidth", "internalScreenHeight",
  "shouldPatchShaders", "vkValidationCore", "vkValidationGpu", "isFpsColor"}
SavedByBase == (Entries \ SavedByMode) \cup (Plain \ {"m_pkg_viewer"})

\* Mutation: the files of games hold the values of all as well.
SavedAlways(gs) == SavedByMode \cup SavedByBase

\* Mutation: the key of trophies is forgotten.
SavedLess(gs) == IF gs THEN SavedByMode ELSE SavedByMode \cup (SavedByBase \ {"trophyKey"})

Saved(gs) == IF gs THEN SavedByMode
                   ELSE (SavedByMode \ {"extraDmemInMbytes"}) \cup SavedByBase
\* Of the entries, load leaves one to the files of the games.
Loaded(gs) == IF gs THEN Entries ELSE Entries \ {"extraDmemInMbytes"}

\* What setDefaultValues resets: the games' only, either's, and the base.
GameDefaults == {"readbacksEnabled", "readbackLinearImagesEnabled", "isNeo", "isDevKit",
  "isPSNSignedIn", "isConnectedToNetwork", "directMemoryAccessEnabled", "extraDmemInMbytes"}
BaseDefaults == {"enableDiscordRPC", "compatibilityData", "checkCompatibilityOnStartup",
  "useSpecialPad", "specialPadClass", "useUnifiedInputConfig", "mainOutputDevice",
  "padSpkOutputDevice", "shouldPatchShaders", "internalScreenWidth",
  "internalScreenHeight", "load_game_size", "isFpsColor"}
ModeDefaults == Entries \ (GameDefaults \cup BaseDefaults
                  \cup {"defaultControllerID", "separateupdatefolder"})
=============================================================================
