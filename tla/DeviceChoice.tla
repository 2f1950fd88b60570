---------------------------- MODULE DeviceChoice ----------------------------
(***************************************************************************)
(* src/core/private/render/vk/instance-vk.cpp and device-vk.cpp: how the   *)
(* instance is created, and how the constructor of Device chooses one of   *)
(* the enumerated physical devices, what it records about it and what it   *)
(* asks of it.                                                             *)
(*                                                                         *)
(* A physical device is what the queries answer: its extensions, its       *)
(* features, its type, whether all its memory is device local, its queue   *)
(* families, and the formats of which linear and optimal tiling have any   *)
(* of the wanted features.  The first failed VK_CHECK or AVK_EXT_CHECK     *)
(* ends the process.                                                       *)
(***************************************************************************)
EXTENDS Integers, Sequences

CONSTANTS Extensions,          \* names of extensions, of instance and device
          Features,            \* names of features
          InstanceExtensions,  \* what the constructor of Instance insists on
          RequiredExtensions,  \* fillRequiredExtensions, on one platform
          RequiredFeatures,    \* what anyRequiredFeaturesMissing looks for
          Portability,         \* enabled without looking, for Metal
          Debug,               \* AVK_DEBUG
          Mobile,              \* every integrated device is a SoC
          MaxDevices           \* bound: physical devices enumerated

VARIABLES pc,
          instance,         \* [enabled, callback] of the Vulkan instance
          physicalDevices,  \* what Vulkan enumerates, in that order
          next,             \* the device the loop is at
          chosen,           \* 0: VK_NULL_HANDLE
          optFeatures,      \* OptionalFeatures without isSoC
          isSoC,
          comprFormats,     \* SampledImageCompressedFormats
          enabled,          \* Extensions::enabled
          queueFamily,      \* QueueFamilyMap::universalGraphics, from 1
          device            \* m_device, what it was created with

vars == <<pc, instance, physicalDevices, next, chosen, optFeatures, isSoC, comprFormats,
          enabled, queueFamily, device>>

PCs == {"instance", "enumerate", "examine", "formats", "extensions", "maintenance",
        "budget", "queue", "create", "created", "deviceGone", "destroyed", "exited"}

DeviceTypes == {"discrete", "integrated", "virtual", "cpu", "other"}
Formats == {"ASTC_UNORM", "ASTC_SRGB", "BC7_UNORM", "BC7_SRGB", "EAC_R11", "ETC2_RGB", "ETC2_SRGB"}
Uncompressed == "R8_UNORM"   \* the defaults, R8, R8G8B8 and R8G8B8A8
Operations == {"graphics", "compute", "transfer"}

QueueFamilies == [present : BOOLEAN, operations : SUBSET Operations]

PhysicalDevices ==
  [extensions : SUBSET Extensions, features : SUBSET Features, type : DeviceTypes,
   deviceLocal : BOOLEAN, sampled : SUBSET Formats, families : Seq(QueueFamilies)]

Enumerations == UNION {[1 .. n -> PhysicalDevices] : n \in 0 .. MaxDevices}

Maintenance1 == "swapchainMaintenance1"
MemoryBudget == "memoryBudget"
DebugReport == "debugReport"
AddressFeature == "bufferDeviceAddress"
TextureFeatures == {"textureCompressionASTC_LDR", "textureCompressionBC", "textureCompressionETC2"}
OptionalFeatures == TextureFeatures \cup {Maintenance1}

NoDevice == 0
Chosen == physicalDevices[chosen]

-----------------------------------------------------------------------------
(* setOptionalFeaturesForDevice *)
OptionalOf(dev) == dev.features \cap OptionalFeatures

\* isSoC; a heap of several instances counts as not device local
SoC(dev) == dev.type = "integrated" /\ (Mobile \/ dev.deviceLocal)

\* the score, 0 for the types that are skipped
Score(dev) ==
  CASE dev.type = "discrete" -> 400
    [] dev.type = "integrated" -> 300
    [] dev.type = "virtual" -> 200
    [] OTHER -> 0

\* nothing ever raises it
maxScoreSoFar == 0

\* The loop over the required extensions ends in a "continue" of its own:
\* a device without them is not skipped.
Eligible(dev) == RequiredFeatures \subseteq dev.features /\ Score(dev) > maxScoreSoFar

\* setCompressedFormats, in order of priority
Proposed(opt) ==
  CASE "textureCompressionASTC_LDR" \in opt -> <<"ASTC_UNORM", "ASTC_SRGB">>
    [] "textureCompressionASTC_LDR" \notin opt /\ "textureCompressionBC" \in opt ->
         <<"BC7_UNORM", "BC7_SRGB">>
    [] OTHER -> <<"EAC_R11", "ETC2_SRGB">>

CompressedFormats(dev, opt) ==
  LET linear == Proposed(opt)[1]
      sRGB == Proposed(opt)[2]
      linearRGB == IF linear = "EAC_R11" THEN "ETC2_RGB" ELSE linear
      any == opt \cap TextureFeatures # {}
      linearR == any /\ linear \in dev.sampled
  IN  [linear_R |-> IF linearR THEN linear ELSE Uncompressed,
       linear_RGB |-> IF linearR /\ linearRGB \in dev.sampled THEN linearRGB ELSE Uncompressed,
       \* whichever sRGB format was asked about
       sRGB_RGBA |-> IF any /\ sRGB \in dev.sampled THEN "BC7_SRGB" ELSE Uncompressed]

\* newDeviceQueuesCreateInfos: any of the three operations will do
Universal(family) == family.present /\ family.operations # {}

\* the features createDevice asks for; bufferDeviceAddress unconditionally,
\* although anyRequiredFeaturesMissing does not look for it any more
WantedFeatures == RequiredFeatures \cup {AddressFeature} \cup (optFeatures \cap OptionalFeatures)

-----------------------------------------------------------------------------
Init ==
  /\ pc = "instance"
  /\ instance = [enabled |-> {}, callback |-> FALSE]
  /\ physicalDevices \in Enumerations
  /\ next = 1 /\ chosen = NoDevice
  /\ optFeatures = {} /\ isSoC = FALSE
  /\ comprFormats = [f \in {"linear_R", "linear_RGB", "sRGB_RGBA"} |-> Uncompressed]
  /\ enabled = {}
  /\ queueFamily = 0
  /\ device = [extensions |-> {}, features |-> {}]

At(label) == pc = label
Goto(label) == pc' = label

Given == UNCHANGED <<instance, physicalDevices>>
Unchosen == UNCHANGED <<next, chosen, optFeatures, isSoC>>
Unmade == UNCHANGED <<comprFormats, enabled, queueFamily, device>>

\* Instance::Instance: the version, an AVK_EXT_CHECK for each extension, and
\* vkCreateInstance, which may fail besides; in a debug build a callback, if
\* the function that registers one is found
CreateInstance ==
  /\ At("instance")
  /\ \/ /\ \E supported \in SUBSET Extensions, found \in BOOLEAN :
             LET report == {DebugReport} \cap (IF Debug THEN supported ELSE {})
             IN  /\ InstanceExtensions \subseteq supported
                 /\ instance' = [enabled |-> InstanceExtensions \cup Portability \cup report,
                                 callback |-> found /\ report # {}]
        /\ Goto("enumerate")
     \/ Goto("exited") /\ UNCHANGED instance
  /\ Unchosen /\ Unmade /\ UNCHANGED physicalDevices

\* AVK_EXT_CHECK(physicalDeviceCount)
Enumerate ==
  /\ At("enumerate")
  /\ Goto(IF physicalDevices = <<>> THEN "exited" ELSE "examine")
  /\ Unchosen /\ Unmade /\ Given

\* the loop of choosePhysicalDevice: a device is skipped ...
Skip ==
  /\ At("examine") /\ next <= Len(physicalDevices)
  /\ ~Eligible(physicalDevices[next])
  /\ next' = next + 1
  /\ UNCHANGED <<pc, chosen, optFeatures, isSoC>> /\ Unmade /\ Given

\* ... or takes the place of the one before
Choose ==
  /\ At("examine") /\ next <= Len(physicalDevices)
  /\ LET dev == physicalDevices[next] IN
       /\ Eligible(dev)
       /\ optFeatures' = OptionalOf(dev) \cup (optFeatures \cap {MemoryBudget})
       /\ isSoC' = SoC(dev)
  /\ chosen' = next
  /\ next' = next + 1
  /\ UNCHANGED pc /\ Unmade /\ Given

\* AVK_EXT_CHECK(chosen != VK_NULL_HANDLE)
EndLoop ==
  /\ At("examine") /\ next > Len(physicalDevices)
  /\ Goto(IF chosen = NoDevice THEN "exited" ELSE "formats")
  /\ Unchosen /\ Unmade /\ Given

SetFormats ==
  /\ At("formats")
  /\ comprFormats' = CompressedFormats(Chosen, optFeatures)
  /\ Goto("extensions")
  /\ Given /\ Unchosen /\ UNCHANGED <<enabled, queueFamily, device>>

\* a required extension that is missing is noticed here, and is the end
EnableRequired ==
  /\ At("extensions")
  /\ \/ /\ RequiredExtensions \subseteq Chosen.extensions
        /\ enabled' = enabled \cup RequiredExtensions
        /\ Goto("maintenance")
     \/ /\ ~(RequiredExtensions \subseteq Chosen.extensions)
        /\ enabled' = enabled \cup (RequiredExtensions \cap Chosen.extensions)
        /\ Goto("exited")
  /\ Given /\ Unchosen /\ UNCHANGED <<comprFormats, queueFamily, device>>

\* the feature without the extension is the end as well
EnableMaintenance ==
  /\ At("maintenance")
  /\ \/ /\ Maintenance1 \in optFeatures /\ Maintenance1 \in Chosen.extensions
        /\ enabled' = enabled \cup {Maintenance1}
        /\ Goto("budget")
     \/ /\ Maintenance1 \in optFeatures /\ Maintenance1 \notin Chosen.extensions
        /\ Goto("exited")
        /\ UNCHANGED enabled
     \/ /\ Maintenance1 \notin optFeatures
        /\ Goto("budget")
        /\ UNCHANGED enabled
  /\ Given /\ Unchosen /\ UNCHANGED <<comprFormats, queueFamily, device>>

EnableBudget ==
  /\ At("budget")
  /\ \/ /\ MemoryBudget \in Chosen.extensions
        /\ enabled' = enabled \cup {MemoryBudget}
        /\ optFeatures' = optFeatures \cup {MemoryBudget}
     \/ /\ MemoryBudget \notin Chosen.extensions
        /\ UNCHANGED <<enabled, optFeatures>>
  /\ Goto("queue")
  /\ Given /\ UNCHANGED <<next, chosen, isSoC, comprFormats, queueFamily, device>>

\* the first family that will do, or AVK_EXT_CHECK
ChooseQueue ==
  /\ At("queue")
  /\ \/ \E f \in 1 .. Len(Chosen.families) :
          /\ Universal(Chosen.families[f])
          /\ \A g \in 1 .. f - 1 : ~Universal(Chosen.families[g])
          /\ queueFamily' = f
          /\ Goto("create")
     \/ /\ \A f \in 1 .. Len(Chosen.families) : ~Universal(Chosen.families[f])
        /\ Goto("exited")
        /\ UNCHANGED queueFamily
  /\ Given /\ Unchosen /\ UNCHANGED <<comprFormats, enabled, device>>

\* vkCreateDevice refuses what the device cannot do, and may fail besides
CreateDevice ==
  /\ At("create")
  /\ \/ /\ WantedFeatures \subseteq Chosen.features
        /\ enabled \subseteq Chosen.extensions
        /\ device' = [extensions |-> enabled, features |-> WantedFeatures]
        /\ Goto("created")
     \/ /\ Goto("exited")
        /\ UNCHANGED device
  /\ Given /\ Unchosen /\ UNCHANGED <<comprFormats, enabled, queueFamily>>

\* Device::~Device; the members keep their values
Destroy ==
  /\ At("created")
  /\ Goto("deviceGone")
  /\ Unchosen /\ Unmade /\ Given

\* Instance::~Instance
DestroyInstance ==
  /\ At("deviceGone")
  /\ instance' = [instance EXCEPT !.callback = FALSE]
  /\ Goto("destroyed")
  /\ Unchosen /\ Unmade /\ UNCHANGED physicalDevices

Next ==
  \/ CreateInstance \/ Enumerate \/ Skip \/ Choose \/ EndLoop \/ SetFormats
  \/ EnableRequired \/ EnableMaintenance \/ EnableBudget \/ ChooseQueue
  \/ CreateDevice \/ Destroy \/ DestroyInstance

Spec == Init /\ [][Next]_vars

-----------------------------------------------------------------------------
(* Properties; CommandPools_proofs proves them *)

(* Every variable keeps its type. *)
TypeOK ==
  /\ pc \in PCs
  /\ physicalDevices \in Enumerations
  /\ next \in 1 .. Len(physicalDevices) + 1
  /\ chosen \in 0 .. Len(physicalDevices)
  /\ optFeatures \subseteq OptionalFeatures \cup {MemoryBudget}
  /\ isSoC \in BOOLEAN
  /\ queueFamily \in Nat

(* What is recorded belongs to the chosen device, also where the loop had  *)
(* chosen another one first: whether it is a SoC decides where buffers are *)
(* put, its optional features what is asked of it and the texture formats. *)
RecordsChosen ==
  chosen # NoDevice =>
    /\ isSoC <=> SoC(Chosen)
    /\ optFeatures \cap OptionalFeatures = OptionalOf(Chosen)
    /\ MemoryBudget \in optFeatures => MemoryBudget \in enabled

(* The baseline of device-vk.h holds of a device that was created: all     *)
(* required features and extensions, enabled and supported, those of the   *)
(* instance too, on a GPU, with a queue that presents; the extension that  *)
(* an optional feature belongs to is enabled with it.                      *)
Baseline ==
  pc = "created" =>
    /\ InstanceExtensions \subseteq instance.enabled
    /\ RequiredFeatures \subseteq device.features
    /\ device.features \subseteq Chosen.features
    /\ RequiredExtensions \subseteq device.extensions
    /\ device.extensions \subseteq Chosen.extensions
    /\ Maintenance1 \in device.features => Maintenance1 \in device.extensions
    /\ Chosen.type \in {"discrete", "integrated", "virtual"}
    /\ Chosen.families[queueFamily].present

(* The scores are compared with a maximum nobody raises: of the devices    *)
(* with the required features the last one enumerated is chosen, a virtual *)
(* GPU behind a discrete one and a device without the extensions behind    *)
(* one that has them.                                                      *)
LastEligible ==
  pc \in {"formats", "extensions", "maintenance", "budget", "queue", "create", "created"} =>
    /\ chosen # NoDevice /\ Eligible(Chosen)
    /\ \A i \in chosen + 1 .. Len(physicalDevices) : ~Eligible(physicalDevices[i])

(* The linear formats are uncompressed or such that the chosen device can  *)
(* sample them or transfer them.  The sRGB format is not.                  *)
LinearUsable ==
  pc = "created" =>
    {comprFormats.linear_R, comprFormats.linear_RGB} \subseteq Chosen.sampled \cup {Uncompressed}
=============================================================================
