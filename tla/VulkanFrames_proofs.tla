------------------------- MODULE VulkanFrames_proofs -------------------------
(***************************************************************************)
(* Theorems about VulkanFrames, for any number of frames in flight and any *)
(* finite set of images: types, the account of the objects, the exclusive  *)
(* use of a frame and of the signals between the GPU and the presentation  *)
(* engine.                                                                 *)
(***************************************************************************)
EXTENDS VulkanFrames, SequenceTheorems, FiniteSetTheorems, TLAPS

USE FramesAssumption, InitsAssumption, SwapchainsAssumption

(* The image of a frame that is being recorded, submitted or presented. *)
ImageHeld == pc \in {"record", "submit", "present"} => image \in Images

\* The objects that exist when a stage begins, if none is missing.
Made ==
  [s \in Stages |->
     CASE s = "instance" -> {}
       [] s = "surface" -> {"instance"}
       [] s \in {"gpu", "device"} -> {"instance", "surface"}
       [] s = "swapchain" -> {"instance", "surface", "device"}
       [] s = "render_pass" -> {"instance", "surface", "device", "swapchain", "views"}
       [] s = "layout" -> {"instance", "surface", "device", "swapchain", "views", "render_pass"}
       [] s = "pipeline" -> {"instance", "surface", "device", "swapchain", "views", "render_pass",
                             "shaders", "layout"}
       [] s = "framebuffers" -> {"instance", "surface", "device", "swapchain", "views",
                                 "render_pass", "layout", "pipeline"}
       [] s = "buffer" -> {"instance", "surface", "device", "swapchain", "views",
                           "render_pass", "layout", "pipeline", "framebuffers"}
       [] s = "memory" -> Objects \ {"shaders", "memory", "pool", "sync"}
       [] s = "pool" -> Objects \ {"shaders", "pool", "sync"}
       [] OTHER -> Objects \ {"shaders", "sync"}]

Unchecked == {"views", "shaders", "framebuffers"}

Late == {"framebuffers", "buffer", "memory", "pool", "commands", "sync"}

(* A stage finds what the earlier ones made, and in a first init nothing   *)
(* else; the shader modules of a failed init are gone once the pipeline is *)
(* compiled.                                                               *)
StageInv ==
  /\ pc \in Stages => /\ ~is_initialized /\ ~failed /\ inits >= 1
                      /\ Made[pc] \ Unchecked \subseteq live
                      /\ inits = 1 => live \subseteq Made[pc]
  /\ pc \in Late => "shaders" \notin live
  /\ pc \notin Stages \cup {"idle"} => is_initialized
  /\ is_initialized => /\ Objects \ Unchecked \subseteq live /\ "shaders" \notin live
                       /\ ~failed /\ inits >= 1
  /\ inits = 0 => live = {} /\ pc = "idle"
  /\ inits <= 1 => ~leaked
  /\ (pc = "idle" /\ ~is_initialized /\ ~failed) => live = {}

(* The GPU holds a frame whose fence is not signalled and whose image is   *)
(* promised; a promised image without a submission belongs to the frame in *)
(* hand or to one that was given up.                                       *)
FrameInv ==
  /\ \A f \in submitted : ~fence[f] /\ available[f]
  /\ \A f \in Frames : available[f] /\ fence[f] => pc = "record" /\ f = current_frame
  /\ pc \in {"acquire", "record"} => fence[current_frame]
  /\ pc = "record" => available[current_frame]
  /\ pc = "submit" => /\ ~fence[current_frame] /\ available[current_frame]
                      /\ current_frame \notin submitted

IndInv == TypeOK /\ ImageHeld /\ StageInv /\ FrameInv

LEMMA FramesNumbered == \A f \in Frames : (f + 1) % MaxFrames \in Frames
  BY DEF Frames

\* Dropping the head keeps a queue a queue.
LEMMA QueueTail ==
  ASSUME NEW q \in Seq(Frames \X Images), q # <<>>
  PROVE  /\ Head(q) \in Frames \X Images
         /\ Tail(q) \in Seq(Frames \X Images)
  BY HeadTailProperties

\* TypeOK is kept by every stage of nacl_vulkan_init.
LEMMA InitTypes == TypeOK /\ InitSteps => TypeOK'
<1> SUFFICES ASSUME TypeOK, InitSteps PROVE TypeOK'
  OBVIOUS
<1> USE DEF TypeOK, Stages, Objects, gpu, display, Stage, Hold, HoldUnchecked, GiveUp
<1>1. CASE BeginInit
  <2>1. inits' \in 0 .. MaxInits
    BY <1>1 DEF BeginInit
  <2>2. /\ pc' \in Stages /\ is_initialized' \in BOOLEAN /\ failed' \in BOOLEAN
        /\ live' \in SUBSET Objects /\ leaked' \in BOOLEAN
        /\ current_frame' \in Frames /\ lapse' \in BOOLEAN
    BY <1>1 DEF BeginInit
  <2>3. UNCHANGED <<gpu, display, image>>
    BY <1>1 DEF BeginInit
  <2>4. QED
    BY <2>1, <2>2, <2>3
<1>2. CASE CreateInstance
  BY <1>2 DEF CreateInstance
<1>3. CASE CreateSurface
  BY <1>3 DEF CreateSurface
<1>4. CASE PickDevice
  BY <1>4 DEF PickDevice
<1>5. CASE CreateDevice
  BY <1>5 DEF CreateDevice
<1>6. CASE CreateSwapchain
  <2>1. presents' \in Seq(Frames \X Images)
    <3>1. presents' = <<>> \/ presents' = presents
      BY <1>6 DEF CreateSwapchain
    <3>2. <<>> \in Seq(Frames \X Images)
      OBVIOUS
    <3>3. QED
      BY <3>1, <3>2
  <2>2. /\ owned' \in SUBSET Images /\ shown' \in Images \cup {NoImage}
        /\ swap_images' \in SUBSET Images /\ out_of_date' \in BOOLEAN
    BY <1>6 DEF CreateSwapchain
  <2>3. QED
    BY <1>6, <2>1, <2>2 DEF CreateSwapchain
<1>7. CASE CreateRenderPass
  BY <1>7 DEF CreateRenderPass
<1>8. CASE CreateLayout
  BY <1>8 DEF CreateLayout
<1>9. CASE CreatePipeline
  BY <1>9 DEF CreatePipeline
<1>10. CASE CreateFramebuffers
  BY <1>10 DEF CreateFramebuffers
<1>11. CASE CreateVertexBuffer
  BY <1>11 DEF CreateVertexBuffer
<1>12. CASE AllocateMemory
  BY <1>12 DEF AllocateMemory
<1>13. CASE CreateCommandPool
  BY <1>13 DEF CreateCommandPool
<1>14. CASE AllocateCommands
  BY <1>14 DEF AllocateCommands
<1>15. CASE CreateSync
  BY <1>15 DEF CreateSync
<1>16. QED
  BY <1>1, <1>2, <1>3, <1>4, <1>5, <1>6, <1>7, <1>8, <1>9, <1>10, <1>11, <1>12, <1>13,
     <1>14, <1>15 DEF InitSteps

\* TypeOK is kept by the steps of a draw, a resize and a shutdown.
LEMMA DrawTypes == TypeOK /\ ImageHeld /\ DrawSteps => TypeOK'
<1> SUFFICES ASSUME TypeOK, ImageHeld, DrawSteps PROVE TypeOK'
  OBVIOUS
<1> USE DEF TypeOK, setup, gpu, display, At
<1>1. CASE WaitFence
  BY <1>1 DEF WaitFence
<1>2. CASE Acquire
  <2>1. available' \in [Frames -> BOOLEAN]
    BY <1>2 DEF Acquire
  <2>2. image' \in Images \cup {NoImage} /\ owned' \in SUBSET Images
    BY <1>2 DEF Acquire, Spare
  <2>3. QED
    BY <1>2, <2>1, <2>2 DEF Acquire
<1>3. CASE Record
  BY <1>3 DEF Record
<1>4. CASE Submit
  BY <1>4 DEF Submit
<1>5. CASE Present
  <2>1. presents' \in Seq(Frames \X Images)
    <3>1. CASE presents' = Append(presents, <<current_frame, image>>)
      <4>1. <<current_frame, image>> \in Frames \X Images
        BY <1>5 DEF Present, ImageHeld
      <4>2. QED
        BY <3>1, <4>1, AppendProperties
    <3>2. QED
      BY <3>1, <1>5 DEF Present
  <2>2. QED
    BY <1>5, <2>1 DEF Present
<1>6. CASE Recreate
  BY <1>6 DEF Recreate
<1>7. CASE Advance
  BY <1>7, FramesNumbered DEF Advance
<1>8. CASE Shutdown
  <2>1. presents' \in Seq(Frames \X Images)
    BY <1>8 DEF Shutdown
  <2>2. live' \in SUBSET Objects
    BY <1>8 DEF Shutdown
  <2>3. QED
    BY <1>8, <2>1, <2>2 DEF Shutdown
<1>9. QED
  BY <1>1, <1>2, <1>3, <1>4, <1>5, <1>6, <1>7, <1>8 DEF DrawSteps
\* The type invariant is inductive together with ImageHeld.
LEMMA TypesKept == TypeOK /\ ImageHeld /\ [Next]_vars => TypeOK' /\ ImageHeld'
<1> SUFFICES ASSUME TypeOK, ImageHeld, [Next]_vars PROVE TypeOK' /\ ImageHeld'
  OBVIOUS
<1>1. TypeOK'
  <2>1. CASE InitSteps
    BY <2>1, InitTypes
  <2>2. CASE DrawSteps
    BY <2>2, DrawTypes
  <2>3. CASE BeginDraw \/ DeviceLost \/ AcquireFails \/ BeginResize \/ BeginShutdown
    BY <2>3 DEF BeginDraw, DeviceLost, AcquireFails, BeginResize, BeginShutdown, At, TypeOK, setup, gpu, display
  <2>4. ASSUME NEW f \in Frames, GpuCompletes(f) PROVE TypeOK'
    BY <2>4 DEF GpuCompletes, TypeOK, setup, display
  <2>5. CASE Display
    <3>1. /\ Head(presents)[1] \in Frames /\ Head(presents)[2] \in Images
          /\ presents' \in Seq(Frames \X Images)
      BY <2>5, QueueTail DEF Display, TypeOK
    <3>2. finished' \in [Frames -> BOOLEAN] /\ shown' \in Images
      BY <2>5, <3>1 DEF Display, TypeOK
    <3>3. QED
      BY <2>5, <3>1, <3>2 DEF Display, TypeOK, setup
  <2>6. CASE WindowChanges
    BY <2>6 DEF WindowChanges, TypeOK, setup, gpu
  <2>7. CASE UNCHANGED vars
    BY <2>7 DEF TypeOK, vars, setup, gpu, display
  <2>8. QED
    BY <2>1, <2>2, <2>3, <2>4, <2>5, <2>6, <2>7 DEF Next
<1>2. ImageHeld'
  <2>1. CASE InitSteps
    <3>1. pc' \in Stages \cup {"idle"}
      BY <2>1 DEF InitSteps, BeginInit, CreateInstance, CreateSurface, PickDevice, CreateDevice,
        CreateSwapchain, CreateRenderPass, CreateLayout, CreatePipeline, CreateFramebuffers,
        CreateVertexBuffer, AllocateMemory, CreateCommandPool, AllocateCommands, CreateSync,
        Stage, GiveUp, Stages
    <3>2. QED
      BY <3>1 DEF ImageHeld, Stages
  <2>2. CASE DrawSteps
    BY <2>2 DEF DrawSteps, WaitFence, Acquire, Spare, Record, Submit, Present, Recreate, Advance,
      Shutdown, At, ImageHeld, TypeOK
  <2>3. CASE BeginDraw \/ DeviceLost \/ AcquireFails \/ BeginResize \/ BeginShutdown
    BY <2>3 DEF BeginDraw, DeviceLost, AcquireFails, BeginResize, BeginShutdown, At, ImageHeld
  <2>4. CASE (\E f \in Frames : GpuCompletes(f)) \/ Display \/ WindowChanges \/ UNCHANGED vars
    BY <2>4 DEF GpuCompletes, Display, WindowChanges, vars, ImageHeld
  <2>5. QED
    BY <2>1, <2>2, <2>3, <2>4 DEF Next
<1>3. QED
  BY <1>1, <1>2

\* What each stage adds to what it found.
LEMMA MadeBy ==
  /\ Made["instance"] = {}
  /\ Made["surface"] = Made["instance"] \cup {"instance"}
  /\ Made["gpu"] = Made["surface"] \cup {"surface"}
  /\ Made["device"] = Made["gpu"]
  /\ Made["swapchain"] = Made["device"] \cup {"device"}
  /\ Made["render_pass"] = Made["swapchain"] \cup {"swapchain", "views"}
  /\ Made["layout"] = Made["render_pass"] \cup {"render_pass"}
  /\ Made["pipeline"] = Made["layout"] \cup {"shaders", "layout"}
  /\ Made["framebuffers"] = (Made["pipeline"] \cup {"pipeline"}) \ {"shaders"}
  /\ Made["buffer"] = Made["framebuffers"] \cup {"framebuffers"}
  /\ Made["memory"] = Made["buffer"] \cup {"buffer"}
  /\ Made["pool"] = Made["memory"] \cup {"memory"}
  /\ Made["commands"] = Made["pool"] \cup {"pool"}
  /\ Made["sync"] = Made["commands"]
  /\ Made["sync"] \cup {"sync"} = Objects \ {"shaders"}
<1> USE DEF Made, Stages, Objects
<1>1. Made["instance"] = {}
  OBVIOUS
<1>2. Made["surface"] = Made["instance"] \cup {"instance"}
  OBVIOUS
<1>3. Made["gpu"] = Made["surface"] \cup {"surface"}
  OBVIOUS
<1>4. Made["device"] = Made["gpu"]
  OBVIOUS
<1>5. Made["swapchain"] = Made["device"] \cup {"device"}
  OBVIOUS
<1>6. Made["render_pass"] = Made["swapchain"] \cup {"swapchain", "views"}
  OBVIOUS
<1>7. Made["layout"] = Made["render_pass"] \cup {"render_pass"}
  OBVIOUS
<1>8. Made["pipeline"] = Made["layout"] \cup {"shaders", "layout"}
  OBVIOUS
<1>9. Made["framebuffers"] = (Made["pipeline"] \cup {"pipeline"}) \ {"shaders"}
  OBVIOUS
<1>10. Made["buffer"] = Made["framebuffers"] \cup {"framebuffers"}
  OBVIOUS
<1>11. Made["memory"] = Made["buffer"] \cup {"buffer"}
  OBVIOUS
<1>12. Made["pool"] = Made["memory"] \cup {"memory"}
  OBVIOUS
<1>13. Made["commands"] = Made["pool"] \cup {"pool"}
  OBVIOUS
<1>14. Made["sync"] = Made["commands"]
  OBVIOUS
<1>15. Made["sync"] \cup {"sync"} = Objects \ {"shaders"}
  OBVIOUS
<1>16. QED
  BY <1>1, <1>2, <1>3, <1>4, <1>5, <1>6, <1>7, <1>8, <1>9, <1>10, <1>11, <1>12, <1>13, <1>14, <1>15

\* No stage makes what an earlier one has made.
LEMMA MadeOnce ==
  /\ "instance" \notin Made["instance"] /\ "surface" \notin Made["surface"]
  /\ "device" \notin Made["device"]
  /\ "swapchain" \notin Made["swapchain"] /\ "views" \notin Made["swapchain"]
  /\ "render_pass" \notin Made["render_pass"]
  /\ "shaders" \notin Made["layout"] /\ "layout" \notin Made["layout"]
  /\ "pipeline" \notin Made["pipeline"] /\ "framebuffers" \notin Made["framebuffers"]
  /\ "buffer" \notin Made["buffer"] /\ "memory" \notin Made["memory"]
  /\ "pool" \notin Made["pool"] /\ "sync" \notin Made["sync"]
  BY DEF Made, Stages, Objects

\* A stage that adds its objects to those of the earlier ones keeps StageInv.
LEMMA StageKept ==
  ASSUME TypeOK, StageInv, NEW here \in Stages, NEW next \in Stages, NEW new,
         Stage(here, next, new), Made[next] = Made[here] \cup new,
         new \cap Made[here] = {}, "shaders" \notin new, next \in Late => here \in Late
  PROVE  StageInv'
<1> USE DEF Stage, Hold, GiveUp
<1>1. pc \in Stages /\ pc # "idle" /\ pc = here /\ ~is_initialized /\ ~is_initialized'
  BY DEF StageInv, Stages
<1>2. CASE pc' = next /\ Hold(new) /\ UNCHANGED failed
  <2>1. Made[next] \ Unchecked \subseteq live' /\ (inits = 1 => live' \subseteq Made[next])
    BY <1>1, <1>2 DEF StageInv
  <2>7. inits = 1 => live \cap new = {}
    BY <1>1 DEF StageInv
  <2>8. inits = 1 => ~leaked'
    BY <1>2, <2>7 DEF StageInv, TypeOK
  <2>2. "shaders" \in live' => "shaders" \in live
    BY <1>2
  <2>3. inits >= 1 /\ inits # 0 /\ inits' = inits
    BY <1>1 DEF StageInv
  <2>4. inits <= 1 => inits = 1
    BY <2>3 DEF TypeOK
  <2>5. pc' # "idle" /\ pc' \in Stages
    BY <1>2 DEF Stages
  <2>6. QED
    BY <1>1, <1>2, <2>1, <2>2, <2>3, <2>4, <2>5, <2>8 DEF StageInv
<1>3. CASE GiveUp /\ UNCHANGED <<live, leaked>>
  <2>1. pc' = "idle" /\ failed' /\ live' = live /\ leaked' = leaked /\ inits' = inits
    BY <1>3
  <2>2. "idle" \notin Stages /\ "idle" \notin Late
    BY DEF Stages, Late
  <2>3. QED
    BY <1>1, <2>1, <2>2 DEF StageInv
<1>4. QED
  BY <1>2, <1>3

\* A stage that fails leaves what there is.
LEMMA FailureKept ==
  ASSUME TypeOK, StageInv, pc \in Stages, GiveUp, UNCHANGED <<inits, is_initialized>>,
         live' \subseteq Objects, inits = 1 => ~leaked'
  PROVE  StageInv'
<1>1. pc \in Stages /\ ~is_initialized' /\ inits >= 1 /\ inits' = inits /\ pc' = "idle" /\ failed'
  BY DEF StageInv, GiveUp
<1>2. "idle" \notin Stages /\ "idle" \notin Late
  BY DEF Stages, Late
<1>3. inits <= 1 => inits = 1
  BY <1>1 DEF TypeOK
<1>4. inits' <= 1 => ~leaked'
  BY <1>1, <1>3 DEF StageInv
<1>5. QED
  BY <1>1, <1>2, <1>4 DEF StageInv, TypeOK

\* A stage that creates objects without a check keeps StageInv: they may be missing.
LEMMA UncheckedKept ==
  ASSUME TypeOK, StageInv, NEW here \in Stages, NEW next \in Stages, pc = here, pc' = next,
         NEW new, NEW some \in SUBSET Unchecked, HoldUnchecked(new, some),
         UNCHANGED <<inits, is_initialized, failed>>, new \cap Unchecked = {},
         Made[next] = Made[here] \cup new \cup some, (new \cup some) \cap Made[here] = {},
         next \in Late => here \in Late /\ "shaders" \notin some
  PROVE  StageInv'
<1>1. pc \in Stages /\ ~is_initialized' /\ ~failed' /\ inits >= 1 /\ inits' = inits /\ pc' # "idle"
  BY DEF StageInv, Stages
<1>2. PICK made \in SUBSET some : live' = (live \ some) \cup new \cup made
  BY DEF HoldUnchecked
<1>3. Made[next] \ Unchecked \subseteq live'
  BY <1>1, <1>2 DEF StageInv
<1>4. inits = 1 => live' \subseteq Made[next] /\ live \cap (new \cup some) = {}
  BY <1>1, <1>2 DEF StageInv
<1>8. inits = 1 => ~leaked'
  BY <1>4 DEF StageInv, HoldUnchecked, TypeOK
<1>5. "shaders" \in live' => "shaders" \in live \/ "shaders" \in some
  BY <1>2 DEF Unchecked
<1>6. inits <= 1 => inits = 1
  BY <1>1 DEF TypeOK
<1>7. QED
  BY <1>1, <1>3, <1>4, <1>5, <1>6, <1>8 DEF StageInv

\* Every stage finds what the earlier ones made.
LEMMA StagesKept == TypeOK /\ StageInv /\ [Next]_vars => StageInv'
<1> SUFFICES ASSUME TypeOK, StageInv, [Next]_vars PROVE StageInv'
  OBVIOUS
<1>1. CASE InitSteps
  <2>1. CASE BeginInit
    BY <2>1, MadeBy DEF BeginInit, TypeOK, StageInv, Stages, Late
  <2>2. CASE CreateInstance
    <3>1. Stage("instance", "surface", {"instance"})
      BY <2>2 DEF CreateInstance
    <3>2. /\ Made["surface"] = Made["instance"] \cup {"instance"}
          /\ {"instance"} \cap Made["instance"] = {} /\ "shaders" \notin {"instance"}
      BY MadeBy, MadeOnce
    <3>3. QED
      BY <3>1, <3>2, StageKept DEF Stages, Late
  <2>3. CASE CreateSurface
    <3>1. Stage("surface", "gpu", {"surface"})
      BY <2>3 DEF CreateSurface
    <3>2. /\ Made["gpu"] = Made["surface"] \cup {"surface"}
          /\ {"surface"} \cap Made["surface"] = {} /\ "shaders" \notin {"surface"}
      BY MadeBy, MadeOnce
    <3>3. QED
      BY <3>1, <3>2, StageKept DEF Stages, Late
  <2>4. CASE PickDevice
    <3>1. Stage("gpu", "device", {})
      BY <2>4 DEF PickDevice
    <3>2. /\ Made["device"] = Made["gpu"] \cup {}
          /\ {} \cap Made["gpu"] = {} /\ "shaders" \notin {}
      BY MadeBy, MadeOnce
    <3>3. QED
      BY <3>1, <3>2, StageKept DEF Stages, Late
  <2>5. CASE CreateDevice
    <3>1. Stage("device", "swapchain", {"device"})
      BY <2>5 DEF CreateDevice
    <3>2. /\ Made["swapchain"] = Made["device"] \cup {"device"}
          /\ {"device"} \cap Made["device"] = {} /\ "shaders" \notin {"device"}
      BY MadeBy, MadeOnce
    <3>3. QED
      BY <3>1, <3>2, StageKept DEF Stages, Late
  <2>6. CASE CreateSwapchain
    <3>1. CASE pc' = "render_pass" /\ HoldUnchecked({"swapchain"}, {"views"}) /\ UNCHANGED failed
      <4>1. /\ pc = "swapchain" /\ UNCHANGED <<inits, is_initialized>> /\ pc \in Stages /\ pc' \in Stages
            /\ pc' \notin Late /\ {"views"} \in SUBSET Unchecked /\ {"swapchain"} \cap Unchecked = {}
        BY <2>6, <3>1 DEF CreateSwapchain, Stages, Late, Unchecked
      <4>2. /\ Made["render_pass"] = Made["swapchain"] \cup {"swapchain"} \cup {"views"}
            /\ ({"swapchain"} \cup {"views"}) \cap Made["swapchain"] = {}
        BY MadeBy, MadeOnce
      <4>3. QED
        BY <3>1, <4>1, <4>2, UncheckedKept
    <3>2. CASE GiveUp /\ UNCHANGED <<live, leaked>>
      BY <2>6, <3>2, FailureKept DEF CreateSwapchain, Stages, StageInv, TypeOK
    <3>3. QED
      BY <2>6, <3>1, <3>2 DEF CreateSwapchain
  <2>7. CASE CreateRenderPass
    <3>1. Stage("render_pass", "layout", {"render_pass"})
      BY <2>7 DEF CreateRenderPass
    <3>2. /\ Made["layout"] = Made["render_pass"] \cup {"render_pass"}
          /\ {"render_pass"} \cap Made["render_pass"] = {} /\ "shaders" \notin {"render_pass"}
      BY MadeBy, MadeOnce
    <3>3. QED
      BY <3>1, <3>2, StageKept DEF Stages, Late
  <2>8. CASE CreateVertexBuffer
    <3>1. Stage("buffer", "memory", {"buffer"})
      BY <2>8 DEF CreateVertexBuffer
    <3>2. /\ Made["memory"] = Made["buffer"] \cup {"buffer"}
          /\ {"buffer"} \cap Made["buffer"] = {} /\ "shaders" \notin {"buffer"}
      BY MadeBy, MadeOnce
    <3>3. QED
      BY <3>1, <3>2, StageKept DEF Stages, Late
  <2>9. CASE AllocateMemory
    <3>1. Stage("memory", "pool", {"memory"})
      BY <2>9 DEF AllocateMemory
    <3>2. /\ Made["pool"] = Made["memory"] \cup {"memory"}
          /\ {"memory"} \cap Made["memory"] = {} /\ "shaders" \notin {"memory"}
      BY MadeBy, MadeOnce
    <3>3. QED
      BY <3>1, <3>2, StageKept DEF Stages, Late
  <2>10. CASE CreateCommandPool
    <3>1. Stage("pool", "commands", {"pool"})
      BY <2>10 DEF CreateCommandPool
    <3>2. /\ Made["commands"] = Made["pool"] \cup {"pool"}
          /\ {"pool"} \cap Made["pool"] = {} /\ "shaders" \notin {"pool"}
      BY MadeBy, MadeOnce
    <3>3. QED
      BY <3>1, <3>2, StageKept DEF Stages, Late
  <2>11. CASE AllocateCommands
    <3>1. Stage("commands", "sync", {})
      BY <2>11 DEF AllocateCommands
    <3>2. /\ Made["sync"] = Made["commands"] \cup {}
          /\ {} \cap Made["commands"] = {} /\ "shaders" \notin {}
      BY MadeBy, MadeOnce
    <3>3. QED
      BY <3>1, <3>2, StageKept DEF Stages, Late
  <2>12. CASE CreateLayout
    <3>1. CASE pc' = "pipeline" /\ HoldUnchecked({"layout"}, {"shaders"}) /\ UNCHANGED failed
      <4>1. /\ pc = "layout" /\ UNCHANGED <<inits, is_initialized>> /\ pc \in Stages /\ pc' \in Stages
            /\ pc' \notin Late /\ {"shaders"} \in SUBSET Unchecked /\ {"layout"} \cap Unchecked = {}
        BY <2>12, <3>1 DEF CreateLayout, Stages, Late, Unchecked
      <4>2. /\ Made["pipeline"] = Made["layout"] \cup {"layout"} \cup {"shaders"}
            /\ ({"layout"} \cup {"shaders"}) \cap Made["layout"] = {}
        BY MadeBy, MadeOnce
      <4>3. QED
        BY <3>1, <4>1, <4>2, UncheckedKept
    <3>2. CASE GiveUp /\ HoldUnchecked({}, {"shaders"})
      <4>1. pc = "layout" /\ pc \in Stages /\ UNCHANGED <<inits, is_initialized>>
        BY <2>12 DEF CreateLayout, Stages
      <4>2. live' \subseteq Objects
        BY <3>2 DEF HoldUnchecked, TypeOK, Objects
      <4>3. inits = 1 => "shaders" \notin live
        BY <4>1, MadeOnce DEF StageInv
      <4>6. inits = 1 => live \cap ({} \cup {"shaders"}) = {} /\ ~leaked
        BY <4>3 DEF StageInv
      <4>4. inits = 1 => ~leaked'
        BY <3>2, <4>6 DEF HoldUnchecked
      <4>5. QED
        BY <3>2, <4>1, <4>2, <4>4, FailureKept
    <3>3. QED
      BY <2>12, <3>1, <3>2 DEF CreateLayout
  <2>13. CASE CreatePipeline
    BY <2>13, MadeBy, MadeOnce DEF CreatePipeline, Unchecked, GiveUp, StageInv, Stages, Late, TypeOK
  <2>14. CASE CreateFramebuffers
    <3>1. /\ pc = "framebuffers" /\ pc' = "buffer" /\ HoldUnchecked({}, {"framebuffers"})
          /\ UNCHANGED <<inits, is_initialized, failed>> /\ pc \in Stages /\ pc' \in Stages
          /\ pc \in Late /\ {"framebuffers"} \in SUBSET Unchecked
      BY <2>14 DEF CreateFramebuffers, Stages, Late, Unchecked
    <3>2. /\ Made["buffer"] = Made["framebuffers"] \cup {} \cup {"framebuffers"}
          /\ ({} \cup {"framebuffers"}) \cap Made["framebuffers"] = {}
      BY MadeBy, MadeOnce
    <3>3. QED
      BY <3>1, <3>2, UncheckedKept
  <2>15. CASE CreateSync
    <3>1. /\ pc = "sync" /\ ~is_initialized /\ ~failed /\ inits >= 1 /\ inits' = inits /\ pc' = "idle"
          /\ Made["sync"] \ Unchecked \subseteq live /\ (inits = 1 => live \subseteq Made["sync"])
          /\ "shaders" \notin live /\ live \subseteq Objects
      BY <2>15 DEF CreateSync, GiveUp, StageInv, Stages, Late, TypeOK
    <3>2. inits <= 1 => inits = 1
      BY <3>1 DEF TypeOK
    <3>3. inits <= 1 => ~leaked'
      <4>1. leaked' = leaked \/ leaked' = (leaked \/ live \cap {"sync"} # {})
        BY <2>15 DEF CreateSync, Hold
      <4>2. inits <= 1 => ~leaked /\ "sync" \notin live
        BY <3>1, <3>2, MadeOnce DEF StageInv
      <4>3. QED
        BY <4>1, <4>2
    <3>4. CASE is_initialized'
      <4>1. live' = live \cup {"sync"} /\ failed' = failed
        BY <2>15, <3>1, <3>4 DEF CreateSync, Hold
      <4>2. Objects \ Unchecked \subseteq live' /\ "shaders" \notin live'
        <5>1. Made["sync"] \cup {"sync"} = Objects \ {"shaders"} /\ "shaders" \in Unchecked
          BY MadeBy DEF Unchecked
        <5>2. QED
          BY <3>1, <4>1, <5>1
      <4>3. QED
        BY <3>1, <3>3, <3>4, <4>1, <4>2 DEF StageInv, Stages, Late
    <3>5. CASE ~is_initialized'
      <4>1. failed'
        BY <2>15, <3>5 DEF CreateSync, GiveUp
      <4>2. QED
        BY <3>1, <3>3, <3>5, <4>1 DEF StageInv, Stages, Late
    <3>6. QED
      BY <3>4, <3>5
  <2>16. QED
    BY <1>1, <2>1, <2>2, <2>3, <2>4, <2>5, <2>6, <2>7, <2>8, <2>9, <2>10, <2>11, <2>12, <2>13,
       <2>14, <2>15 DEF InitSteps
<1>2. CASE Shutdown
  <2>1. live' = live \ Destroyed /\ live \subseteq Objects /\ "shaders" \notin live
    BY <1>2 DEF Shutdown, At, StageInv, Stages, TypeOK
  <2>2. live' = {}
    BY <2>1 DEF Objects, Destroyed
  <2>3. QED
    BY <1>2, <2>2 DEF Shutdown, At, StageInv, Stages, Late
<1>3. CASE DrawSteps /\ ~Shutdown
  <2>1. UNCHANGED setup /\ pc \notin Stages \cup {"idle"} /\ pc' \notin Stages
    BY <1>3 DEF DrawSteps, WaitFence, Acquire, Record, Submit, Present, Recreate, Advance, At, Stages
  <2>2. QED
    BY <2>1 DEF setup, StageInv, Stages, Late
<1>4. CASE BeginDraw \/ DeviceLost \/ AcquireFails \/ BeginResize \/ BeginShutdown
  BY <1>4 DEF BeginDraw, DeviceLost, AcquireFails, BeginResize, BeginShutdown, At, setup, StageInv, Stages, Late
<1>5. CASE (\E f \in Frames : GpuCompletes(f)) \/ Display \/ WindowChanges \/ UNCHANGED vars
  <2>1. UNCHANGED <<pc, inits, is_initialized, live, leaked, failed>>
    BY <1>5 DEF GpuCompletes, Display, WindowChanges, vars, setup
  <2>2. QED
    BY <2>1 DEF StageInv
<1>6. QED
  BY <1>1, <1>2, <1>3, <1>4, <1>5 DEF Next

\* The GPU and the thread agree on who has a frame.
LEMMA FramesKept == TypeOK /\ FrameInv /\ [Next]_vars => FrameInv'
<1> SUFFICES ASSUME TypeOK, FrameInv, [Next]_vars PROVE FrameInv'
  OBVIOUS
<1> USE DEF FrameInv, TypeOK
<1>1. CASE InitSteps
  <2>1. CASE CreateSync
    BY <2>1 DEF CreateSync, GiveUp, gpu
  <2>2. CASE InitSteps /\ ~CreateSync
    <3>1. UNCHANGED <<gpu, current_frame>> /\ pc \in Stages \cup {"idle"} /\ pc' \in Stages \cup {"idle"}
      BY <2>2 DEF InitSteps, BeginInit, CreateInstance, CreateSurface, PickDevice, CreateDevice,
        CreateSwapchain, CreateRenderPass, CreateLayout, CreatePipeline, CreateFramebuffers,
        CreateVertexBuffer, AllocateMemory, CreateCommandPool, AllocateCommands,
        Stage, GiveUp, Stages
    <3>2. QED
      BY <3>1 DEF gpu, Stages
  <2>3. QED
    BY <1>1, <2>1, <2>2
<1>2. CASE DrawSteps
  <2>1. CASE WaitFence
    BY <2>1 DEF WaitFence, At, gpu
  <2>2. CASE Acquire
    BY <2>2 DEF Acquire
  <2>3. CASE Record
    BY <2>3 DEF Record
  <2>4. CASE Submit
    BY <2>4 DEF Submit
  <2>5. CASE Present \/ Recreate \/ Advance \/ Shutdown
    BY <2>5 DEF Present, Recreate, Advance, Shutdown, At, gpu
  <2>6. QED
    BY <1>2, <2>1, <2>2, <2>3, <2>4, <2>5 DEF DrawSteps
<1>3. CASE BeginDraw \/ DeviceLost \/ AcquireFails \/ BeginResize \/ BeginShutdown
  BY <1>3 DEF BeginDraw, DeviceLost, AcquireFails, BeginResize, BeginShutdown, At, gpu
<1>4. ASSUME NEW f \in Frames, GpuCompletes(f) PROVE FrameInv'
  BY <1>4 DEF GpuCompletes
<1>5. CASE Display \/ WindowChanges \/ UNCHANGED vars
  BY <1>5 DEF Display, WindowChanges, vars, gpu
<1>6. QED
  BY <1>1, <1>2, <1>3, <1>4, <1>5 DEF Next

\* The induction.
LEMMA IndCorrect == Spec => []IndInv
<1>1. Init => IndInv
  <2>1. Init => TypeOK
    BY DEF Init, TypeOK, Frames
  <2>2. Init => ImageHeld /\ StageInv /\ FrameInv
    BY DEF Init, ImageHeld, StageInv, FrameInv, Stages, Late
  <2>3. QED
    BY <2>1, <2>2 DEF IndInv
<1>2. IndInv /\ [Next]_vars => IndInv'
  BY TypesKept, StagesKept, FramesKept DEF IndInv
<1>3. QED
  BY <1>1, <1>2, PTL DEF Spec

\* Every variable keeps its type, for any number of frames, images and calls.
THEOREM TypeCorrect == Spec => []TypeOK
  BY IndCorrect, PTL DEF IndInv

\* Whatever stage of nacl_vulkan_init fails, noticed or not, and however often it
\* is tried: an initialised renderer lacks at most image views and framebuffers,
\* and a shutdown leaves nothing behind.
THEOREM AccountCorrect == Spec => []ObjectsAccounted
<1>1. IndInv => ObjectsAccounted
  BY DEF IndInv, StageInv, ObjectsAccounted, TypeOK, Unchecked
<1>2. QED
  BY <1>1, IndCorrect, PTL

\* The GPU never works on the frame a draw records: fences alone guarantee it,
\* for any number of frames in flight and after any failure.
THEOREM FrameCorrect == Spec => []FrameExclusive
<1>1. IndInv => FrameExclusive
  BY DEF IndInv, TypeOK, FrameInv, FrameExclusive
<1>2. QED
  BY <1>1, IndCorrect, PTL
-----------------------------------------------------------------------------
(* the queue of the presentation engine and the signals of its frames *)

(* A renderer that is not initialised has nothing in flight. *)
QuietInv == ~is_initialized => submitted = {} /\ owned = {} /\ presents = <<>>

(* What follows holds while there are no more images than frames in flight *)
(* and no frame was given up.                                              *)
Calm == is_initialized /\ ~lapse /\ Cardinality(swap_images) <= MaxFrames

(* The call in progress has the one image that is acquired, and the queue  *)
(* holds each of the others at most once.                                  *)
InHand == pc \in {"record", "submit", "present"}

QueueInv ==
  /\ owned = IF InHand THEN {image} ELSE {}
  /\ owned \subseteq swap_images
  /\ \A n \in 1 .. Len(presents) : presents[n][2] \in swap_images \ owned
  /\ \A m, n \in 1 .. Len(presents) : presents[m][2] = presents[n][2] => m = n

(* Every draw that used up its frame has queued one present, so the frames *)
(* of the queue are the last ones around the ring.                         *)
Back(f, d) == IF d <= f THEN f - d ELSE (f - d) + MaxFrames

Ahead == IF pc \in {"advance", "resize_last"} THEN 0 ELSE 1

RingInv ==
  \A n \in 1 .. Len(presents) : presents[n][1] = Back(current_frame, (Len(presents) - n) + Ahead)

(* A frame the GPU has, or has finished, waits to be presented. *)
Queued(f) == \E n \in 1 .. Len(presents) : presents[n][1] = f

SignalInv ==
  /\ \A f \in Frames : f \in submitted \/ finished[f] =>
       Queued(f) \/ (pc = "present" /\ f = current_frame)
  /\ \A f \in submitted : ~finished[f]

PresentInv == QuietInv /\ (Calm => QueueInv /\ RingInv /\ SignalInv)

LEMMA BackStep ==
  ASSUME NEW f \in Frames, NEW d \in 0 .. MaxFrames - 1
  PROVE  Back((f + 1) % MaxFrames, d + 1) = Back(f, d)
<1>1. f \in Nat /\ f < MaxFrames /\ MaxFrames \in Nat \ {0} /\ d \in Nat /\ d < MaxFrames
  BY DEF Frames
<1>2. CASE f + 1 = MaxFrames
  <2>1. (f + 1) % MaxFrames = 0
    BY <1>1, <1>2
  <2> QED
    BY <1>1, <1>2, <2>1 DEF Back
<1>3. CASE f + 1 # MaxFrames
  <2>1. (f + 1) % MaxFrames = f + 1
    BY <1>1, <1>3
  <2> QED
    BY <1>1, <2>1 DEF Back
<1> QED
  BY <1>2, <1>3

LEMMA BackElsewhere ==
  ASSUME NEW f \in Frames, NEW d \in 1 .. MaxFrames - 1
  PROVE  Back(f, d) # f
BY DEF Back, Frames

\* The images of the queue and the one in hand fit into the swapchain.
LEMMA QueueLength ==
  ASSUME TypeOK, QueueInv, Cardinality(swap_images) <= MaxFrames
  PROVE  /\ Len(presents) \in Nat
         /\ Len(presents) <= MaxFrames
         /\ InHand => Len(presents) < MaxFrames
<1> DEFINE rest  == swap_images \ owned
           queue == [n \in 1 .. Len(presents) |-> presents[n][2]]
<1>1. /\ IsFiniteSet(swap_images) /\ Cardinality(swap_images) \in Nat
      /\ IsFiniteSet(rest) /\ Cardinality(rest) \in Nat
  <2>1. IsFiniteSet(swap_images)
    BY ImagesAssumption, FS_Subset DEF TypeOK
  <2>2. IsFiniteSet(rest)
    BY <2>1, FS_Subset
  <2> QED
    BY <2>1, <2>2, FS_CardinalityType
<1>2. Len(presents) \in Nat
  BY LenProperties DEF TypeOK
<1>3. queue \in [1 .. Len(presents) -> rest]
  BY DEF QueueInv
<1>4. \A m, n \in 1 .. Len(presents) : queue[m] = queue[n] => m = n
  BY DEF QueueInv
<1>5. queue \in Injection(1 .. Len(presents), rest)
  <2> HIDE DEF queue, rest
  <2> QED
    BY <1>3, <1>4 DEF Injection, IsInjective
<1>6. Len(presents) <= Cardinality(rest)
  <2>1. Cardinality(1 .. Len(presents)) = Len(presents)
    <3>1. ASSUME NEW n \in Nat  PROVE Cardinality(1 .. n) = n
      BY FS_Interval
    <3> QED
      BY <1>2, <3>1
  <2>2. Cardinality(1 .. Len(presents)) <= Cardinality(rest)
    BY <1>1, <1>5, FS_Injection
  <2> QED
    BY <2>1, <2>2
<1>7. Cardinality(rest) <= Cardinality(swap_images)
  BY <1>1, FS_Subset
<1>8. ASSUME InHand  PROVE Cardinality(rest) < Cardinality(swap_images)
  <2>1. image \in swap_images /\ rest = swap_images \ {image}
    BY <1>8 DEF QueueInv
  <2>2. Cardinality(rest) = Cardinality(swap_images) - 1
    BY <1>1, <2>1, FS_RemoveElement
  <2> QED
    BY <1>1, <2>2
<1> HIDE DEF rest
<1> QED
  BY <1>1, <1>2, <1>6, <1>7, <1>8

\* While the queue and the call stand, the invariant does.
LEMMA CalmKept ==
  ASSUME QueueInv /\ RingInv /\ SignalInv,
         UNCHANGED <<current_frame, finished, submitted, image, owned, presents, swap_images>>,
         (pc' = "present") <=> (pc = "present"), InHand' <=> InHand, Ahead' = Ahead
  PROVE  QueueInv' /\ RingInv' /\ SignalInv'
BY DEF QueueInv, RingInv, SignalInv, Queued, InHand, Ahead

LEMMA CalmAcquire ==
  ASSUME TypeOK, QueueInv /\ RingInv /\ SignalInv, Acquire
  PROVE  QueueInv' /\ RingInv' /\ SignalInv'
<1> USE DEF setup
<1>1. CASE out_of_date
  BY <1>1, CalmKept DEF Acquire, InHand, Ahead, QueueInv, RingInv, SignalInv, Queued
<1>2. CASE ~out_of_date
  <2>1. PICK i \in Spare : image' = i /\ owned' = owned \cup {i}
    BY <1>2 DEF Acquire
  <2>2. /\ pc = "acquire" /\ pc' = "record"
        /\ UNCHANGED <<current_frame, finished, submitted, presents, swap_images>>
    BY <1>2 DEF Acquire
  <2>3. i \in swap_images /\ \A n \in 1 .. Len(presents) : presents[n][2] # i
    BY DEF Spare, TypeOK
  <2>4. owned = {}
    BY <2>2 DEF QueueInv, InHand
  <2>5. QueueInv'
    BY <2>1, <2>2, <2>3, <2>4 DEF QueueInv, InHand
  <2>6. RingInv' /\ SignalInv'
    BY <2>2 DEF RingInv, SignalInv, Queued, Ahead
  <2> QED
    BY <2>5, <2>6
<1> QED
  BY <1>1, <1>2

\* The frame that is submitted is not in the queue: its last image has been
\* shown, and the signal with it consumed.
LEMMA CalmSubmit ==
  ASSUME TypeOK, Cardinality(swap_images) <= MaxFrames, QueueInv /\ RingInv /\ SignalInv,
         Submit, ~lapse'
  PROVE  QueueInv' /\ RingInv' /\ SignalInv'
<1>1. /\ pc = "submit" /\ pc' = "present" /\ submitted' = submitted \cup {current_frame}
      /\ UNCHANGED <<current_frame, finished, image, owned, presents, swap_images>>
  BY DEF Submit, setup, display
<1>2. QueueInv' /\ RingInv'
  BY <1>1 DEF QueueInv, RingInv, InHand, Ahead
<1>3. Len(presents) \in Nat /\ Len(presents) < MaxFrames
  BY <1>1, QueueLength DEF InHand
<1>4. ~ Queued(current_frame)
  <2> SUFFICES ASSUME NEW n \in 1 .. Len(presents)  PROVE presents[n][1] # current_frame
    BY DEF Queued
  <2>1. presents[n][1] = Back(current_frame, (Len(presents) - n) + 1)
    BY <1>1 DEF RingInv, Ahead
  <2>2. (Len(presents) - n) + 1 \in 1 .. MaxFrames - 1
    BY <1>3
  <2> QED
    BY <2>1, <2>2, BackElsewhere DEF TypeOK
<1>5. ~finished[current_frame]
  BY <1>1, <1>4 DEF SignalInv, TypeOK
<1>6. SignalInv'
  <2>1. \A f : Queued(f)' <=> Queued(f)
    BY <1>1 DEF Queued
  <2> QED
    BY <1>1, <1>5, <2>1 DEF SignalInv
<1> QED
  BY <1>2, <1>6

LEMMA CalmPresent ==
  ASSUME TypeOK, ImageHeld, QueueInv /\ RingInv /\ SignalInv, Present, ~lapse'
  PROVE  QueueInv' /\ RingInv' /\ SignalInv'
<1> DEFINE L == Len(presents)
<1>1. /\ pc = "present" /\ pc' \in {"advance", "resize_last"}
      /\ presents' = Append(presents, <<current_frame, image>>) /\ owned' = owned \ {image}
      /\ UNCHANGED <<current_frame, finished, submitted, image, swap_images>>
  BY DEF Present, setup, gpu
<1>2. owned = {image} /\ owned' = {} /\ image \in swap_images
  BY <1>1 DEF QueueInv, InHand
<1>3. /\ L \in Nat /\ Len(presents') = L + 1 /\ presents'[L + 1] = <<current_frame, image>>
      /\ \A n \in 1 .. L : presents'[n] = presents[n]
  <2>1. <<current_frame, image>> \in Frames \X Images
    BY <1>1 DEF TypeOK, ImageHeld
  <2> QED
    BY <1>1, <2>1, AppendProperties, LenProperties DEF TypeOK
<1>4. \A n \in 1 .. L : presents[n][2] \in swap_images \ {image}
  BY <1>2 DEF QueueInv
<1> HIDE DEF L
<1>5. \A n \in 1 .. L + 1 : n \in 1 .. L \/ n = L + 1
  BY <1>3
<1>6. QueueInv'
  <2>1. owned' = {} /\ ~InHand'
    BY <1>1, <1>2 DEF InHand
  <2>2. \A n \in 1 .. L + 1 : presents'[n][2] \in swap_images
    BY <1>2, <1>3, <1>4, <1>5
  <2>3. ASSUME NEW m \in 1 .. L + 1, NEW n \in 1 .. L + 1, presents'[m][2] = presents'[n][2]
        PROVE  m = n
    <3>1. CASE m = L + 1 \/ n = L + 1
      BY <1>3, <1>4, <1>5, <2>3, <3>1
    <3>2. CASE m \in 1 .. L /\ n \in 1 .. L
      BY <1>3, <2>3, <3>2 DEF QueueInv, L
    <3> QED
      BY <1>5, <3>1, <3>2
  <2> QED
    BY <1>1, <1>3, <2>1, <2>2, <2>3 DEF QueueInv
<1>7. RingInv'
  <2> SUFFICES ASSUME NEW n \in 1 .. L + 1
               PROVE  presents'[n][1] = Back(current_frame, (L + 1) - n)
    BY <1>1, <1>3 DEF RingInv, Ahead
  <2>1. CASE n \in 1 .. L
    <3>1. presents[n][1] = Back(current_frame, (L - n) + 1)
      BY <1>1, <2>1 DEF RingInv, Ahead, L
    <3>2. (L - n) + 1 = (L + 1) - n
      BY <1>3
    <3> QED
      BY <1>3, <2>1, <3>1, <3>2
  <2>2. CASE n = L + 1
    <3>1. Back(current_frame, 0) = current_frame
      BY DEF Back, TypeOK, Frames
    <3> QED
      BY <1>3, <2>2, <3>1
  <2> QED
    BY <1>5, <2>1, <2>2
<1>8. SignalInv'
  <2>1. Queued(current_frame)'
    <3>1. L + 1 \in 1 .. L + 1
      BY <1>3
    <3> QED
      BY <1>1, <1>3, <3>1 DEF Queued
  <2>2. ASSUME NEW f \in Frames, Queued(f)  PROVE Queued(f)'
    <3>1. \A n \in 1 .. L : n \in 1 .. L + 1
      BY <1>3
    <3> QED
      BY <1>3, <2>2, <3>1 DEF Queued, L
  <2> QED
    BY <1>1, <2>1, <2>2 DEF SignalInv
<1> QED
  BY <1>6, <1>7, <1>8

LEMMA CalmAdvance ==
  ASSUME TypeOK, Cardinality(swap_images) <= MaxFrames, QueueInv /\ RingInv /\ SignalInv, Advance
  PROVE  QueueInv' /\ RingInv' /\ SignalInv'
<1>1. /\ pc = "advance" /\ pc' = "idle" /\ current_frame' = (current_frame + 1) % MaxFrames
      /\ UNCHANGED <<finished, submitted, image, owned, presents, swap_images>>
  BY DEF Advance, At, gpu, display
<1>2. QueueInv' /\ SignalInv'
  BY <1>1 DEF QueueInv, SignalInv, Queued, InHand
<1>3. Len(presents) \in Nat /\ Len(presents) <= MaxFrames
  BY QueueLength
<1>4. RingInv'
  <2> SUFFICES ASSUME NEW n \in 1 .. Len(presents)
               PROVE  presents[n][1] = Back((current_frame + 1) % MaxFrames, (Len(presents) - n) + 1)
    BY <1>1 DEF RingInv, Ahead
  <2>1. presents[n][1] = Back(current_frame, (Len(presents) - n) + 0)
    BY <1>1 DEF RingInv, Ahead
  <2>2. Len(presents) - n \in 0 .. MaxFrames - 1 /\ (Len(presents) - n) + 0 = Len(presents) - n
    BY <1>3
  <2> QED
    BY <2>1, <2>2, BackStep DEF TypeOK
<1> QED
  BY <1>2, <1>4

LEMMA CalmCompletes ==
  ASSUME TypeOK, QueueInv /\ RingInv /\ SignalInv, NEW g \in Frames, GpuCompletes(g)
  PROVE  QueueInv' /\ RingInv' /\ SignalInv'
<1>1. /\ g \in submitted /\ submitted' = submitted \ {g} /\ finished' = [finished EXCEPT ![g] = TRUE]
      /\ UNCHANGED <<pc, current_frame, image, owned, presents, swap_images>>
  BY DEF GpuCompletes, display
<1>2. QueueInv' /\ RingInv'
  BY <1>1 DEF QueueInv, RingInv, InHand, Ahead
<1>3. \A f : Queued(f)' <=> Queued(f)
  BY <1>1 DEF Queued
<1>4. \A f \in Frames : finished'[f] => f = g \/ finished[f]
  BY <1>1 DEF TypeOK
<1>5. \A f \in submitted' : ~finished'[f]
  BY <1>1, <1>4 DEF SignalInv, TypeOK
<1>6. SignalInv'
  BY <1>1, <1>3, <1>4, <1>5 DEF SignalInv
<1> QED
  BY <1>2, <1>6

\* The presentation engine consumes the signal of the frame it shows.
LEMMA CalmDisplay ==
  ASSUME TypeOK, QueueInv /\ RingInv /\ SignalInv, Display
  PROVE  QueueInv' /\ RingInv' /\ SignalInv'
<1> DEFINE L == Len(presents)
           g == presents[1][1]
<1>1. /\ presents # <<>> /\ presents' = Tail(presents)
      /\ finished[Head(presents)[1]] /\ finished' = [finished EXCEPT ![Head(presents)[1]] = FALSE]
      /\ UNCHANGED <<pc, current_frame, submitted, image, owned, swap_images>>
  BY DEF Display
<1>2. /\ L \in Nat /\ L >= 1 /\ Head(presents) = presents[1] /\ g \in Frames
      /\ Len(presents') = L - 1 /\ \A n \in 1 .. L - 1 : presents'[n] = presents[n + 1]
  <2>1. L \in Nat /\ L # 0 /\ presents \in Seq(Frames \X Images)
    BY <1>1, EmptySeq, LenProperties DEF TypeOK
  <2>2. Head(presents) = presents[1] /\ Head(presents) \in Frames \X Images
    BY <1>1, <2>1, HeadTailProperties
  <2> QED
    BY <1>1, <2>1, <2>2, HeadTailProperties
<1>3. finished[g] /\ finished' = [finished EXCEPT ![g] = FALSE]
  BY <1>1, <1>2
<1> HIDE DEF L, g
<1>4. \A n \in 1 .. L - 1 : n + 1 \in 1 .. L /\ (L - 1) - n = L - (n + 1)
  BY <1>2
<1>5. QueueInv'
  <2>1. \A n \in 1 .. L - 1 : presents'[n][2] \in swap_images \ owned
    BY <1>2, <1>4 DEF QueueInv, L
  <2>2. ASSUME NEW m \in 1 .. L - 1, NEW n \in 1 .. L - 1, presents'[m][2] = presents'[n][2]
        PROVE  m = n
    <3>1. m + 1 = n + 1
      BY <1>2, <1>4, <2>2 DEF QueueInv, L
    <3> QED
      BY <3>1
  <2> QED
    BY <1>1, <1>2, <2>1, <2>2 DEF QueueInv, InHand
<1>6. RingInv'
  <2> SUFFICES ASSUME NEW n \in 1 .. L - 1
               PROVE  presents[n + 1][1] = Back(current_frame, ((L - 1) - n) + Ahead)
    BY <1>1, <1>2 DEF RingInv, Ahead
  <2> QED
    BY <1>4 DEF RingInv, L
<1>7. SignalInv'
  <2>1. ASSUME NEW f \in Frames, Queued(f), f # g  PROVE Queued(f)'
    <3>1. PICK n \in 1 .. L : presents[n][1] = f
      BY <2>1 DEF Queued, L
    <3>2. n # 1
      BY <2>1, <3>1 DEF g
    <3>3. n - 1 \in 1 .. L - 1 /\ (n - 1) + 1 = n
      BY <1>2, <3>2
    <3>4. presents'[n - 1] = presents[n]
      BY <1>2, <3>3
    <3> QED
      BY <1>2, <3>1, <3>3, <3>4 DEF Queued
  <2>2. \A f \in Frames : finished'[f] <=> finished[f] /\ f # g
    BY <1>2, <1>3 DEF TypeOK
  <2>3. g \notin submitted
    BY <1>3 DEF SignalInv
  <2>4. \A f \in Frames : f \in submitted' \/ finished'[f] => f # g /\ (f \in submitted \/ finished[f])
    BY <1>1, <2>2, <2>3
  <2>5. \A f \in submitted' : ~finished'[f]
    BY <1>1, <2>2 DEF SignalInv, TypeOK
  <2> QED
    BY <1>1, <2>1, <2>4, <2>5 DEF SignalInv
<1> QED
  BY <1>5, <1>6, <1>7

\* A renderer becomes initialised with nothing in flight and stays so.
LEMMA InitPresent ==
  ASSUME TypeOK, StageInv, PresentInv, InitSteps
  PROVE  PresentInv'
<1>1. ~is_initialized /\ submitted = {} /\ owned = {} /\ presents = <<>>
  BY DEF InitSteps, BeginInit, CreateInstance, CreateSurface, PickDevice, CreateDevice,
    CreateSwapchain, CreateRenderPass, CreateLayout, CreatePipeline, CreateFramebuffers,
    CreateVertexBuffer, AllocateMemory, CreateCommandPool, AllocateCommands, CreateSync, Stage,
    Stages, StageInv, PresentInv, QuietInv
<1>2. CASE CreateSync
  <2>1. /\ pc' = "idle" /\ owned' = {} /\ presents' = <<>> /\ submitted' = {}
        /\ is_initialized' => \A f \in Frames : ~finished'[f]
    BY <1>1, <1>2 DEF CreateSync, GiveUp, gpu, display
  <2>2. Len(presents') = 0
    BY <2>1
  <2>3. QuietInv'
    BY <2>1 DEF QuietInv
  <2>4. is_initialized' => QueueInv' /\ RingInv' /\ SignalInv'
    BY <2>1, <2>2 DEF QueueInv, RingInv, SignalInv, InHand
  <2> QED
    BY <2>3, <2>4 DEF PresentInv, Calm
<1>3. CASE ~CreateSync
  <2>1. ~is_initialized' /\ submitted' = {} /\ owned' = {} /\ presents' = <<>>
    BY <1>1, <1>3 DEF InitSteps, BeginInit, CreateInstance, CreateSurface, PickDevice, CreateDevice,
      CreateSwapchain, CreateRenderPass, CreateLayout, CreatePipeline, CreateFramebuffers,
      CreateVertexBuffer, AllocateMemory, CreateCommandPool, AllocateCommands, Stage, gpu, display
  <2> QED
    BY <2>1 DEF PresentInv, QuietInv, Calm
<1> QED
  BY <1>2, <1>3

\* Outside nacl_vulkan_init a calm renderer was calm before.
LEMMA PresentKept == IndInv /\ PresentInv /\ [Next]_vars => PresentInv'
<1> SUFFICES ASSUME IndInv, PresentInv, [Next]_vars  PROVE PresentInv'
  OBVIOUS
<1>1. TypeOK /\ ImageHeld /\ StageInv
  BY DEF IndInv
<1>2. CASE InitSteps
  BY <1>1, <1>2, InitPresent
<1>3. CASE Shutdown
  BY <1>3 DEF Shutdown, gpu, PresentInv, QuietInv, Calm
<1>4. CASE ~InitSteps /\ ~Shutdown
  <2>1. UNCHANGED <<is_initialized, swap_images>> /\ (~lapse' => ~lapse)
    <3>1. CASE DrawSteps
      BY <1>4, <3>1 DEF DrawSteps, WaitFence, Acquire, Record, Submit, Present, Recreate, Advance,
        setup, display
    <3>2. CASE BeginDraw \/ DeviceLost \/ AcquireFails \/ BeginResize \/ BeginShutdown
      BY <3>2 DEF BeginDraw, DeviceLost, AcquireFails, BeginResize, BeginShutdown, setup, display
    <3>3. ASSUME NEW g \in Frames, GpuCompletes(g)
          PROVE  UNCHANGED <<is_initialized, swap_images>> /\ (~lapse' => ~lapse)
      BY <3>3 DEF GpuCompletes, setup, display
    <3>4. CASE Display \/ WindowChanges \/ UNCHANGED vars
      BY <3>4 DEF Display, WindowChanges, setup, display, vars
    <3> QED
      BY <1>4, <3>1, <3>2, <3>3, <3>4 DEF Next
  <2>2. CASE ~is_initialized
    <3>1. submitted = {} /\ owned = {} /\ presents = <<>>
      BY <2>2 DEF PresentInv, QuietInv
    <3>2. ~DrawSteps /\ ~BeginDraw /\ ~DeviceLost /\ ~AcquireFails /\ ~BeginResize /\ ~BeginShutdown
      BY <1>1, <1>4, <2>2 DEF DrawSteps, WaitFence, Acquire, Record, Submit, Present, Recreate, Advance,
        BeginDraw, DeviceLost, AcquireFails, BeginResize, BeginShutdown, At, StageInv, Stages
    <3>3. UNCHANGED <<submitted, owned, presents>>
      BY <1>4, <3>1, <3>2 DEF Next, GpuCompletes, Display, WindowChanges, vars, gpu, display
    <3> QED
      BY <2>1, <2>2, <3>1, <3>3 DEF PresentInv, QuietInv, Calm
  <2>3. ASSUME is_initialized, Calm'  PROVE QueueInv' /\ RingInv' /\ SignalInv'
    <3>1. /\ ~lapse /\ ~lapse' /\ Cardinality(swap_images) <= MaxFrames
          /\ QueueInv /\ RingInv /\ SignalInv
      BY <2>1, <2>3 DEF Calm, PresentInv
    <3>2. CASE Record
      <4>1. pc = "record" /\ pc' = "submit"
        BY <3>1, <3>2 DEF Record
      <4> QED
        BY <3>1, <3>2, <4>1, CalmKept DEF Record, display, InHand, Ahead
    <3>3. CASE WaitFence \/ BeginDraw \/ DeviceLost \/ AcquireFails \/ BeginResize \/ BeginShutdown
      BY <3>1, <3>3, CalmKept DEF WaitFence, BeginDraw, DeviceLost, AcquireFails, BeginResize, BeginShutdown, At, gpu,
        display, InHand, Ahead
    <3>4. CASE Recreate
      BY <3>1, <3>4, CalmKept DEF Recreate, At, gpu, display, InHand, Ahead
    <3>5. CASE WindowChanges \/ UNCHANGED vars
      BY <3>1, <3>5, CalmKept DEF WindowChanges, vars, gpu, display, InHand, Ahead
    <3>6. CASE Acquire
      BY <1>1, <3>1, <3>6, CalmAcquire
    <3>7. CASE Submit
      BY <1>1, <3>1, <3>7, CalmSubmit
    <3>8. CASE Present
      BY <1>1, <3>1, <3>8, CalmPresent
    <3>9. CASE Advance
      BY <1>1, <3>1, <3>9, CalmAdvance
    <3>10. CASE Display
      BY <1>1, <3>1, <3>10, CalmDisplay
    <3>11. ASSUME NEW g \in Frames, GpuCompletes(g)  PROVE QueueInv' /\ RingInv' /\ SignalInv'
      BY <1>1, <3>1, <3>11, CalmCompletes
    <3> QED
      BY <1>4, <3>2, <3>3, <3>4, <3>5, <3>6, <3>7, <3>8, <3>9, <3>10, <3>11 DEF Next, DrawSteps
  <2> QED
    BY <2>1, <2>2, <2>3 DEF PresentInv, QuietInv
<1> QED
  BY <1>2, <1>3, <1>4

\* With no more images than frames in flight, the queue of the presentation
\* engine holds the last frames around the ring and never the one that is
\* submitted: a render_finished semaphore is signalled again only after its last
\* signal has been consumed, for any number of frames and images.
THEOREM SignalsCorrect == Spec => []SignalsConsumed
<1>1. Init => PresentInv
  BY DEF Init, PresentInv, QuietInv, Calm
<1>2. PresentInv => SignalsConsumed
  BY DEF PresentInv, QuietInv, Calm, SignalInv, SignalsConsumed
<1> QED
  BY <1>1, <1>2, PresentKept, IndCorrect, PTL DEF Spec
=============================================================================
