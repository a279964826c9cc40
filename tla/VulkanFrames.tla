---------------------------- MODULE VulkanFrames ----------------------------
(***************************************************************************)
(* The renderer of sdk/src/vulkan_renderer.c, driven by one thread, with   *)
(* the GPU, the presentation engine and the window behind it.              *)
(* nacl_vulkan_init creates its objects in stages, each of which can fail  *)
(* and leaves what the earlier ones created; draw_frame runs through a     *)
(* ring of MaxFrames frames in flight, each with a fence, two binary       *)
(* semaphores and a command buffer.  A second init of a renderer that is   *)
(* initialised, which would only overwrite its handles, is left out.       *)
(***************************************************************************)
EXTENDS Integers, FiniteSets, Sequences

CONSTANTS
  MaxFrames,  \* VULKAN_MAX_FRAMES_IN_FLIGHT
  Images,     \* images a swapchain can have
  Swapchains, \* the sets of images the driver may choose for one
  NoImage,
  MaxInits    \* bound: calls of nacl_vulkan_init

ASSUME FramesAssumption == MaxFrames \in Nat \ {0}
ASSUME ImagesAssumption == NoImage \notin Images /\ IsFiniteSet(Images)
ASSUME SwapchainsAssumption ==
  Swapchains \subseteq {S \in SUBSET Images : Cardinality(S) >= 2}
ASSUME InitsAssumption  == MaxInits \in Nat

Frames == 0 .. MaxFrames - 1

\* what the handles in NaclVulkanRenderer refer to, and the two shader modules
Objects == {"instance", "surface", "device", "swapchain", "views", "render_pass",
            "shaders", "layout", "pipeline", "framebuffers", "buffer", "memory",
            "pool", "sync"}

Stages == {"instance", "surface", "gpu", "device", "swapchain", "render_pass", "layout",
           "pipeline", "framebuffers", "buffer", "memory", "pool", "commands", "sync"}

VARIABLES
  pc,              \* where the caller's thread is
  inits,           \* calls of nacl_vulkan_init
  is_initialized,
  live,            \* objects a handle refers to
  leaked,          \* an init has overwritten the handle of an object
  failed,          \* history: the last init has failed
  current_frame,
  fence,           \* in_flight_fences: signalled
  available,       \* image_available_semaphores: a signal nobody has waited for
  finished,        \* render_finished_semaphores: the same
  submitted,       \* frames the GPU has not completed
  image,           \* image_idx of the call in progress
  owned,           \* images acquired and not presented
  presents,        \* the presentation engine's queue of <<frame, image>>
  shown,           \* the image on the screen
  swap_images,     \* the images of the swapchain
  out_of_date,     \* the window has changed since the swapchain was created
  lapse            \* history: a frame was given up after its fence was reset, its
                   \* present failed, or a signal was given twice

setup   == <<inits, is_initialized, live, leaked, failed>>
gpu     == <<fence, available, finished, submitted>>
display == <<owned, presents, shown, swap_images, out_of_date>>
vars    == <<pc, setup, current_frame, gpu, image, display, lapse>>

TypeOK ==
  /\ pc \in {"idle", "wait", "acquire", "record", "submit", "present", "advance",
             "resize", "resize_last", "closing"} \cup Stages
  /\ inits \in 0 .. MaxInits
  /\ is_initialized \in BOOLEAN
  /\ live \in SUBSET Objects
  /\ leaked \in BOOLEAN
  /\ failed \in BOOLEAN
  /\ current_frame \in Frames
  /\ fence \in [Frames -> BOOLEAN]
  /\ available \in [Frames -> BOOLEAN]
  /\ finished \in [Frames -> BOOLEAN]
  /\ submitted \in SUBSET Frames
  /\ image \in Images \cup {NoImage}
  /\ owned \in SUBSET Images
  /\ presents \in Seq(Frames \X Images)
  /\ shown \in Images \cup {NoImage}
  /\ swap_images \in SUBSET Images
  /\ out_of_date \in BOOLEAN
  /\ lapse \in BOOLEAN

\* nacl_vulkan_alloc: everything is zero
Init ==
  /\ pc = "idle" /\ inits = 0
  /\ is_initialized = FALSE
  /\ live = {} /\ leaked = FALSE /\ failed = FALSE
  /\ current_frame = 0
  /\ fence = [f \in Frames |-> FALSE]
  /\ available = [f \in Frames |-> FALSE]
  /\ finished = [f \in Frames |-> FALSE]
  /\ submitted = {}
  /\ image = NoImage /\ owned = {} /\ presents = <<>> /\ shown = NoImage
  /\ swap_images = {} /\ out_of_date = FALSE
  /\ lapse = FALSE

-----------------------------------------------------------------------------
(* nacl_vulkan_init *)

\* new handles overwrite what the last failed call left in them
Hold(new) ==
  /\ live' = live \cup new
  /\ leaked' = (leaked \/ live \cap new # {})

\* Objects whose creation is not checked: all handles are new, whatever there is
\* behind them.  One that could be created in part counts as created.
HoldUnchecked(new, unchecked) ==
  /\ \E made \in SUBSET unchecked : live' = (live \ unchecked) \cup new \cup made
  /\ leaked' = (leaked \/ live \cap (new \cup unchecked) # {})

GiveUp ==
  /\ pc' = "idle"
  /\ failed' = TRUE

\* a stage creates its objects, or fails and the call returns
Stage(here, next, new) ==
  /\ pc = here
  /\ \/ /\ pc' = next
        /\ Hold(new)
        /\ UNCHANGED failed
     \/ /\ GiveUp
        /\ UNCHANGED <<live, leaked>>
  /\ UNCHANGED <<inits, is_initialized, current_frame, image, lapse>>

BeginInit ==
  /\ pc = "idle" /\ ~is_initialized /\ inits < MaxInits
  /\ pc' = "instance"
  /\ inits' = inits + 1
  /\ failed' = FALSE
  /\ UNCHANGED <<is_initialized, live, leaked, current_frame, gpu, image, display, lapse>>

CreateInstance == Stage("instance", "surface", {"instance"}) /\ UNCHANGED <<gpu, display>>

CreateSurface == Stage("surface", "gpu", {"surface"}) /\ UNCHANGED <<gpu, display>>

\* the first GPU is taken; there may be none
PickDevice == Stage("gpu", "device", {}) /\ UNCHANGED <<gpu, display>>

\* fails without a graphics and a presentation queue, or in vkCreateDevice
CreateDevice == Stage("device", "swapchain", {"device"}) /\ UNCHANGED <<gpu, display>>

\* the driver decides how many images there are, two at least; the views'
\* results are not looked at
CreateSwapchain ==
  /\ pc = "swapchain"
  /\ \/ /\ pc' = "render_pass"
        /\ HoldUnchecked({"swapchain"}, {"views"})
        /\ swap_images' \in Swapchains
        /\ owned' = {} /\ presents' = <<>> /\ shown' = NoImage
        /\ out_of_date' = FALSE
        /\ UNCHANGED failed
     \/ GiveUp /\ UNCHANGED <<live, leaked, display>>
  /\ UNCHANGED <<inits, is_initialized, current_frame, gpu, image, lapse>>

CreateRenderPass == Stage("render_pass", "layout", {"render_pass"}) /\ UNCHANGED <<gpu, display>>

\* a shader module that could not be created is a null handle, and the stage
\* goes on; the others exist whether or not the layout is created
CreateLayout ==
  /\ pc = "layout"
  /\ \/ pc' = "pipeline" /\ HoldUnchecked({"layout"}, {"shaders"}) /\ UNCHANGED failed
     \/ GiveUp /\ HoldUnchecked({}, {"shaders"})
  /\ UNCHANGED <<inits, is_initialized, current_frame, gpu, image, display, lapse>>

\* the shader modules are destroyed only after the pipeline has been compiled;
\* whether null ones make a pipeline is up to the driver
CreatePipeline ==
  /\ pc = "pipeline"
  /\ \/ /\ pc' = "framebuffers"
        /\ live' = (live \cup {"pipeline"}) \ {"shaders"}
        /\ leaked' = (leaked \/ "pipeline" \in live)
        /\ UNCHANGED failed
     \/ GiveUp /\ UNCHANGED <<live, leaked>>
  /\ UNCHANGED <<inits, is_initialized, current_frame, gpu, image, display, lapse>>

\* the results are not looked at
CreateFramebuffers ==
  /\ pc = "framebuffers"
  /\ pc' = "buffer"
  /\ HoldUnchecked({}, {"framebuffers"})
  /\ UNCHANGED <<inits, is_initialized, failed, current_frame, gpu, image, display, lapse>>

CreateVertexBuffer == Stage("buffer", "memory", {"buffer"}) /\ UNCHANGED <<gpu, display>>

AllocateMemory == Stage("memory", "pool", {"memory"}) /\ UNCHANGED <<gpu, display>>

CreateCommandPool == Stage("pool", "commands", {"pool"}) /\ UNCHANGED <<gpu, display>>

\* the command buffers belong to the pool
AllocateCommands == Stage("commands", "sync", {}) /\ UNCHANGED <<gpu, display>>

\* fences start signalled; a failure may come after some were created
CreateSync ==
  /\ pc = "sync"
  /\ \/ /\ pc' = "idle"
        /\ Hold({"sync"})
        /\ is_initialized' = TRUE
        /\ fence' = [f \in Frames |-> TRUE]
        /\ available' = [f \in Frames |-> FALSE]
        /\ finished' = [f \in Frames |-> FALSE]
        /\ submitted' = {}
        /\ lapse' = FALSE
        /\ UNCHANGED failed
     \/ /\ GiveUp
        /\ Hold({"sync"}) \/ UNCHANGED <<live, leaked>>
        /\ UNCHANGED <<is_initialized, gpu, lapse>>
  /\ UNCHANGED <<inits, current_frame, image, display>>

-----------------------------------------------------------------------------
(* nacl_vulkan_draw_frame *)

At(here, next) == pc = here /\ pc' = next

BeginDraw ==
  /\ At("idle", "wait")
  /\ is_initialized
  /\ UNCHANGED <<setup, current_frame, gpu, image, display, lapse>>

\* mutant: the wait is dropped
WaitSkipped ==
  /\ At("wait", "acquire")
  /\ UNCHANGED <<setup, current_frame, gpu, image, display, lapse>>

\* mutant: the fence is reset here, before the acquire that can return early
WaitAndReset ==
  /\ At("wait", "acquire")
  /\ fence[current_frame]
  /\ fence' = [fence EXCEPT ![current_frame] = FALSE]
  /\ UNCHANGED <<setup, current_frame, available, finished, submitted, image, display, lapse>>

\* the device is lost: the result of the wait is not looked at, and the acquire
\* behind it fails
DeviceLost ==
  /\ At("wait", "idle")
  /\ UNCHANGED <<setup, current_frame, gpu, image, display, lapse>>

\* vkWaitForFences without a time limit
WaitFence ==
  /\ At("wait", "acquire")
  /\ fence[current_frame]
  /\ UNCHANGED <<setup, current_frame, gpu, image, display, lapse>>

Spare == swap_images \ (owned \cup {presents[n][2] : n \in DOMAIN presents} \cup {shown})

\* vkAcquireNextImageKHR, without a time limit.  A swapchain that does not fit
\* the window is reported; a suboptimal one counts as success.
Acquire ==
  /\ pc = "acquire"
  /\ \/ /\ out_of_date
        /\ pc' = "resize"
        /\ UNCHANGED <<available, image, owned>>
     \/ /\ ~out_of_date
        /\ \E i \in Spare : image' = i /\ owned' = owned \cup {i}
        /\ available' = [available EXCEPT ![current_frame] = TRUE]
        /\ pc' = "record"
  /\ UNCHANGED <<setup, current_frame, fence, finished, submitted, presents, shown,
                 swap_images, out_of_date, lapse>>

\* any other error returns with the fence still signalled
AcquireFails ==
  /\ At("acquire", "idle")
  /\ UNCHANGED <<setup, current_frame, gpu, image, display, lapse>>

\* the fence is reset before the commands are recorded, which can fail
Record ==
  /\ pc = "record"
  /\ fence' = [fence EXCEPT ![current_frame] = FALSE]
  /\ \/ pc' = "submit" /\ UNCHANGED lapse
     \/ pc' = "idle" /\ lapse' = TRUE
  /\ UNCHANGED <<setup, current_frame, available, finished, submitted, image, display>>

Submit ==
  /\ pc = "submit"
  /\ \/ /\ pc' = "present"
        /\ submitted' = submitted \cup {current_frame}
        /\ UNCHANGED lapse
     \/ /\ pc' = "idle" /\ lapse' = TRUE
        /\ UNCHANGED submitted
  /\ UNCHANGED <<setup, current_frame, fence, available, finished, image, display>>

\* The present is queued even when it reports a swapchain that does not fit.
\* Any other error is not looked at; the image stays acquired.
Present ==
  /\ pc = "present"
  /\ \/ /\ presents' = Append(presents, <<current_frame, image>>)
        /\ owned' = owned \ {image}
        /\ \/ pc' = "resize_last"
           \/ ~out_of_date /\ pc' = "advance"
        /\ UNCHANGED lapse
     \/ /\ pc' = "advance" /\ lapse' = TRUE
        /\ UNCHANGED <<presents, owned>>
  /\ UNCHANGED <<setup, current_frame, gpu, image, shown, swap_images, out_of_date>>

\* nacl_vulkan_recreate_swapchain: it waits and creates nothing
Recreate ==
  /\ \/ At("resize", "idle")
     \/ At("resize_last", "advance")
  /\ submitted = {}
  /\ UNCHANGED <<setup, current_frame, gpu, image, display, lapse>>

\* mutant: the same frame again
AdvanceNowhere ==
  /\ At("advance", "idle")
  /\ UNCHANGED <<setup, current_frame, gpu, image, display, lapse>>

Advance ==
  /\ At("advance", "idle")
  /\ current_frame' = (current_frame + 1) % MaxFrames
  /\ UNCHANGED <<setup, gpu, image, display, lapse>>

-----------------------------------------------------------------------------
(* other calls, and what is behind the driver *)

\* nacl_vulkan_recreate_swapchain called by the user of the renderer
BeginResize ==
  /\ At("idle", "resize")
  /\ is_initialized
  /\ UNCHANGED <<setup, current_frame, gpu, image, display, lapse>>

BeginShutdown ==
  /\ At("idle", "closing")
  /\ is_initialized
  /\ UNCHANGED <<setup, current_frame, gpu, image, display, lapse>>

\* mutant: the memory behind the vertex buffer is forgotten
DestroyedButMemory == {"sync", "pool", "buffer", "framebuffers", "views", "pipeline",
              "layout", "render_pass", "swapchain", "device", "surface", "instance"}

\* what nacl_vulkan_shutdown passes to vkDestroy*, vkFree* and free
Destroyed == {"sync", "pool", "buffer", "memory", "framebuffers", "views", "pipeline",
              "layout", "render_pass", "swapchain", "device", "surface", "instance"}

\* current_frame keeps its value
Shutdown ==
  /\ At("closing", "idle")
  /\ submitted = {}
  /\ live' = live \ Destroyed
  /\ is_initialized' = FALSE
  /\ owned' = {} /\ presents' = <<>> /\ shown' = NoImage /\ swap_images' = {}
  /\ UNCHANGED <<inits, leaked, failed, current_frame, gpu, image, out_of_date, lapse>>

\* A frame runs once its image is available.  In which order frames complete
\* is not relied upon.  A binary semaphore signalled twice counts once.
GpuCompletes(f) ==
  /\ f \in submitted /\ available[f]
  /\ submitted' = submitted \ {f}
  /\ available' = [available EXCEPT ![f] = FALSE]
  /\ finished' = [finished EXCEPT ![f] = TRUE]
  /\ fence' = [fence EXCEPT ![f] = TRUE]
  /\ lapse' = (lapse \/ finished[f])
  /\ UNCHANGED <<pc, setup, current_frame, image, display>>

\* VK_PRESENT_MODE_FIFO_KHR: in the order of the calls, one image at a time
Display ==
  /\ presents # <<>>
  /\ LET next == Head(presents)
     IN  /\ finished[next[1]]
         /\ finished' = [finished EXCEPT ![next[1]] = FALSE]
         /\ shown' = next[2]
  /\ presents' = Tail(presents)
  /\ UNCHANGED <<pc, setup, current_frame, fence, available, submitted, image, owned,
                 swap_images, out_of_date, lapse>>

WindowChanges ==
  /\ is_initialized /\ ~out_of_date
  /\ out_of_date' = TRUE
  /\ UNCHANGED <<pc, setup, current_frame, gpu, image, owned, presents, shown, swap_images, lapse>>

-----------------------------------------------------------------------------
InitSteps ==
  \/ BeginInit \/ CreateInstance \/ CreateSurface \/ PickDevice \/ CreateDevice
  \/ CreateSwapchain \/ CreateRenderPass \/ CreateLayout \/ CreatePipeline
  \/ CreateFramebuffers \/ CreateVertexBuffer \/ AllocateMemory \/ CreateCommandPool
  \/ AllocateCommands \/ CreateSync

\* the steps of a call once it has been made
DrawSteps ==
  \/ WaitFence \/ Acquire \/ Record \/ Submit \/ Present \/ Recreate \/ Advance \/ Shutdown

Next ==
  \/ InitSteps
  \/ BeginDraw \/ DeviceLost \/ AcquireFails \/ BeginResize \/ BeginShutdown
  \/ DrawSteps
  \/ \E f \in Frames : GpuCompletes(f)
  \/ Display
  \/ WindowChanges

Spec == Init /\ [][Next]_vars

\* The thread goes on inside a call; the GPU and the presentation engine work.
\* Nobody has to make a call, the window need not change, the driver need not
\* fail, nor be lost, while a call waits.
FairSpec ==
  /\ Spec
  /\ WF_vars(DrawSteps)
  /\ \A f \in Frames : WF_vars(GpuCompletes(f))
  /\ WF_vars(Display)
-----------------------------------------------------------------------------
(* properties *)

\* A renderer that is initialised has all that init checks the creation of: only
\* image views and framebuffers may be missing, and no shader module is left.
\* After its shutdown nothing is left, whatever earlier inits had failed; only an
\* init after a failed one loses objects.
ObjectsAccounted ==
  /\ is_initialized => /\ Objects \ {"shaders", "views", "framebuffers"} \subseteq live
                       /\ "shaders" \notin live
  /\ (pc = "idle" /\ ~is_initialized /\ ~failed) => live = {}
  /\ leaked => inits >= 2

\* While a draw works on its frame the GPU does not: neither the command buffer
\* nor the fence is reset under it, and the semaphore given to the acquire has
\* no signal left.
FrameExclusive ==
  /\ pc \in {"acquire", "record", "submit"} => current_frame \notin submitted
  /\ pc = "acquire" => ~available[current_frame]

\* With no more images than frames in flight, and as long as no frame was given
\* up, the GPU never signals a render_finished semaphore whose last signal the
\* presentation engine has not consumed.
SignalsConsumed ==
  (~lapse /\ Cardinality(swap_images) <= MaxFrames) =>
    \A f \in submitted : ~finished[f]

\* A draw returns unless a frame was given up after its fence had been reset, a
\* present failed or a signal was lost: neither resizes nor failed acquires block
\* a later draw.
DrawReturns == (pc = "wait" /\ ~lapse) ~> (pc = "idle" \/ lapse)
=============================================================================
