------------------------------ MODULE TestSetup ------------------------------
(***************************************************************************)
(* The Vulkan side of one test: src/framework/test/t_phase_setup.c, which  *)
(* chooses the queue and creates the objects every test finds, the start   *)
(* function's own objects (src/qonos/qonos.c), and what t_phases.c does to *)
(* all of them before and in the cleanup phase.  The cleanup stacks are    *)
(* those of CleanupStack, one per thread; the threads' own protocol is the *)
(* subject of TestThreads, and here at most two of them take turns.        *)
(***************************************************************************)
EXTENDS CleanupStack, SequencesExt, TestEnums

CONSTANTS
    Tests,      \* [def, opt, device] records, see Test
    UserObjects,\* the Create steps that a start function may take
    CmdPoolOf   \* the names of the command pools, one for each family

Flag == {"graphics", "compute", "transfer", "sparse"}

(* The parts of a test_def_t, of struct test::opt and of the physical       *)
(* devices that setup looks at: families are those of device opt.device_id, *)
(* first_families those of the device that is enumerated first.             *)
Family == [flags: SUBSET Flag, count: Nat \ {0}]
Test ==
    [def: [no_image: BOOLEAN, depthstencil: BOOLEAN, ref_stencil: BOOLEAN,
           queue_setup: {"gfx_and_compute", "graphics", "compute", "transfer"},
           needs_feature: BOOLEAN],
     opt: [bootstrap: BOOLEAN, no_cleanup: BOOLEAN, run_all_queues: BOOLEAN,
           queue_num: Nat, device_id: Nat \ {0}],
     device: [count: Nat, debug_report: BOOLEAN, has_feature: BOOLEAN,
              families: Seq(Family), first_families: Seq(Family)]]

(* A test with a reference stencil image has a depthstencil format, as      *)
(* include/tapi/t_def.h asks; the families of the first device are those of *)
(* the first device.                                                        *)
ASSUME TestAssumption ==
    /\ Tests \subseteq Test
    /\ \A t \in Tests :
          /\ t.def.ref_stencil => t.def.depthstencil
          /\ t.opt.device_id = 1 => t.device.first_families = t.device.families
          /\ Len(t.device.families) <= Len(CmdPoolOf)

(* The names stand for themselves: those of what setup and the comparison   *)
(* make, of the command pools, and of what start functions make differ.     *)
SetupObject ==
    {"ref_image", "ref_stencil_image", "instance_extension_props", "instance",
     "debug_callback", "queue_family_props", "device_extension_props", "device",
     "descriptor_pool", "color_image", "color_image_view", "color_pass", "ds_image",
     "depthstencil_image_view", "color_depth_pass", "framebuffer", "queue",
     "queue_family", "pipeline_cache", "cmd_pool", "cmd_buffer"}
ImageMemory == {"color_mem", "ds_mem"}
ActualObject == {"actual_image", "actual_stencil_image"}

ASSUME NameAssumption ==
    /\ CmdPoolOf \in Seq(STRING)
    /\ \A f \in DOMAIN CmdPoolOf :
          /\ CmdPoolOf[f] \notin SetupObject \cup ActualObject
          /\ \A g \in DOMAIN CmdPoolOf : CmdPoolOf[f] = CmdPoolOf[g] => f = g
    /\ \A s \in UserObjects :
          /\ s.object \in STRING \ (SetupObject \cup ActualObject \cup Range(CmdPoolOf))
          /\ s \in [do: {"create"}, object: {s.object}, kind: Kind, needs: SUBSET STRING]

Thread == {"start", "user"}

VARIABLES
    test,           \* what setup looks at; never changes
    phase,
    result,         \* NoResult while result_is_final is FALSE
    pc,             \* how many steps setup has taken
    running,        \* the threads that run the start function, or setup
    cleanup_stacks, \* the threads in the order of the list t->cleanup_stacks
    stack,          \* each thread's cleanup stack
    live,           \* the objects that exist, with those each was made from
    scratch,        \* arrays of t_setup_vulkan() that are on no stack
    image_memory,   \* the memory of the test's images, which is on no stack either
    chosen,         \* queue_family and queue_in_family, or NoQueue
    queue,          \* t->vk.queue, an entry for each queue; <<>> unless filled
    cmd_pool,       \* t->vk.cmd_pool
    t_queue,        \* "busy" with work of the test, "idle", or "lost": a wait failed
    done            \* per thread, the object on which its last command was run

vars == <<test, phase, result, pc, running, cleanup_stacks, stack, live, scratch,
          image_memory, chosen, queue, cmd_pool, t_queue, done>>
threads == <<running, cleanup_stacks>>
memories == <<scratch, image_memory>>
arrays == <<chosen, queue, cmd_pool>>

-----------------------------------------------------------------------------
(* The steps of setup.  Create: an object and the command that undoes it;   *)
(* needs are the objects it belongs to, those that the command names among  *)
(* them.  Malloc: an array that t_setup_vulkan() frees itself.  Memory: what *)
(* qoAllocImageMemory() allocates, with no command that frees it.  The      *)
(* others only look or fill arrays.                                         *)
Create(object, kind, needs) ==
    [do |-> "create", object |-> object, kind |-> kind, needs |-> needs]
OnDevice(object) == Create(object, "vk_object", {"device"})
Malloc(object) == [do |-> "malloc", object |-> object]
Memory(object) == [do |-> "memory", object |-> object]
Do(what) == [do |-> what, object |-> "none"]

When(cond, steps) == IF cond THEN steps ELSE <<>>

(* t_setup_ref_images().                                                    *)
RefImages(t) ==
    When(~t.opt.bootstrap /\ ~t.def.no_image,
         <<Create("ref_image", "cru_image", {})>>
         \o When(t.def.ref_stencil, <<Create("ref_stencil_image", "cru_image", {})>>))

(* t_setup_framebuffer().                                                   *)
Framebuffer(t) ==
    When(~t.def.no_image,
         <<OnDevice("color_image"), Memory("color_mem"),
           OnDevice("color_image_view"), OnDevice("color_pass")>>
         \o When(t.def.depthstencil,
                 <<OnDevice("ds_image"), Memory("ds_mem"),
                   OnDevice("depthstencil_image_view"), OnDevice("color_depth_pass")>>)
         \o <<OnDevice("framebuffer")>>)

(* t_setup_vulkan() from beginning to end.  A second query of the same list  *)
(* may fail after the array has been pushed, and an image may not be bound  *)
(* to its memory: that is a failure of the next step before it has an       *)
(* effect.                                                                  *)
Steps(t) ==
    RefImages(t)
    \o <<Create("instance_extension_props", "free", {}), Malloc("ext_names"),
         Create("instance", "vk_instance", {})>>
    \o When(t.device.debug_report, <<Create("debug_callback", "debug_cb", {"instance"})>>)
    \o <<Do("phys_dev"), Create("queue_family_props", "free", {}), Do("choose_queue"),
         Create("device_extension_props", "free", {}),
         Malloc("ext_names"), Malloc("qci"), Malloc("priorities"), Do("features"),
         Create("device", "vk_device", {"instance"}), OnDevice("descriptor_pool")>>
    \o Framebuffer(t)
    \o <<Create("queue", "free", {}), Create("queue_family", "free", {}),
         Do("get_queues"), OnDevice("pipeline_cache"), Create("cmd_pool", "free", {})>>
    \o [f \in DOMAIN t.device.families |-> OnDevice(CmdPoolOf[f])]
    \o <<Do("fill_cmd_pools"), Do("cmd_buffer"), Do("begin_cmd_buffer")>>

Step == Steps(test)[pc + 1]
AtStep(what) == phase = SETUP /\ Step.do = what

-----------------------------------------------------------------------------
(* The queues of a device.  They are numbered through all its families: in  *)
(* front of those of one family come all those of the families before it.   *)
Queues(families) ==
    UNION {{[family |-> f, in_family |-> j] : j \in 0 .. families[f].count - 1} :
              f \in DOMAIN families}
QueuesBefore(families, f) == Cardinality({q \in Queues(families) : q.family < f})

NoQueue == [family |-> 0, in_family |-> 0]

(* MUTANT: the comparisons with both ends of the range are off by one.      *)
QueueChoiceOffByOne(families, num) ==
    LET fits == {f \in DOMAIN families :
                    num \in QueuesBefore(families, f) + 1 .. QueuesBefore(families, f + 1)}
        f == Max(fits)
    IN  IF fits = {} THEN NoQueue
        ELSE [family |-> f, in_family |-> num - QueuesBefore(families, f)]

(* The loop over the families: the one that queue number num falls into and *)
(* its place there.                                                         *)
QueueChoice(families, num) ==
    LET fits == {f \in DOMAIN families :
                    num \in QueuesBefore(families, f) .. QueuesBefore(families, f + 1) - 1}
        f == Max(fits)
    IN  IF fits = {} THEN NoQueue
        ELSE [family |-> f, in_family |-> num - QueuesBefore(families, f)]

(* MUTANT: graphics are enough for a test that computes as well.            *)
QueueSkippedLax(t, c) ==
    LET flags == t.device.families[c.family].flags
    IN  \/ c = NoQueue
        \/ ~t.opt.run_all_queues /\ c.in_family # 0
        \/ t.def.queue_setup \in {"gfx_and_compute", "graphics"} /\ "graphics" \notin flags
        \/ t.def.queue_setup = "compute" /\ "compute" \notin flags
        \/ t.def.queue_setup = "transfer" /\ flags \subseteq {"sparse"}

(* Setup ends the test on this queue: transfer is masked out where graphics *)
(* or compute imply it, as all other bits are.                              *)
QueueSkipped(t, c) ==
    LET flags == t.device.families[c.family].flags \ {"sparse"}
        qf == IF flags \cap {"graphics", "compute"} # {} THEN flags \ {"transfer"}
              ELSE flags
    IN  \/ c = NoQueue
        \/ ~t.opt.run_all_queues /\ c.in_family # 0
        \/ t.def.queue_setup = "gfx_and_compute" /\ qf # {"graphics", "compute"}
        \/ t.def.queue_setup = "graphics" /\ "graphics" \notin qf
        \/ t.def.queue_setup = "compute" /\ "compute" \notin qf
        \/ t.def.queue_setup = "transfer" /\ qf = {}

(* The nested loops over the families and the queues of each, which fill    *)
(* the entry of each queue at its number.  Queue number n is at place n + 1.*)
NumberOf(families, q) == QueuesBefore(families, q.family) + q.in_family
PerQueue(families) ==
    [place \in 1 .. Cardinality(Queues(families)) |->
        CHOOSE q \in Queues(families) : NumberOf(families, q) + 1 = place]

(* runner_get_vulkan_queue_count(): the queues of the first device, or no   *)
(* answer.                                                                  *)
RunnerQueueCount(t) == Cardinality(Queues(t.device.first_families))

-----------------------------------------------------------------------------
Init ==
    /\ test \in Tests
    /\ phase = SETUP /\ result = NoResult /\ pc = 0
    /\ running = {"start"} /\ cleanup_stacks = <<"start">>
    /\ stack = [th \in Thread |-> EmptyVec]
    /\ live = <<>> /\ scratch = {} /\ image_memory = {}
    /\ chosen = NoQueue /\ queue = <<>> /\ cmd_pool = <<>>
    /\ t_queue = "idle"
    /\ done = [th \in Thread |-> "none"]

(* t_assert(), t_skipf() or t_end() in setup: the phases up to precleanup   *)
(* are passed through at once, t_enter_main_phase() without the start       *)
(* function.                                                                *)
EndSetup(r) ==
    /\ result' = r
    /\ phase' = PRECLEANUP
    /\ running' = {}
    /\ UNCHANGED <<test, pc, cleanup_stacks, stack, live, image_memory, arrays,
                   t_queue, done>>

NextStep ==
    /\ pc' = pc + 1
    /\ UNCHANGED <<test, result, cleanup_stacks, t_queue, done>>

Made(objects, s) ==
    [o \in DOMAIN objects \cup {s.object} |-> IF o = s.object THEN s.needs ELSE objects[o]]
Pushed(v, s) == PushCommand(v, Command(s.kind, s.object))

(* The new object exists and its command is on the stack of the thread.     *)
Push(th, s) ==
    /\ live' = Made(live, s)
    /\ stack' = [stack EXCEPT ![th] = Pushed(@, s)]

(* The arrays that are freed as soon as the instance, or the device, has    *)
(* been created or not.                                                     *)
ScratchAfter(object) == IF object \in {"instance", "device"} THEN {} ELSE scratch

SetupCreate ==
    /\ AtStep("create")
    /\ Push("start", Step)
    /\ scratch' = ScratchAfter(Step.object)
    /\ NextStep /\ UNCHANGED <<phase, running, image_memory, arrays>>

SetupMalloc ==
    /\ AtStep("malloc")
    /\ scratch' = scratch \cup {Step.object}
    /\ NextStep /\ UNCHANGED <<phase, running, stack, live, image_memory, arrays>>

(* The result of vkAllocateMemory() is looked at by nobody.                 *)
SetupMemory ==
    /\ AtStep("memory")
    /\ image_memory' \in {image_memory, image_memory \cup {Step.object}}
    /\ NextStep /\ UNCHANGED <<phase, running, stack, live, scratch, arrays>>

(* MUTANT: the arrays are freed after the assertion on the result.          *)
SetupFailsHolding ==
    /\ phase = SETUP
    /\ Step.do \in {"create", "malloc", "memory", "cmd_buffer", "begin_cmd_buffer"}
    /\ scratch' = scratch
    /\ EndSetup(FAIL)

(* The step returns an error or NULL, or finds no memory type for an image, *)
(* and t_assert() or t_failf() ends the test.                               *)
SetupFails ==
    /\ phase = SETUP
    /\ Step.do \in {"create", "malloc", "memory", "cmd_buffer", "begin_cmd_buffer"}
    /\ scratch' = ScratchAfter(Step.object)
    /\ EndSetup(FAIL)

(* t_setup_phys_dev().                                                      *)
PhysDev ==
    /\ AtStep("phys_dev")
    /\ IF test.opt.device_id > test.device.count
       THEN EndSetup(FAIL) /\ UNCHANGED scratch
       ELSE /\ NextStep
            /\ UNCHANGED <<phase, running, stack, live, scratch, image_memory, arrays>>

ChooseQueue ==
    /\ AtStep("choose_queue")
    /\ LET c == QueueChoice(test.device.families, test.opt.queue_num)
       IN  IF QueueSkipped(test, c)
           THEN EndSetup(SKIP) /\ UNCHANGED scratch
           ELSE /\ chosen' = c
                /\ NextStep
                /\ UNCHANGED <<phase, running, stack, live, scratch, image_memory,
                               queue, cmd_pool>>

(* t_skipf() leaves the three arrays behind.                                *)
Features ==
    /\ AtStep("features")
    /\ IF test.def.needs_feature /\ ~test.device.has_feature
       THEN EndSetup(SKIP) /\ UNCHANGED scratch
       ELSE /\ NextStep
            /\ UNCHANGED <<phase, running, stack, live, scratch, image_memory, arrays>>

GetQueues ==
    /\ AtStep("get_queues")
    /\ queue' = PerQueue(test.device.families)
    /\ NextStep
    /\ UNCHANGED <<phase, running, stack, live, scratch, image_memory, chosen,
                   cmd_pool>>

FillCmdPools ==
    /\ AtStep("fill_cmd_pools")
    /\ cmd_pool' = [place \in DOMAIN PerQueue(test.device.families) |->
                      PerQueue(test.device.families)[place].family]
    /\ NextStep
    /\ UNCHANGED <<phase, running, stack, live, scratch, image_memory, chosen,
                   queue>>

(* t_cmd_pool is the entry of the queue that the test runs on.              *)
TCmdPool == CmdPoolOf[cmd_pool[test.opt.queue_num + 1]]

AllocateCommandBuffer ==
    /\ AtStep("cmd_buffer")
    /\ Push("start", Create("cmd_buffer", "vk_pooled", {"device", TCmdPool}))
    /\ NextStep /\ UNCHANGED <<phase, running, scratch, image_memory, arrays>>

BeginCommandBuffer ==
    /\ AtStep("begin_cmd_buffer")
    /\ phase' = MAIN
    /\ NextStep /\ UNCHANGED <<running, stack, live, scratch, image_memory, arrays>>

-----------------------------------------------------------------------------
(* The start function, on the threads it has.                               *)

(* MUTANT: the stack of a new thread goes to the end of the list.           *)
UserStartThreadLast ==
    /\ phase = MAIN
    /\ cleanup_stacks = <<"start">>
    /\ "start" \in running
    /\ running' = running \cup {"user"}
    /\ cleanup_stacks' = cleanup_stacks \o <<"user">>
    /\ UNCHANGED <<test, phase, result, pc, stack, live, memories, arrays, t_queue,
                   done>>

(* t_thread_start(); at most one thread more.                               *)
UserStartThread ==
    /\ phase = MAIN
    /\ cleanup_stacks = <<"start">>
    /\ "start" \in running
    /\ running' = running \cup {"user"}
    /\ cleanup_stacks' = <<"user">> \o cleanup_stacks
    /\ UNCHANGED <<test, phase, result, pc, stack, live, memories, arrays, t_queue,
                   done>>

(* One of the qoCreate...() functions.  A thread uses what setup made and   *)
(* what it has made itself.                                                 *)
OwnObjects(th) == OnStack(stack["start"]) \cup OnStack(stack[th])
UserCreate(th) ==
    /\ phase = MAIN /\ th \in running
    /\ \E s \in UserObjects :
          /\ s.object \notin DOMAIN live
          /\ s.needs \subseteq OwnObjects(th)
          /\ Push(th, s)
    /\ UNCHANGED <<test, phase, result, pc, threads, memories, arrays, t_queue, done>>

(* qoQueueSubmit() on t_queue.                                              *)
UserSubmit ==
    /\ phase = MAIN /\ running # {}
    /\ t_queue' = "busy"
    /\ UNCHANGED <<test, phase, result, pc, threads, stack, live, memories, arrays, done>>

(* A thread returns from its function, or ends the test with a result; the  *)
(* last one enters the precleanup phase.                                    *)
UserEnd(th) ==
    /\ phase = MAIN /\ th \in running
    /\ running' = running \ {th}
    /\ \/ UNCHANGED result
       \/ /\ result = NoResult
          /\ result' \in {PASS, SKIP, FAIL}
    /\ phase' = IF running' = {} THEN PRECLEANUP ELSE MAIN
    /\ UNCHANGED <<test, pc, cleanup_stacks, stack, live, memories, arrays, t_queue,
                   done>>

-----------------------------------------------------------------------------
(* The images that t_compare_image() makes of the test's own.               *)
ActualImage == Create("actual_image", "cru_image", {"device", "color_image"})
ActualStencilImage == Create("actual_stencil_image", "cru_image", {"device", "ds_image"})

(* t_compare_image() on the thread that is left: none, the first or both of *)
(* the images can be made, and the result is FAIL if one cannot, or if one  *)
(* differs.  Whether a stencil image can be read at all is up to the device.*)
CompareImage(th) ==
    \/ UNCHANGED <<stack, live>> /\ result' = FAIL
    \/ Push(th, ActualImage) /\ result' \in {result, FAIL}
    \/ /\ test.def.ref_stencil
       /\ stack' = [stack EXCEPT ![th] = Pushed(Pushed(@, ActualImage), ActualStencilImage)]
       /\ live' = Made(Made(live, ActualImage), ActualStencilImage)
       /\ result' \in {result, FAIL}

(* MUTANT: only a test that goes on to compare waits.                       *)
PrecleanupHurried ==
    /\ phase = PRECLEANUP
    /\ phase' = CLEANUP
    /\ IF result = NoResult /\ ~test.def.no_image
       THEN t_queue' = "idle" /\ \E th \in Range(cleanup_stacks) : CompareImage(th)
       ELSE UNCHANGED <<t_queue, result, stack, live>>
    /\ UNCHANGED <<test, pc, threads, memories, arrays, done>>

(* t_enter_precleanup_phase() with a queue array that is not yet filled:    *)
(* the wait is on VK_NULL_HANDLE, and the process dies.                     *)
WaitsOnNull == "queue" \in DOMAIN live /\ queue = <<>>

(* t_enter_precleanup_phase(): wait for t_queue, then compare the image of  *)
(* a test that has not chosen its result.                                   *)
Precleanup ==
    /\ phase = PRECLEANUP /\ ~WaitsOnNull
    /\ phase' = CLEANUP
    /\ t_queue' = IF "queue" \in DOMAIN live THEN "idle" ELSE t_queue
    /\ IF result = NoResult /\ ~test.def.no_image
       THEN \E th \in Range(cleanup_stacks) : CompareImage(th)
       ELSE UNCHANGED <<result, stack, live>>
    /\ UNCHANGED <<test, pc, threads, memories, arrays, done>>

(* The wait fails: t_assert() ends the test without a comparison, and turns *)
(* it into a failure if it had no result yet.                               *)
WaitFails ==
    /\ phase = PRECLEANUP /\ "queue" \in DOMAIN live /\ ~WaitsOnNull
    /\ phase' = CLEANUP
    /\ t_queue' = "lost"
    /\ result' = IF result = NoResult THEN FAIL ELSE result
    /\ UNCHANGED <<test, pc, threads, stack, live, memories, arrays, done>>

(* t_unwind_cleanup_stacks(): the next command of the first stack.          *)
Unwind ==
    /\ phase = CLEANUP
    /\ cleanup_stacks # <<>>
    /\ LET th == Head(cleanup_stacks)
           object == PoppedObject(stack[th])
       IN  /\ stack[th].len > 0
           /\ stack' = [stack EXCEPT ![th] = PopCommand(@)]
           /\ IF test.opt.no_cleanup
              THEN UNCHANGED <<live, done>>
              ELSE /\ live' = Restrict(live, DOMAIN live \ {object})
                   /\ done' = [done EXCEPT ![th] = object]
    /\ UNCHANGED <<test, phase, result, pc, threads, memories, arrays, t_queue>>

(* cru_cleanup_release() of a stack that is empty.                          *)
ReleaseStack ==
    /\ phase = CLEANUP
    /\ cleanup_stacks # <<>> /\ stack[Head(cleanup_stacks)].len = 0
    /\ cleanup_stacks' = Tail(cleanup_stacks)
    /\ UNCHANGED <<test, phase, result, pc, running, stack, live, memories, arrays,
                   t_queue, done>>

(* t_enter_stopped_phase(); test_create_s() has preset the result.          *)
Stop ==
    /\ phase = CLEANUP /\ cleanup_stacks = <<>>
    /\ phase' = STOPPED
    /\ result' = IF result = NoResult THEN PASS ELSE result
    /\ UNCHANGED <<test, pc, threads, stack, live, memories, arrays, t_queue, done>>

(* Nothing happens to a test that has stopped, or to a process that died.   *)
Ended ==
    /\ \/ phase = STOPPED
       \/ phase = PRECLEANUP /\ WaitsOnNull
    /\ UNCHANGED vars

Next ==
    \/ SetupCreate \/ SetupMalloc \/ SetupMemory \/ SetupFails
    \/ PhysDev \/ ChooseQueue \/ Features
    \/ GetQueues \/ FillCmdPools \/ AllocateCommandBuffer \/ BeginCommandBuffer
    \/ UserStartThread \/ UserSubmit
    \/ \E th \in Thread : UserCreate(th) \/ UserEnd(th)
    \/ Precleanup \/ WaitFails \/ Unwind \/ ReleaseStack \/ Stop \/ Ended

Spec == Init /\ [][Next]_vars

-----------------------------------------------------------------------------
(* Every variable keeps its type; in particular the bytes on a stack are    *)
(* always whole commands, each followed by the header that sizes it.        *)
TypeOK ==
    /\ test \in Tests
    /\ phase \in Phase /\ result \in Result \cup {NoResult}
    /\ pc \in 0 .. Len(Steps(test))
    /\ running \subseteq Thread
    /\ cleanup_stacks \in {<<>>, <<"start">>, <<"user", "start">>}
    /\ \A th \in Thread : WellFormed(stack[th])
    /\ scratch \subseteq {"ext_names", "qci", "priorities"}
    /\ image_memory \subseteq ImageMemory
    /\ t_queue \in {"idle", "busy", "lost"}

(* Whatever step fails and whichever thread made what, an object never      *)
(* outlives one that it was made from: the device goes after everything on  *)
(* it that has a command of its own, the instance after the device and the  *)
(* debug callback, a command pool after its command buffers.  The memory of *)
(* the test's images has no command: it is left when the device goes.       *)
ParentsOutlive == \A o \in DOMAIN live : live[o] \subseteq DOMAIN live

(* Nothing is destroyed while the work that the test submitted to t_queue   *)
(* may still use it, be it that the test passed, failed or was skipped half *)
(* way: the queue has been waited for, unless that wait itself failed.      *)
IdleAtTeardown == [][DOMAIN live' \subseteq DOMAIN live /\ live' # live => t_queue # "busy"]_vars

(* When the test has stopped, every object that setup, the start function   *)
(* and the comparison pushed a command for is gone, however far each came,  *)
(* unless --no-cleanup was given.  The arrays that t_setup_vulkan() frees   *)
(* by itself are gone too, unless allocating one of them failed or a        *)
(* feature is missing.  The memory of the test's images is not among them:  *)
(* see image_memory.                                                        *)
AllDestroyed ==
    phase = STOPPED =>
        /\ ~test.opt.no_cleanup => DOMAIN live = {}
        /\ scratch # {} => Step.do \in {"malloc", "features"}

(* The queue a test is run on is the one that its number stands for, in     *)
(* the arrays as in the choice; it can do what the definition asks for, it  *)
(* is the first of its family unless all are wanted, and the command buffer *)
(* of the test comes from a pool of that same family.                       *)
QueueFits ==
    phase = MAIN =>
        LET flags == test.device.families[chosen.family].flags
            asked == test.def.queue_setup
        IN  /\ queue[test.opt.queue_num + 1] = chosen
            /\ TCmdPool = CmdPoolOf[chosen.family]
            /\ chosen.in_family = 0 \/ test.opt.run_all_queues
            /\ asked \in {"gfx_and_compute", "graphics"} => "graphics" \in flags
            /\ asked \in {"gfx_and_compute", "compute"} => "compute" \in flags
            /\ asked = "transfer" => flags # {"sparse"} /\ flags # {}

(* The numbers that the runner goes through reach the first queue of every  *)
(* family of the device, each once: as many as it has queues, if the test   *)
(* runs on the device whose queues the runner has counted.                  *)
EveryFamilyReached ==
    test.opt.device_id = 1 =>
        \A f \in DOMAIN test.device.families :
            Cardinality({num \in 0 .. RunnerQueueCount(test) - 1 :
                QueueChoice(test.device.families, num) = [family |-> f, in_family |-> 0]}) = 1

(* Each thread's stack, bytes and all, keeps the promise of UnwindStack.    *)
AllSteps ==
    (UNION {Range(Steps(t)) : t \in Tests})
        \cup UserObjects \cup {ActualImage, ActualStencilImage}
Pushables ==
    {Command(s.kind, s.object) : s \in {s \in AllSteps : s.do = "create"}}
    \cup {Command("vk_pooled", "cmd_buffer")}
StartStack == INSTANCE UnwindStack
    WITH Pushable <- Pushables, commands <- Commands(stack["start"]), done <- done["start"]
UserStack == INSTANCE UnwindStack
    WITH Pushable <- Pushables, commands <- Commands(stack["user"]), done <- done["user"]
StacksUnwind == StartStack!Spec /\ UserStack!Spec
=============================================================================
