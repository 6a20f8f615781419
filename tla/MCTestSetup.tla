----------------------------- MODULE MCTestSetup -----------------------------
(***************************************************************************)
(* Devices with one to three families, tests of every kind of image and    *)
(* every queue setup, and the queue numbers up to the first that the       *)
(* device does not have.                                                   *)
(***************************************************************************)
EXTENDS TestSetup

MCCmdPoolOf == <<"cmd_pool_0", "cmd_pool_1", "cmd_pool_2">>

F(flags, count) == [flags |-> flags, count |-> count]
All == {"graphics", "compute", "transfer", "sparse"}

Families ==
    {<<F(All, 1)>>,
     <<F(All, 2), F({"compute", "transfer"}, 1), F({"transfer"}, 1)>>,
     <<F({"sparse"}, 1), F({"graphics"}, 1), F({"compute"}, 1)>>}

DeviceOf(families, device_id) ==
    [count |-> 2, debug_report |-> Len(families) = 3, has_feature |-> Len(families) = 1,
     families |-> families,
     first_families |-> IF device_id = 1 THEN families ELSE <<F(All, 1)>>]

Def(images, queue_setup, needs_feature) ==
    [no_image |-> images = 0, depthstencil |-> images > 1, ref_stencil |-> images = 3,
     queue_setup |-> queue_setup, needs_feature |-> needs_feature]

Defs == {Def(0, "transfer", FALSE), Def(1, "compute", TRUE), Def(2, "graphics", FALSE),
         Def(3, "gfx_and_compute", FALSE)}

(* Bootstrap excludes the cleanup phase.                                    *)
Opt(bootstrap, no_cleanup, run_all_queues, queue_num, device_id) ==
    [bootstrap |-> bootstrap, no_cleanup |-> bootstrap \/ no_cleanup,
     run_all_queues |-> run_all_queues, queue_num |-> queue_num, device_id |-> device_id]

Opts == {Opt(FALSE, FALSE, FALSE, num, 1) : num \in 0 .. 3}
        \cup {Opt(FALSE, FALSE, TRUE, num, 1) : num \in {1, 3}}
        \cup {Opt(TRUE, TRUE, FALSE, 0, 1), Opt(FALSE, TRUE, FALSE, 0, 1),
              Opt(FALSE, FALSE, FALSE, 0, 2), Opt(FALSE, FALSE, FALSE, 0, 3)}

(* The second device, --no-cleanup, bootstrapping and all queues are left   *)
(* to the tests without a depthstencil image, graphics alone to the last    *)
(* device.                                                                  *)
MCTests ==
    {[def |-> def, opt |-> opt, device |-> DeviceOf(families, opt.device_id)] :
        <<def, opt, families>> \in
            {c \in Defs \X Opts \X Families :
                /\ c[1].depthstencil =>
                      c[2].device_id # 2 /\ ~c[2].no_cleanup /\ ~c[2].run_all_queues
                /\ c[1].queue_setup = "graphics" => Len(c[3]) = 3}}

MCUserObjects ==
    {Create("memory", "vk_object", {"device"}),
     Create("map", "vk_object", {"device", "memory"}),
     Create("descriptor_set", "vk_pooled", {"device", "descriptor_pool"})}
=============================================================================
