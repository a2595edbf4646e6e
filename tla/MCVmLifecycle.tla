--------------------------- MODULE MCVmLifecycle ---------------------------
(* The requests about virtual machines that the model-checking runs make. *)
EXTENDS VmLifecycle

MCVm(n, disks, seed, fw, tpl) ==
    [name |-> n, disks |-> disks, seed |-> seed, fw |-> fw, tpl |-> tpl, auto |-> ~tpl]

\* A plain VM, one that shares a disk and wants everything, a template, and a
\* request that is rejected after its disks were provisioned.
MCCreates == {<<MCVm("b", {"b"}, "none", "off", FALSE), "start">>,
              <<MCVm("a", {"a", "b"}, "a", "p", FALSE), "start">>,
              <<MCVm("b", {"b"}, "b", "off", TRUE), "keep">>,
              <<MCVm("b", {"b"}, "none", "off", FALSE), "badtags">>}
\* Updates of one field and of several at once.
MCKeep == [name |-> "keep", disks |-> {}, fw |-> "keep", seed |-> FALSE, tpl |-> "keep", auto |-> "keep"]
MCChanges == {[MCKeep EXCEPT !.name = "b"], [MCKeep EXCEPT !.disks = {"a", "b"}, !.fw = "p"],
              [MCKeep EXCEPT !.seed = TRUE, !.auto = "yes"],
              [MCKeep EXCEPT !.tpl = "yes"], [MCKeep EXCEPT !.tpl = "no", !.fw = "off"],
              [MCKeep EXCEPT !.name = "b", !.disks = {"b"}, !.seed = TRUE, !.tpl = "yes"]}
=============================================================================
