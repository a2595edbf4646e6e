---------------------------- MODULE BrokerPolicy ----------------------------
(* What the root-owned broker accepts (broker/mod.rs, validate_request), and *)
(* the commands the backend's services send it. An argument is either an     *)
(* option, written as in the argv, or the kind of value that stands there:   *)
(* "name" a domain, container or target name or a size, "dataset" a ZFS      *)
(* path, "snapshot" dataset@tag, "path", "xml" and "cred" files below        *)
(* /var/lib/daygleve, "disk" and "zvol" devices, "words" other text.         *)
EXTENDS Integers, Sequences, SequencesExt

Programs ==
  {"bridge", "ip", "lxc-cgroup", "lxc-console", "lxc-create", "lxc-destroy", "lxc-freeze",
   "lxc-info", "lxc-ls", "lxc-start", "lxc-stop", "lxc-unfreeze", "mount", "nft",
   "genisoimage", "xorriso", "qemu-img", "smartctl", "wipefs", "umount", "virsh", "zfs", "zpool"}

VirshCommands ==
  {"list", "domstate", "hostname", "start", "shutdown", "destroy", "reboot", "reset", "pause",
   "resume", "define", "undefine", "domrename", "vncdisplay", "ttyconsole", "domdisplay",
   "qemu-agent-command", "domifaddr", "domfsfreeze", "domfsthaw", "save", "restore",
   "blockresize", "attach-disk", "detach-disk", "attach-device", "detach-device"}
ZfsCommands   == {"list", "create", "set", "destroy", "snapshot", "clone", "promote",
                  "rollback", "send", "receive"}
ZpoolCommands == {"list", "status", "create"}

\* The characters each check lets through, as the kinds of argument that have only those.
IsPath(a)       == a \in {"path", "xml", "cred", "disk", "zvol"}
IsOption(a)     == a \in {"-H", "-h", "-p", "-Hp", "-r", "-F", "-o", "-t", "-d", "-V", "-i", "-s", "-f",
                          "-P", "-L", "-n", "-B", "-a", "-j", "-O", "--nvram", "--persistent",
                          "--mode", "--source", "--all", "--name", "--vcpu", "--output=json"}
SafeCliName(a)  == a \in {"name", "dataset"} \/ IsPath(a)
SafeDataset(a)  == a \in {"name", "dataset"}
SafeSnapshot(a) == a = "snapshot"
SafeZfsValue(a) == a \in {"name", "dataset", "snapshot", "columns", "compression=name"}
SafeProperty(a) == a \in {"quota=name", "description=name"}
StatePath(a)    == a \in {"path", "xml", "cred"}

-----------------------------------------------------------------------------
(* The shape of a command, program by program. args starts with the          *)
(* subcommand; the -c qemu:///system that every virsh call carries is left   *)
(* out.                                                                       *)

Has2(args, a, b) == \E i \in 1 .. Len(args) - 1 : args[i] = a /\ args[i + 1] = b
After1(args, flag) == LET i == SelectInSeq(args, LAMBDA a : a = flag)
                      IN IF i \in 1 .. Len(args) - 1 THEN args[i + 1] ELSE "none"

ShapeOk(p, args) ==
  CASE p = "virsh"  -> args # <<>> /\ args[1] \in VirshCommands
    [] p = "zfs"    -> args # <<>> /\ args[1] \in ZfsCommands
    [] p = "zpool"  -> args # <<>> /\ args[1] \in ZpoolCommands
    [] p = "ip"     -> \E o \in {"link", "addr"}, v \in {"show", "add", "set", "del"} :
                         Has2(args, o, v) /\ <<o, v>> \notin {<<"addr", "set">>, <<"addr", "del">>}
    [] p = "bridge" -> args # <<>> /\ args[1] = "vlan"
    [] p = "mount"  -> Contains(args, "-t")
    [] p = "nft"    -> Contains(args, "-f")
    [] p = "umount" -> args # <<>>
    [] p = "qemu-img"    -> args # <<>> /\ args[1] \in {"info", "convert"}
    [] p = "lxc-console" -> FALSE
    [] OTHER             -> TRUE

VirshArgsOk(args) ==
  LET rest == Tail(args) IN
  CASE args[1] \in {"attach-device", "detach-device"} ->
         Len(rest) = 2 /\ SafeCliName(rest[1]) /\ rest[2] = "xml"
    [] args[1] = "define" -> \A i \in DOMAIN rest : rest[i] = "xml"
    [] OTHER -> \A i \in DOMAIN rest : SafeCliName(rest[i]) \/ IsOption(rest[i])

ZfsArgsOk(args) ==
  \A i \in 2 .. Len(args) :
    \/ args[i] \in {"-H", "-h", "-p", "-Hp", "-r", "-F"}
    \/ args[i] \in {"-o", "-t", "-d", "-V"} /\ i < Len(args)
    \/ args[i - 1] \in {"-o", "-t", "-d", "-V"} /\ SafeZfsValue(args[i])
    \/ args[1] = "send" /\ args[i] = "-i" /\ i < Len(args)
    \/ IF args[1] = "set" /\ i = 2 THEN SafeProperty(args[i])
                                   ELSE SafeSnapshot(args[i]) \/ SafeDataset(args[i])

ZpoolArgsOk(args) ==
  IF args[1] = "create"
    THEN LET rest == SelectSeq(Tail(args), LAMBDA a : a # "-f" /\ a # "layout")
         IN Len(rest) >= 2 /\ SafeCliName(rest[1]) /\ \A i \in 2 .. Len(rest) : rest[i] = "disk"
    ELSE \A i \in 2 .. Len(args) :
           \/ args[i] \in {"-H", "-p", "-Hp", "-L", "-P"}
           \/ args[i] = "-o" /\ i < Len(args)
           \/ args[i - 1] = "-o" /\ SafeZfsValue(args[i])
           \/ SafeDataset(args[i])

DiskToolOk(p, args) == args = (IF p = "smartctl" THEN <<"-j", "-a", "disk">> ELSE <<"-a", "disk">>)

QemuImgOk(args) ==
  LET named == SelectSeq(Tail(args), LAMBDA a : ~IsOption(a) /\ a # "raw") IN
  IF args[1] = "info" THEN Len(named) = 1 /\ StatePath(named[1])
                      ELSE /\ After1(args, "-O") = "raw"
                           /\ Len(named) = 2 /\ StatePath(named[1]) /\ named[2] = "zvol"

MountOk(args) ==
  /\ After1(args, "-t") \in {"nfs", "cifs"}
  /\ args[Len(args) - 1] = "share"
  /\ ~Contains(args, "-o") \/ After1(args, "-o") \in {"ro", "ro,cred"}
  /\ StatePath(args[Len(args)])

\* Paths are confined to the state directory for the programs that take one.
PathsOk(args)  == \A i \in DOMAIN args : IsPath(args[i]) => StatePath(args[i])

ArgsOk(p, args) ==
  CASE p = "virsh"  -> VirshArgsOk(args)
    [] p = "zfs"    -> ZfsArgsOk(args)
    [] p = "zpool"  -> ZpoolArgsOk(args)
    [] p \in {"smartctl", "wipefs"} -> DiskToolOk(p, args)
    [] p = "mount"  -> MountOk(args)
    [] p = "umount" -> Len(args) = 1 /\ StatePath(args[1])
    [] p = "nft"    -> StatePath(After1(args, "-f")) /\ ~Contains(args, "flush") /\ ~Contains(args, "delete")
    [] p \in {"ip", "bridge"} -> \A i \in DOMAIN args : ~IsPath(args[i])
    [] p = "qemu-img" -> QemuImgOk(args)
    [] OTHER -> After1(args, "-n") \in {"name", "none"} /\ PathsOk(args)

Accepts(c) == /\ c.prog \in Programs
              /\ ShapeOk(c.prog, c.args)
              /\ ArgsOk(c.prog, c.args)

-----------------------------------------------------------------------------
(* The commands the services issue: <<what for, program, args>>.             *)

VmCommands ==
  { <<"list VMs", "virsh", <<"list", "--all", "--name">>>>,
    <<"start VM", "virsh", <<"start", "name">>>>,
    <<"stop VM", "virsh", <<"destroy", "name">>>>,
    <<"pause VM", "virsh", <<"suspend", "name">>>>,
    <<"resume VM", "virsh", <<"resume", "name">>>>,
    <<"shut down VM", "virsh", <<"shutdown", "--mode", "name", "name">>>>,
    <<"define VM", "virsh", <<"define", "xml">>>>,
    <<"undefine VM", "virsh", <<"undefine", "name", "--nvram">>>>,
    <<"rename VM", "virsh", <<"domrename", "name", "name">>>>,
    <<"guest agent", "virsh", <<"qemu-agent-command", "name", "words">>>>,
    <<"guest addresses", "virsh", <<"domifaddr", "--source", "name", "name">>>>,
    <<"freeze guest", "virsh", <<"domfsfreeze", "name">>>>,
    <<"save VM", "virsh", <<"save", "name", "path">>>>,
    <<"attach disk", "virsh", <<"attach-disk", "name", "name", "zvol", "--persistent">>>>,
    <<"attach device", "virsh", <<"attach-device", "name", "xml">>>>,
    <<"resize live disk", "virsh", <<"blockresize", "name", "name", "name">>>>,
    <<"VM metrics", "virsh", <<"domstats", "--vcpu", "name">>>>,
    <<"VM firewall", "nft", <<"-f", "path">>>>,
    <<"seed image", "genisoimage", <<"-output", "path", "path">>>> }

DiskCommands ==
  { <<"find zvol", "zfs", <<"list", "-H", "-o", "columns", "dataset">>>>,
    <<"create zvol", "zfs", <<"create", "-V", "name", "dataset">>>>,
    <<"grow zvol", "zfs", <<"set", "volsize=name", "dataset">>>>,
    <<"list snapshots", "zfs", <<"list", "-H", "-p", "-t", "name", "-d", "name", "-o", "columns", "dataset">>>>,
    <<"snapshot", "zfs", <<"snapshot", "snapshot", "snapshot">>>>,
    <<"describe snapshot", "zfs", <<"set", "description=name", "snapshot">>>>,
    <<"describe snapshot at will", "zfs", <<"set", "description=words", "snapshot">>>>,
    <<"rollback", "zfs", <<"rollback", "-r", "snapshot">>>>,
    <<"clone", "zfs", <<"clone", "snapshot", "dataset">>>>,
    <<"promote", "zfs", <<"promote", "dataset">>>>,
    <<"destroy", "zfs", <<"destroy", "-r", "dataset">>>>,
    <<"backup", "zfs", <<"send", "-p", "snapshot">>>>,
    <<"incremental backup", "zfs", <<"send", "-i", "snapshot", "snapshot">>>>,
    <<"restore", "zfs", <<"receive", "-F", "dataset">>>>,
    <<"image size", "qemu-img", <<"info", "--output=json", "path">>>>,
    <<"import image", "qemu-img", <<"convert", "-O", "raw", "path", "zvol">>>> }

HostCommands ==
  { <<"pools", "zpool", <<"list", "-Hp", "-o", "columns">>>>,
    <<"pool devices", "zpool", <<"status", "-P", "-L">>>>,
    <<"create pool", "zpool", <<"create", "-f", "name", "layout", "disk", "disk">>>>,
    <<"disk health", "smartctl", <<"-j", "-a", "disk">>>>,
    <<"wipe disk", "wipefs", <<"-a", "disk">>>>,
    <<"mount NFS share", "mount", <<"-t", "nfs", "-o", "ro", "share", "path">>>>,
    <<"mount CIFS share", "mount", <<"-t", "cifs", "-o", "ro,cred", "share", "path">>>>,
    <<"unmount share", "umount", <<"path">>>>,
    <<"create bridge", "ip", <<"link", "add", "name", "type", "bridge">>>>,
    <<"bridge address", "ip", <<"addr", "add", "words", "dev", "name">>>>,
    <<"bridge VLAN", "bridge", <<"vlan", "add", "vid", "name", "dev", "name", "self">>>>,
    <<"host firewall", "nft", <<"-f", "path">>>> }

CtCommands ==
  { <<"create container", "lxc-create", <<"-n", "name", "-B", "zfs", "--zfsroot", "dataset", "path">>>>,
    <<"container quota", "zfs", <<"set", "quota=name", "dataset">>>>,
    <<"container limits", "lxc-cgroup", <<"-n", "name", "name", "words">>>>,
    <<"container state", "lxc-info", <<"-n", "name", "-sH">>>>,
    <<"list containers", "lxc-ls", <<"-1", "--nesting">>>> }
    \cup {<<p, p, <<"-n", "name">>>> : p \in {"lxc-start", "lxc-stop", "lxc-freeze", "lxc-unfreeze", "lxc-destroy"}}

Surface == {[use |-> t[1], prog |-> t[2], args |-> t[3]] :
              t \in VmCommands \cup DiskCommands \cup HostCommands \cup CtCommands}
=============================================================================
