---------------------------- MODULE MCInstaller ----------------------------
(***************************************************************************)
(* The installer for TLC: one admissible plan, two plans handed out, two   *)
(* transactions and two faults, on either platform.  A second plan evicts  *)
(* the first, and the second transaction may reuse the first one's token.  *)
(* The lens chooses who drives it: any caller, or the clients that install *)
(* without a person; and, one at a time, the plan and the executor's work  *)
(* on the volumes in the detail of their own modules.                      *)
(***************************************************************************)
EXTENDS UnattendedInstall, InstallPlan, InstallVolumes

CONSTANTS
    MediumFaults,       \* bound: faults while a client drives it
    FairFaults          \* bound: faults where the daemon keeps running
VARIABLE lens

-----------------------------------------------------------------------------
\* Machines and releases for the plan: stacks of devices under the live system,
\* disks around their minimum size, and pieces of hardware with the modules and
\* firmware of the image; and the executor's work on the volumes.

Devices == {"d1", "d2", "p1", "p2", "dm", "luks", "loop"}
Alone == [x \in Devices |-> {}]

DiskOf(size, sector, ro, serial) == [size |-> size, sector |-> sector, ro |-> ro, serial |-> serial]
PartOf(d, label, punar) == [disk |-> d, label |-> label, punar |-> punar]
MountAt(point, depth, device) == [point |-> point, depth |-> depth, device |-> device]

Card(modalias, driver, module, function) ==
    [modalias |-> modalias, driver |-> driver, module |-> module, function |-> function]
Alias(pattern, module) == [pattern |-> pattern, module |-> module]
NoFirmware == [i \in 1..3 |-> {}]
PlainImage == [aliases |-> {Alias(<<"*">>, 1)}, modinfo |-> NoFirmware, firmware |-> {}]
PlainHardware == {Card(<<"a">>, 1, 1, "graphics")}

Big == 100 * GIB
Plain(pf) ==
    [platform |-> pf, devices |-> Devices, slaves |-> Alone, backing |-> Alone,
     mounts |-> {MountAt("/", 1, "d2")},
     disks |-> [d \in {"d1", "d2"} |-> DiskOf(Big, 1, FALSE, "s")],
     parts |-> [p \in {"p1", "p2"} |-> PartOf(IF p = "p1" THEN "d1" ELSE "d2", "other", FALSE)],
     image |-> PlainImage, hardware |-> PlainHardware]

\* A loop file lies on the root only when the root does not stand on the loop.
Stacks ==
    {[Plain("uefi") EXCEPT
        !.slaves["dm"] = s, !.slaves["luks"] = {"p1"}, !.backing["loop"] = b,
        !.mounts = {MountAt("/", 1, root), MountAt("/run/medium", 2, md)},
        !.parts["p1"] = one, !.parts["p2"].punar = (one.label = "second")] :
        s \in SUBSET {"p1", "p2", "luks", "loop"}, b \in {{}, {"/", "/run/medium"}},
        root \in {"dm", "loop", "p1"}, md \in {"p1", "p2", "d2"},
        one \in {PartOf("d1", "other", FALSE), PartOf("d1", "other", TRUE),
                 PartOf("d1", "second", FALSE), PartOf("d1", "PUNAR_ANSWR", FALSE)}}
    \cup
    {[Plain("uefi") EXCEPT
        !.slaves["dm"] = {"loop"}, !.backing["loop"] = {"/"},
        !.mounts = {MountAt("/", 1, root), MountAt("/data", 2, "dm")}] : root \in {"p1", "p2"}}

Sizes ==
    LET least(sector, pf) == MinimumDisk(IF ValidSectorSize(sector) THEN sector ELSE 1, pf)
    IN {[Plain(pf) EXCEPT
            !.disks["d1"] = DiskOf(least(sector, pf) + more, sector, ro, serial)] :
            pf \in {"uefi", "pi"}, sector \in {1, 2, 8, 64, 128, 3},
            more \in {0 - 1, 0, 1, 7, 8, 127, 128, 1000}, ro \in BOOLEAN, serial \in {"s", Absent}}

Words(letters, n) == UNION {[1..k -> letters] : k \in 0..n}

Hardware ==
    {[Plain("uefi") EXCEPT !.hardware = {Card(value, 1, 1, "graphics")},
                           !.image.aliases = {Alias(pattern, 1)}] :
        value \in Words({"a", "b"}, 3), pattern \in Words({"a", "b", "?", "*"}, 3)}
    \cup
    {[Plain("uefi") EXCEPT
        !.hardware = {Card(value, driver, module, "graphics"), Card(<<"b">>, 2, Missing, "network")},
        !.image = [aliases |-> {Alias(<<"a">>, m) : m \in claims} \cup {Alias(<<"b">>, 2)},
                   modinfo |-> [NoFirmware EXCEPT ![3] = requested, ![2] = second],
                   firmware |-> {[path |-> <<"f", "z">>, plain |-> <<"f">>, inside |-> TRUE],
                                [path |-> <<"h">>, plain |-> <<"h">>, inside |-> FALSE]}]] :
        value \in {Missing, <<"a">>}, driver \in {Missing, 3}, module \in {Missing, 3, 1},
        claims \in SUBSET (1..3), requested \in {Missing, Unreadable, {}, {<<"f">>}, {<<"h">>, <<"f">>}},
        second \in {{}, {<<"f", "?">>}, {<<"g">>}}}
    \cup {[Plain("uefi") EXCEPT !.hardware = {}],
          [Plain("uefi") EXCEPT !.hardware = {Card(<<"a">>, 1, 1, "network")}]}

SlotImage(root, rootDigest, boot, bootDigest) ==
    [root |-> root, rootDigest |-> rootDigest, boot |-> boot, bootDigest |-> bootDigest]
GoodRelease(pf) ==
    [platform |-> pf, a |-> SlotImage(ROOT_SIZE, 1, 100 * MIB, 3),
     b |-> IF pf = "uefi" THEN SlotImage(ROOT_SIZE, 2, 100 * MIB, 4) ELSE Absent]
AllReleases ==
    {[GoodRelease("pi") EXCEPT !.a.boot = boot] : boot \in {100 * MIB, 100 * MIB + 1, ESP_SIZE + 8}} \cup
    {[GoodRelease("uefi") EXCEPT !.a.root = root, !.b.root = other, !.a.boot = boot,
                                 !.b.boot = second, !.b.rootDigest = digest] :
        root \in {ROOT_SIZE, ROOT_SIZE - 1, ROOT_SIZE + 8}, other \in {ROOT_SIZE, ROOT_SIZE + 8},
        boot \in {192 * MIB, 192 * MIB + 1, 700 * MIB}, second \in {192 * MIB, 368 * MIB, 369 * MIB},
        digest \in {1, 2}}

Log(events, torn, foreign) == [events |-> events, torn |-> torn, foreign |-> foreign]
MCLogs ==
    LET planned == Event("p", "install.plan", "me")
    IN {Log(<<planned>>, FALSE, FALSE), Log(<<planned>>, TRUE, FALSE), Log(<<planned>>, FALSE, TRUE),
        Log(<<planned, Event("a", "install.apply", "me")>>, FALSE, FALSE),
        Log(<<planned, Event("r", "install.plan", "me")>>, FALSE, FALSE),
        Log(<<Event("p", "install.plan", "other")>>, FALSE, FALSE)}

\* Every release on one machine, every machine with one release.
PlanStart ==
    \/ \E m \in {Plain("uefi"), Plain("pi")}, r \in AllReleases : PlanInit(m, r)
    \/ \E m \in Stacks : PlanInit(m, GoodRelease(m.platform))
    \/ \E m \in Sizes : PlanInit(m, GoodRelease(m.platform))
    \/ \E m \in Hardware : PlanInit(m, GoodRelease(m.platform))
NoVolumes ==
    /\ setup = [platform |-> "pi", encrypted |-> FALSE, answers |-> FALSE, log |-> Nothing]
    /\ VolumesStart
NoPlan == PlanInit(Plain("pi"), GoodRelease("pi"))
diskVars == <<planVars, volumeVars>>

-----------------------------------------------------------------------------
\* A second transaction, and a second fault, on one platform, and not both;
\* the second upset strikes the first try at the volumes, on that platform.
TwoFaults == starts + faults > 2 => platform = "uefi" /\ starts + faults = 3
TwoUpsets == upsets = 2 => tries = 1 /\ setup.platform = "uefi"
MCVars == <<lens, vars, clientVars, diskVars>>
Detail == {"plan", "volumes"}
MCInit == /\ ClientInit
          /\ lens \in {"person", "fair", "medium"} \cup Detail
          /\ lens # "medium" => medium.answers = Personal("blank")
          /\ lens \in {"fair"} \cup Detail => disk = Bare("blank")
          /\ lens \in Detail => platform = "pi"
          /\ CASE lens = "plan" -> PlanStart /\ NoVolumes
               [] lens = "volumes" -> VolumesInit /\ NoPlan
               [] OTHER -> NoPlan /\ NoVolumes
MCNext == /\ \/ lens = "person" /\ Next /\ TwoFaults' /\ UNCHANGED <<clientVars, diskVars>>
             \/ lens = "fair" /\ Next /\ faults' <= FairFaults /\ UNCHANGED <<clientVars, diskVars>>
             \/ lens = "medium" /\ UnattendedNext /\ faults' <= MediumFaults /\ UNCHANGED diskVars
             \/ lens = "plan" /\ PlanNext /\ UNCHANGED <<vars, clientVars, volumeVars>>
             \/ lens = "volumes" /\ VolumesNext /\ TwoUpsets' /\ UNCHANGED <<vars, clientVars, planVars>>
          /\ UNCHANGED lens
Others == <<lens, clientVars, diskVars>>
PersonStep == lens = "fair" /\ Step /\ faults' <= FairFaults /\ UNCHANGED Others
PersonAcknowledges == lens = "fair" /\ Acknowledge /\ UNCHANGED Others
PersonAsksAgain == lens = "fair" /\ Active /\ Apply /\ UNCHANGED Others
MCSpec == /\ MCInit /\ [][MCNext]_MCVars
          /\ WF_MCVars(PersonStep) /\ WF_MCVars(PersonAcknowledges) /\ WF_MCVars(PersonAsksAgain)

\* Every transaction is settled where somebody answers the recovery checkpoint:
\* it succeeds, or its failure is published, even when the status could not be
\* written at first (the error arm of handle_install_apply).
Settles == (lens = "fair" /\ Active) ~> ~Active
=============================================================================
