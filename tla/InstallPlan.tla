---------------------------- MODULE InstallPlan ----------------------------
(***************************************************************************)
(* What install.targets offers and what install.plan admits (install.rs):  *)
(* the disks of the machine as sysfs shows them, the closure of what the   *)
(* live system stands on, the fixed A/B layout in the bytes of this disk,  *)
(* the release's fit, and then systemd-repart and the table read back.     *)
(*                                                                         *)
(* Sizes are in units of 512 bytes.  A partition's name stands for its     *)
(* label and its fixed PARTUUID.                                           *)
(***************************************************************************)
EXTENDS Integers, FiniteSets, Sequences, SequencesExt, FiniteSetsExt, TLC

CONSTANTS
    Absent,                 \* no value
    MODULE_CLAIM_LIMIT,     \* claims kept in a device's record
    Missing,                \* an absent attribute
    Unreadable              \* what modinfo says after its deadline or limit

VARIABLES
    machine,        \* what sysfs, udev and mountinfo show
    release,        \* the release of the live medium
    targets,        \* the answer of install.targets
    plan,           \* the admitted plan
    table           \* the GPT of the planned disk after systemd-repart

planVars == <<machine, release, targets, plan, table>>

-----------------------------------------------------------------------------
\* The driver coverage report (hardware.rs): which kernel modules claim a
\* device, whether its driver is bound, whether the firmware the module asks
\* for is on the image.  A modalias, a module alias and a firmware path are
\* sequences over a small alphabet with the wildcards "?" and "*".  Module
\* names are numbers, in the order of their names.

\* wildcard_matches: the scan with one checkpoint.  star is the index of the
\* last "*" passed, or 0; positions are those of the next characters.
RECURSIVE Scan(_, _, _, _, _, _)
Scan(pattern, value, p, v, star, checkpoint) ==
    IF v > Len(value)
    THEN \A i \in p..Len(pattern) : pattern[i] = "*"
    ELSE IF p <= Len(pattern) /\ pattern[p] \in {"?", value[v]}
    THEN Scan(pattern, value, p + 1, v + 1, star, checkpoint)
    ELSE IF p <= Len(pattern) /\ pattern[p] = "*"
    THEN Scan(pattern, value, p + 1, v, p, v)
    ELSE IF star # 0
    THEN Scan(pattern, value, star + 1, checkpoint + 1, star, checkpoint + 1)
    ELSE FALSE

WildcardMatches(pattern, value) == Scan(pattern, value, 1, 1, 0, 1)

\* load_module_aliases: the lines of modules.alias as <<pattern, module>>
ClaimingModules(aliases, modalias) ==
    IF modalias = Missing THEN {}
    ELSE {a.module : a \in {a \in aliases : WildcardMatches(a.pattern, modalias)}}

\* The first claims by name; the bound module's own claim is never the one
\* that is dropped.
FirstBy(n, claims) == {c \in claims : Cardinality({d \in claims : d < c}) < n}
BoundedClaimingModules(claims, bound) ==
    LET first == FirstBy(MODULE_CLAIM_LIMIT, claims)
        kept == IF Cardinality(first) = MODULE_CLAIM_LIMIT THEN first \ {Max(first)} ELSE first
    IN IF bound \in claims \ first THEN kept \cup {bound} ELSE first

\* inventory_firmware: files, and links that stay inside the firmware root
InventoryFirmware(image) == {f \in image.firmware : f.inside}

\* A file, or its name without a compression suffix, answers a request.
FirmwareRequestPresent(request, firmware) ==
    \E f \in firmware : WildcardMatches(request, f.path) \/ WildcardMatches(request, f.plain)

\* bound_driver: the module of the driver, or the driver's own name
BoundModule(d) == IF d.module # Missing THEN d.module ELSE d.driver

Claims(image, d) ==
    BoundedClaimingModules(ClaimingModules(image.aliases, d.modalias), BoundModule(d))

\* read_module_firmware: what modinfo lists, Missing when it names no such
\* module or is not there; a report that needs an unreadable answer fails.
RequestedFirmware(image, module) == image.modinfo[module]
ReportFails(image, devices) ==
    \E d \in devices : /\ d.driver # Missing /\ BoundModule(d) \in Claims(image, d)
                       /\ RequestedFirmware(image, BoundModule(d)) = Unreadable

\* classify_device
Coverage(image, d) ==
    LET bound == BoundModule(d)
        claims == Claims(image, d)
        requested == RequestedFirmware(image, bound)
    IN CASE d.modalias = Missing -> "unsupported"
         [] d.modalias # Missing /\ claims = {} -> "unsupported"
         [] claims # {} /\ d.driver = Missing -> "partial"
         [] claims # {} /\ d.driver # Missing /\ bound \notin claims -> "partial"
         [] OTHER ->
              IF requested = Missing THEN "partial"
              ELSE IF \A r \in requested : FirmwareRequestPresent(r, InventoryFirmware(image))
              THEN "full" ELSE "partial"

\* observe_install_hardware: the verdicts of the report
GraphicsUsable(image, devices) ==
    \E d \in devices : /\ d.function = "graphics" /\ d.driver # Missing
                       /\ Coverage(image, d) # "unsupported"
Overall(image, devices) ==
    LET seen == {Coverage(image, d) : d \in devices}
    IN CASE devices = {} \/ "unsupported" \in seen -> "unsupported"
         [] devices # {} /\ "unsupported" \notin seen ->
              IF "partial" \in seen THEN "partial" ELSE "full"

-----------------------------------------------------------------------------
\* Reference: a pattern names a value when its stars can be filled in.
Matches(pattern, value) ==
    LET m[i \in 0..Len(pattern), j \in 0..Len(value)] ==
            IF i = 0 THEN j = 0
            ELSE IF pattern[i] = "*" THEN m[i - 1, j] \/ (j > 0 /\ m[i, j - 1])
            ELSE j > 0 /\ pattern[i] \in {"?", value[j]} /\ m[i - 1, j - 1]
    IN m[Len(pattern), Len(value)]

-----------------------------------------------------------------------------
MIB == 2048
GIB == 1024 * MIB
ALIGNMENT == MIB
ESP_SIZE == GIB
PI_SELECTOR_SIZE == 32 * MIB
ROOT_SIZE == 8 * GIB
DATA_MINIMUM == 16 * GIB
GPT_LBAS == 34
GPT_ENTRY_TABLE == 32
REPART_GRAIN == 8
DIRECT_IO_BLOCK == 8
BOOTLOADER_MAX == 16 * MIB
ESP_BOOTLOADER_COPIES == 2
ESP_FAT_RESERVE == 64 * MIB
ESP_UPDATE_HEADROOM == 192 * MIB

-----------------------------------------------------------------------------
\* The disks

\* Everything mounted, and what it stands on: the devices below a stacked one,
\* and the mount that owns the file behind a loop device (the longest mount
\* point the file's path belongs to).
Owner(m, file) ==
    LET owners == {r \in m.mounts : r.point \in file}
    IN {r.device : r \in {r \in owners : \A o \in owners : o.depth <= r.depth}}
Under(m, device) ==
    m.slaves[device] \cup IF m.backing[device] = {} THEN {} ELSE Owner(m, m.backing[device])

\* The loop of the source, until no new device appears.
ProtectedBlockDevices(m) ==
    LET grown[n \in 0..Cardinality(m.devices)] ==
            IF n = 0 THEN {r.device : r \in m.mounts}
            ELSE LET seen == grown[n - 1]
                 IN seen \cup UNION {Under(m, d) : d \in seen}
    IN grown[Cardinality(m.devices)]

ValidSectorSize(sector) == sector \in {1, 2, 4, 8, 16, 32, 64, 128}
AlignUp(value, alignment) == ((value + alignment - 1) \div alignment) * alignment
AlignDown(value, alignment) == (value \div alignment) * alignment
GptTrailer(sector) == sector + AlignUp(GPT_ENTRY_TABLE, sector)

FixedInstall(platform) ==
    IF platform = "uefi" THEN ESP_SIZE + 2 * ROOT_SIZE
                         ELSE PI_SELECTOR_SIZE + 2 * ESP_SIZE + 2 * ROOT_SIZE
MinimumDisk(sector, platform) ==
    AlignUp(GPT_LBAS * sector, ALIGNMENT) + FixedInstall(platform) + DATA_MINIMUM
        + GptTrailer(sector)

\* A partition belongs to the disk its name extends; pseudo disks have no
\* partitions to offer.
ParentDisk(m, p) == IF m.parts[p].disk \in DOMAIN m.disks THEN m.parts[p].disk ELSE Absent
PartsOf(m, d) == {p \in DOMAIN m.parts : ParentDisk(m, p) = d}

ObserveDisk(m, d) ==
    LET sector == IF ValidSectorSize(m.disks[d].sector) THEN m.disks[d].sector ELSE 1
        guarded == ProtectedBlockDevices(m)
    IN [device |-> d, size |-> m.disks[d].size, sector |-> sector,
        serial |-> m.disks[d].serial,
        protected |-> \/ d \in guarded
                      \/ \E p \in PartsOf(m, d) :
                            p \in guarded \/ m.parts[p].label = "PUNAR_ANSWR",
        eligible |-> ~m.disks[d].ro /\ m.disks[d].size >= MinimumDisk(sector, m.platform),
        punar |-> \E p \in PartsOf(m, d) : m.parts[p].punar]
ObserveDisks(m) == {ObserveDisk(m, d) : d \in DOMAIN m.disks}

-----------------------------------------------------------------------------
\* The layout

PartitionEntry(number, name, offset, size, fs, encrypted) ==
    [number |-> number, name |-> name, offset |-> offset, size |-> size, fs |-> fs,
     encrypted |-> encrypted]

\* repart_usable_end: the grown partition ends on repart's grain.
UsableEnd(size, sector) ==
    AlignDown(size - GptTrailer(sector), Max({REPART_GRAIN, sector}))

\* partition_plan; Absent when the disk cannot take it
PartitionPlan(size, sector, platform, encrypted) ==
    LET first == AlignUp(GPT_LBAS * sector, ALIGNMENT)
        afterEsp == first + ESP_SIZE
        bootA == first + PI_SELECTOR_SIZE
        bootB == bootA + ESP_SIZE + ROOT_SIZE
        data == IF platform = "uefi" THEN afterEsp + 2 * ROOT_SIZE
                                     ELSE bootB + ESP_SIZE + ROOT_SIZE
        room == UsableEnd(size, sector) - data
    IN IF room < DATA_MINIMUM THEN Absent
       ELSE IF platform = "uefi"
       THEN <<PartitionEntry(1, "ESP", first, ESP_SIZE, "vfat", FALSE),
              PartitionEntry(2, "ROOT-A", afterEsp, ROOT_SIZE, "ext4", FALSE),
              PartitionEntry(3, "ROOT-B", afterEsp + ROOT_SIZE, ROOT_SIZE, Absent, FALSE),
              PartitionEntry(4, "DATA", data, room, "btrfs", encrypted)>>
       ELSE <<PartitionEntry(1, "SELECT", first, PI_SELECTOR_SIZE, "vfat", FALSE),
              PartitionEntry(2, "BOOT-A", bootA, ESP_SIZE, "vfat", FALSE),
              PartitionEntry(3, "ROOT-A", bootA + ESP_SIZE, ROOT_SIZE, "ext4", FALSE),
              PartitionEntry(4, "BOOT-B", bootB, ESP_SIZE, "vfat", FALSE),
              PartitionEntry(5, "ROOT-B", bootB + ESP_SIZE, ROOT_SIZE, Absent, FALSE),
              PartitionEntry(6, "DATA", data, room, "btrfs", encrypted)>>

\* The partition numbers later phases write to.
RootANumber(platform) == IF platform = "uefi" THEN 2 ELSE 3
RootBNumber(platform) == IF platform = "uefi" THEN 3 ELSE 5
DataPartitionNumber(platform) == IF platform = "uefi" THEN 4 ELSE 6
BootANumber(platform) == IF platform = "uefi" THEN 1 ELSE 2

-----------------------------------------------------------------------------
\* The release

Fits(size, slot) == size # 0 /\ size <= slot /\ size % DIRECT_IO_BLOCK = 0

\* ReleaseManifest::validate, as far as an install can tell releases apart
ManifestValid(r) ==
    /\ r.a.root # 0 /\ r.a.boot # 0
    /\ r.platform = "uefi" =>
        /\ r.b # Absent
        /\ r.b.root = r.a.root /\ r.b.boot # 0
        /\ r.b.rootDigest # r.a.rootDigest /\ r.b.bootDigest # r.a.bootDigest
    /\ r.platform = "pi" => r.b = Absent

ValidateRootSlotPayload(parts, platform, r) ==
    LET slot == parts[RootANumber(platform)]
    IN /\ slot.name = "ROOT-A" /\ slot.size = ROOT_SIZE /\ ~slot.encrypted
       /\ Fits(r.a.root, slot.size)

\* uefi_recovery_floor: both pairs fit their slots and are bound to them, and
\* the ESP has room for both, two loaders and the UKI of a later update.
UefiRecoveryFloor(parts, r) ==
    LET slotB == parts[RootBNumber("uefi")]
    IN /\ ValidateRootSlotPayload(parts, "uefi", r)
       /\ slotB.name = "ROOT-B" /\ slotB.size = ROOT_SIZE /\ ~slotB.encrypted
       /\ Fits(r.b.root, slotB.size)
       /\ Max({r.a.boot, r.b.boot}) <= ESP_UPDATE_HEADROOM
       /\ r.a.boot + r.b.boot + ESP_BOOTLOADER_COPIES * BOOTLOADER_MAX
            + ESP_FAT_RESERVE + ESP_UPDATE_HEADROOM <= ESP_SIZE

\* validate_raspberry_pi_boot_plan, which the boot phase asks for
ValidatePiBootPlan(parts, encrypted, r) ==
    /\ Fits(r.a.boot, ESP_SIZE)
    /\ Len(parts) = 6
    /\ [i \in 1..6 |-> parts[i].name] =
        <<"SELECT", "BOOT-A", "ROOT-A", "BOOT-B", "ROOT-B", "DATA">>
    /\ \A i \in 1..6 : parts[i].number = i /\ parts[i].encrypted = (encrypted /\ i = 6)
    /\ [i \in 1..6 |-> parts[i].fs] = <<"vfat", "vfat", "ext4", "vfat", Absent, "btrfs">>
    /\ [i \in 1..5 |-> parts[i].size] =
        <<PI_SELECTOR_SIZE, ESP_SIZE, ROOT_SIZE, ESP_SIZE, ROOT_SIZE>>
    /\ parts[6].size >= DATA_MINIMUM

-----------------------------------------------------------------------------
\* install.targets and install.plan

\* compute_plan's refusals, in order
Admit(m, r, params) ==
    \E d \in ObserveDisks(m) :
        /\ d.device = params.disk
        /\ ~d.protected
        /\ d.eligible
        /\ \A o \in ObserveDisks(m) : o.device # d.device => ~o.punar
        /\ d.serial # Absent
        /\ ManifestValid(r) /\ r.platform = m.platform
        /\ PartitionPlan(d.size, d.sector, m.platform, params.encrypted) # Absent
        /\ ~ReportFails(m.image, m.hardware)
        /\ GraphicsUsable(m.image, m.hardware)
        /\ m.platform = "uefi" =>
            UefiRecoveryFloor(PartitionPlan(d.size, d.sector, m.platform, params.encrypted), r)

\* The plan, with all that its token is taken over.
PlanOf(m, r, params) ==
    LET d == ObserveDisk(m, params.disk)
    IN [disk |-> d.device, size |-> d.size, sector |-> d.sector, serial |-> d.serial,
        platform |-> m.platform, encrypted |-> params.encrypted, release |-> r,
        partitions |-> PartitionPlan(d.size, d.sector, m.platform, params.encrypted),
        overall |-> Overall(m.image, m.hardware)]

NothingPlanned ==
    /\ targets = Absent
    /\ plan = Absent
    /\ table = Absent
PlanInit(m, r) == machine = m /\ release = r /\ NothingPlanned

\* install.targets
ListTargets ==
    /\ targets = Absent
    /\ targets' = {d \in ObserveDisks(machine) : ~d.protected}
    /\ UNCHANGED <<machine, release, plan, table>>

\* install.plan with the answers of the page; validate_answers took them.
ComputePlan(params) ==
    /\ targets # Absent /\ plan = Absent
    /\ Admit(machine, release, params)
    /\ plan' = PlanOf(machine, release, params)
    /\ UNCHANGED <<machine, release, targets, table>>

-----------------------------------------------------------------------------
\* systemd-repart over the shipped definitions (repart.d)

Definition(name, size, fs, encrypted, copy) ==
    [name |-> name, size |-> size, fs |-> fs, encrypted |-> encrypted, copy |-> copy]
InstallDefinitions ==
    [uefi |-> (10 :> Definition("ESP", ESP_SIZE, "vfat", FALSE, FALSE)
            @@ 20 :> Definition("ROOT-A", ROOT_SIZE, "ext4", FALSE, TRUE)
            @@ 30 :> Definition("ROOT-B", ROOT_SIZE, Absent, FALSE, FALSE)
            @@ 50 :> Definition("DATA", DATA_MINIMUM, "btrfs", FALSE, FALSE)),
     pi |-> (5 :> Definition("SELECT", PI_SELECTOR_SIZE, "vfat", FALSE, FALSE)
          @@ 10 :> Definition("BOOT-A", ESP_SIZE, "vfat", FALSE, FALSE)
          @@ 20 :> Definition("ROOT-A", ROOT_SIZE, "ext4", FALSE, TRUE)
          @@ 30 :> Definition("BOOT-B", ESP_SIZE, "vfat", FALSE, FALSE)
          @@ 40 :> Definition("ROOT-B", ROOT_SIZE, Absent, FALSE, FALSE)
          @@ 50 :> Definition("DATA", DATA_MINIMUM, "btrfs", FALSE, FALSE))]
EncryptedDefinitions == 50 :> Definition("DATA", DATA_MINIMUM, "btrfs", TRUE, FALSE)
StreamingDefinitions == 20 :> Definition("ROOT-A", ROOT_SIZE, "ext4", FALSE, FALSE)

\* Mutant: the first directory to name a file wins.
RenderEarlierWins(platform, encrypted) ==
    InstallDefinitions[platform]
        @@ (IF encrypted THEN EncryptedDefinitions ELSE StreamingDefinitions)
        @@ StreamingDefinitions

\* render_repart_definitions: a later directory's file replaces an earlier one.
RenderRepartDefinitions(platform, encrypted) ==
    StreamingDefinitions
        @@ (IF encrypted THEN EncryptedDefinitions ELSE StreamingDefinitions)
        @@ InstallDefinitions[platform]

\* systemd-repart on an empty table: the partitions in file order, each at the
\* end of the last, the last one grown to the end of the usable space.
SystemdRepart(size, sector, definitions) ==
    LET order == SetToSortSeq(DOMAIN definitions, LAMBDA a, b : a < b)
        first == AlignUp(GPT_LBAS * sector, ALIGNMENT)
        start[i \in 1..Len(order)] ==
            IF i = 1 THEN first ELSE start[i - 1] + definitions[order[i - 1]].size
        end == AlignDown(size - GptTrailer(sector), Max({REPART_GRAIN, sector}))
    IN [i \in 1..Len(order) |->
          LET def == definitions[order[i]]
          IN PartitionEntry(i, def.name, start[i], IF i = Len(order) THEN end - start[i] ELSE def.size,
                       def.fs, def.encrypted)]

\* What else may be in a table that is read back: an entry lost, one kept from
\* before, one moved.
OtherTables(t) ==
    {SubSeq(t, 1, Len(t) - 1),
     Append(t, PartitionEntry(Len(t) + 1, "OTHER", t[1].offset, ALIGNMENT, Absent, FALSE)),
     [t EXCEPT ![2].offset = @ + ALIGNMENT],
     [t EXCEPT ![Len(t)].size = @ - REPART_GRAIN]}

\* verify_post_repart_gpt: entry by entry, none missing and none left over
GptIsPlanned(t, partitions) ==
    /\ \A i \in 1..Len(t) :
        /\ i <= Len(partitions)
        /\ t[i].number = partitions[i].number /\ t[i].name = partitions[i].name
        /\ t[i].offset = partitions[i].offset /\ t[i].size = partitions[i].size
    /\ Len(t) = Len(partitions)

\* prepare_disk_layout: repart, then, on UEFI, the table is read back; on the
\* Raspberry Pi the boot phase looks at the plan.
PrepareLayout(read) ==
    /\ plan # Absent /\ table = Absent
    /\ LET made == SystemdRepart(plan.size, plan.sector,
                                 RenderRepartDefinitions(plan.platform, plan.encrypted))
       IN /\ read \in {made} \cup OtherTables(made)
          /\ table' = [made |-> made, read |-> read,
                       accepted |-> IF plan.platform = "uefi"
                                    THEN GptIsPlanned(read, plan.partitions)
                                    ELSE ValidatePiBootPlan(plan.partitions, plan.encrypted,
                                                            plan.release)]
    /\ UNCHANGED <<machine, release, targets, plan>>

TablesRead == IF plan = Absent THEN {}
          ELSE LET made == SystemdRepart(plan.size, plan.sector,
                                RenderRepartDefinitions(plan.platform, plan.encrypted))
               IN {made} \cup OtherTables(made)

PlanNext ==
    \/ ListTargets
    \/ \E disk \in DOMAIN machine.disks, encrypted \in BOOLEAN :
            ComputePlan([disk |-> disk, encrypted |-> encrypted])
    \/ \E read \in TablesRead : PrepareLayout(read)

-----------------------------------------------------------------------------
\* Properties

\* Reference: what a device physically stands on, and what nothing in use does.
StandsOn(m, x) ==
    m.slaves[x] \cup (IF m.backing[x] = {} THEN {} ELSE Owner(m, m.backing[x]))
        \cup (IF x \in DOMAIN m.parts THEN {m.parts[x].disk} ELSE {})
NotInUse(m, d) ==
    \E inUse \in SUBSET (m.devices \ {d}) :
        /\ {r.device : r \in m.mounts} \subseteq inUse
        /\ \A x \in inUse : StandsOn(m, x) \subseteq inUse

\* A disk that anything mounted stands on, through any stack of mappings, loop
\* files and partitions, is neither offered by install.targets nor admitted by
\* install.plan, and neither is one with the answers volume; a plan is admitted
\* only while no other disk carries Punar's fixed PARTUUIDs (observe_disks,
\* protected_block_devices, compute_plan).
OfferedIsSafe ==
    LET offered == (IF targets = Absent THEN {} ELSE {d.device : d \in targets})
                    \cup (IF plan = Absent THEN {} ELSE {plan.disk})
    IN /\ \A d \in offered :
            /\ NotInUse(machine, d)
            /\ \A p \in DOMAIN machine.parts :
                machine.parts[p].disk = d => machine.parts[p].label # "PUNAR_ANSWR"
       /\ plan # Absent =>
            \A p \in DOMAIN machine.parts :
                machine.parts[p].punar => machine.parts[p].disk = plan.disk

\* The table systemd-repart writes from the merged definition files is the plan
\* the person confirmed, to the sector, on every disk the installer calls
\* eligible: nothing overlaps, the data partition is at least its minimum, the
\* whole ends before the backup table, only DATA is encrypted and only when
\* asked; the numbers later phases write to are those of their partitions.  A
\* table read back that differs is refused, and on the Raspberry Pi the boot
\* phase takes the layout of every plan whose boot image fits (partition_plan,
\* render_repart_definitions, verify_post_repart_gpt,
\* validate_raspberry_pi_boot_plan).
PlanIsWhatRepartMakes ==
    /\ targets # Absent =>
        \A d \in targets : d.eligible =>
            PartitionPlan(d.size, d.sector, machine.platform, TRUE) # Absent
    /\ plan # Absent =>
        LET parts == plan.partitions
            last == parts[Len(parts)]
        IN /\ \A i \in 1..(Len(parts) - 1) :
                parts[i].offset + parts[i].size <= parts[i + 1].offset
           /\ \A i \in 1..Len(parts) : parts[i].offset % ALIGNMENT = 0
                                        /\ parts[i].size % plan.sector = 0
           /\ parts[1].offset >= GPT_LBAS * plan.sector
           /\ last.size >= DATA_MINIMUM
           /\ last.offset + last.size + GptTrailer(plan.sector) <= plan.size
           /\ parts[RootANumber(plan.platform)].name = "ROOT-A"
           /\ parts[RootBNumber(plan.platform)].name = "ROOT-B"
           /\ parts[DataPartitionNumber(plan.platform)].name = "DATA"
           /\ parts[BootANumber(plan.platform)].name \in {"ESP", "BOOT-A"}
           /\ plan.platform = "uefi" =>
                Max({plan.release.a.boot, plan.release.b.boot})
                    + plan.release.a.boot + plan.release.b.boot
                    + ESP_BOOTLOADER_COPIES * BOOTLOADER_MAX <= ESP_SIZE
    /\ table # Absent =>
        /\ table.made = plan.partitions
        /\ IF plan.platform = "uefi" THEN table.accepted <=> table.read = plan.partitions
                                    ELSE table.accepted <=> Fits(plan.release.a.boot, ESP_SIZE)

\* A plan is admitted only on a machine with a graphics device whose bound
\* driver's device some module of the image claims, however many modules claim
\* it; and a report that says "full" hides no missing firmware, so that the
\* warning in the plan the person confirms is the true one (classify_device,
\* bounded_claiming_modules, wildcard_matches).
AdmittedHasDesktop ==
    plan # Absent =>
        LET claimed(d) == {a.module : a \in {a \in machine.image.aliases :
                                                Matches(a.pattern, d.modalias)}}
            served(d) == /\ d.modalias # Missing /\ d.driver # Missing
                         /\ BoundModule(d) \in claimed(d)
                         /\ machine.image.modinfo[BoundModule(d)] \notin {Missing, Unreadable}
                         /\ \A r \in machine.image.modinfo[BoundModule(d)] :
                                \E f \in InventoryFirmware(machine.image) :
                                    Matches(r, f.path) \/ Matches(r, f.plain)
        IN /\ \E d \in machine.hardware :
                d.function = "graphics" /\ d.driver # Missing
                    /\ d.modalias # Missing /\ claimed(d) # {}
           /\ plan.overall = "full" <=> \A d \in machine.hardware : served(d)

\* The plan a person confirms is safe, is what systemd-repart then makes, and
\* leads to a machine with a desktop (compute_plan).
PlanIsSound == OfferedIsSafe /\ PlanIsWhatRepartMakes /\ AdmittedHasDesktop
=============================================================================
