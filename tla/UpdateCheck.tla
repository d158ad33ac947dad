---------------------------- MODULE UpdateCheck ----------------------------
(***************************************************************************)
(* How punard finds out about a release and brings it home                 *)
(* (update_check.rs, punar-common/update.rs): the signed channel document   *)
(* and its cache, the three places that decide whether a channel admits a   *)
(* release, and the private cache of release files that update.apply fills  *)
(* before a platform's transaction writes a slot.  A document and its       *)
(* signature are two files and two requests, a check reads its channel      *)
(* before it has update_lock, and the power may go between any two writes.  *)
(***************************************************************************)
EXTENDS Integers, Sequences, FiniteSets

CONSTANTS
    Callers,            \* connections that check or apply
    Channels,
    Slots,              \* the root slots a UEFI release has artifacts for
    Publications,       \* what the repository publishes, in order
    Builds,             \* the signed release manifests, by number
    Buckets,            \* cohort_bucket of this device for each release, in RolloutUnits
    MaxFaults, MaxSelections,
    Unheld, None

VARIABLES
    running,            \* IMAGE_VERSION of the running system
    source,             \* "https", one directory per channel, or a local "directory"
    published,          \* how much of Publications is out
    selected,           \* the effective value of system.update_channel
    cached,             \* verified-channel.json, its signature, and its age
    files,              \* the release cache: documents and artifacts by version
    dirty,              \* artifacts whose bytes no sync has followed
    request, holder,    \* the requests and the one that has update_lock
    answered,           \* whether the last check was answered from verified metadata
    faults, selections

cache == <<cached, files, dirty>>
bounds == <<faults, selections>>
world == <<running, source, published, selected, selections>>
vars == <<world, cache, request, holder, answered, faults>>

Versions == {Publications[i].current : i \in DOMAIN Publications}
Parts == Slots \X {"payload", "boot_artifact"}
NoRequest == [pc |-> "idle", kind |-> "check", force |-> FALSE, channel |-> "stable",
         version |-> 0, downgrade |-> FALSE, slot |-> "A", doc |-> 0, build |-> 0]

-----------------------------------------------------------------------------
\* Admission: the same rule in three places, and the manifest's own.

InCohort(m) == Buckets[m.current] < m.rollout_bps

\* check_result
CheckAdmissible(m, current) ==
    m.current > current /\ ~m.halted /\ current >= m.min_supported /\ InCohort(m)

\* ChannelMetadata::admit
ChannelAdmits(m, channel, current) ==
    /\ m.channel = channel
    /\ ~m.halted /\ current >= m.min_supported /\ m.current > current /\ InCohort(m)

\* prepare_release
HeadAdmitted(m, requested, current, downgrade) ==
    /\ m.current = requested
    /\ ~m.halted /\ current >= m.min_supported /\ InCohort(m)
    /\ downgrade \/ m.current > current

\* ReleaseManifest::admit
ManifestAdmits(b, channel, current, downgrade) ==
    /\ b.valid /\ b.channel = channel
    /\ downgrade \/ b.version > current
    /\ current >= b.min_from

\* artifacts_for_slot
ArtifactsFor(slot) == {p \in Parts : p[1] = slot}

-----------------------------------------------------------------------------
\* The repository.

\* fetch_fresh and fetch_repository_bytes: the directory has one channel.
Out(channel) == {i \in 1 .. published : source = "https" => Publications[i].channel = channel}
Newest(S) == CHOOSE i \in S : \A j \in S : j <= i
Served(channel) == Newest(Out(channel))
Named(channel, version) == {i \in Out(channel) : Publications[i].current = version}
ServedBuild(channel, version) == Publications[Newest(Named(channel, version))].build

\* verify_channel_metadata: one signature signs one document.
ChannelVerified(doc, sig, channel) ==
    doc # 0 /\ doc = sig /\ Publications[doc].channel = channel

Publish ==
    /\ published < Len(Publications)
    /\ published' = published + 1
    /\ UNCHANGED <<running, source, selected, selections, cache, request, holder, answered, faults>>

\* policy.set or a new organization layer; the value may be one the daemon
\* does not know.
SelectChannel ==
    /\ selections < MaxSelections
    /\ selections' = selections + 1
    /\ selected' \in (Channels \cup {"invalid"}) \ {selected}
    /\ UNCHANGED <<running, source, published, cache, request, holder, answered, faults>>

Init ==
    /\ running \in {1, 2}
    /\ source \in {"https", "directory"}
    /\ published = 2 /\ selected = "stable"
    /\ cached = [doc |-> 0, sig |-> 0, fresh |-> FALSE]
    /\ files = [v \in Versions |-> [doc |-> 0, sig |-> 0, art |-> [p \in Parts |-> None]]]
    /\ dirty = {}
    /\ request = [c \in Callers |-> NoRequest] /\ holder = Unheld
    /\ answered = TRUE
    /\ faults = 0 /\ selections = 0

-----------------------------------------------------------------------------
\* update.check and update.apply up to the transaction.

At(c, pc) == request[c].pc = pc
Goto(c, pc) == request' = [request EXCEPT ![c].pc = pc]
Finish(c) == request' = [request EXCEPT ![c] = NoRequest] /\ holder' = Unheld
CachedHead == Publications[cached.doc]

\* handle_update_check reads the channel before it waits for the lock.
AskCheck(c, force) ==
    /\ At(c, "idle")
    /\ selected \in Channels
    /\ request' = [request EXCEPT ![c] = [NoRequest EXCEPT !.pc = "waiting", !.force = force,
                                                     !.channel = selected]]
    /\ UNCHANGED <<world, cache, holder, answered, faults>>

AskApply(c, v, downgrade, slot) ==
    /\ At(c, "idle")
    /\ request' = [request EXCEPT ![c] = [NoRequest EXCEPT !.pc = "waiting", !.kind = "apply",
                        !.force = TRUE, !.version = v, !.downgrade = downgrade, !.slot = slot]]
    /\ UNCHANGED <<world, cache, holder, answered, faults>>

\* Mutant: a cache never grows too old to use.
CacheIsThere == cached.doc # 0 /\ cached.sig # 0

\* cache_is_fresh
CacheIsFresh == cached.doc # 0 /\ cached.sig # 0 /\ cached.fresh

Lock(c) ==
    /\ At(c, "waiting") /\ holder = Unheld
    /\ IF request[c].kind = "apply" /\ selected \notin Channels
       THEN Finish(c)
       ELSE /\ holder' = c
            /\ request' = [request EXCEPT
                  ![c].pc = IF ~request[c].force /\ CacheIsFresh THEN "cached" ELSE "document",
                  ![c].channel = IF request[c].kind = "apply" THEN selected ELSE @]
    /\ UNCHANGED <<world, cache, answered, faults>>

\* A check from the cache: what it finds there is verified again.
UseCached(c) ==
    /\ At(c, "cached")
    /\ Finish(c)
    /\ answered' = ChannelVerified(cached.doc, cached.sig, request[c].channel)
    /\ UNCHANGED <<world, cache, faults>>

FetchDocument(c) ==
    /\ At(c, "document")
    /\ Out(request[c].channel) # {}
    /\ request' = [request EXCEPT ![c].pc = "signature", ![c].doc = Served(request[c].channel)]
    /\ UNCHANGED <<world, cache, holder, answered, faults>>

FetchSignature(c) ==
    /\ At(c, "signature")
    /\ IF ChannelVerified(request[c].doc, Served(request[c].channel), request[c].channel)
       THEN Goto(c, "cacheSignature") /\ UNCHANGED <<holder, answered>>
       ELSE Finish(c) /\ answered' = FALSE
    /\ UNCHANGED <<world, cache, faults>>

CacheSignature(c) ==
    /\ At(c, "cacheSignature")
    /\ cached' = [cached EXCEPT !.sig = request[c].doc]
    /\ Goto(c, "cacheDocument")
    /\ UNCHANGED <<world, files, dirty, holder, answered, faults>>

CacheDocument(c) ==
    /\ At(c, "cacheDocument")
    /\ cached' = [cached EXCEPT !.doc = request[c].doc, !.fresh = TRUE]
    /\ answered' = TRUE
    /\ IF request[c].kind = "check" THEN Finish(c) ELSE Goto(c, "prepare") /\ UNCHANGED holder
    /\ UNCHANGED <<world, files, dirty, faults>>

\* prepare_release: the cached pair is read and verified once more.
Prepare(c) ==
    /\ At(c, "prepare")
    /\ IF /\ ChannelVerified(cached.doc, cached.sig, request[c].channel)
          /\ HeadAdmitted(CachedHead, request[c].version, running, request[c].downgrade)
       THEN Goto(c, "manifest") /\ UNCHANGED holder
       ELSE Finish(c)
    /\ UNCHANGED <<world, cache, answered, faults>>

FetchManifest(c) ==
    /\ At(c, "manifest")
    /\ request' = [request EXCEPT ![c].pc = "manifestSignature",
                      ![c].build = ServedBuild(request[c].channel, request[c].version)]
    /\ UNCHANGED <<world, cache, holder, answered, faults>>

FetchManifestSignature(c) ==
    /\ At(c, "manifestSignature")
    /\ LET b == Builds[request[c].build] IN
       IF /\ request[c].build = ServedBuild(request[c].channel, request[c].version)
          /\ ManifestAdmits(b, request[c].channel, running, request[c].downgrade)
          /\ b.version = request[c].version
       THEN Goto(c, "keepSignature") /\ UNCHANGED holder
       ELSE Finish(c)
    /\ UNCHANGED <<world, cache, answered, faults>>

KeepSignature(c) ==
    /\ At(c, "keepSignature")
    /\ files' = [files EXCEPT ![request[c].version].sig = request[c].build]
    /\ Goto(c, "keepManifest")
    /\ UNCHANGED <<world, cached, dirty, holder, answered, faults>>

KeepManifest(c) ==
    /\ At(c, "keepManifest")
    /\ files' = [files EXCEPT ![request[c].version].doc = request[c].build]
    /\ Goto(c, "room")
    /\ UNCHANGED <<world, cached, dirty, holder, answered, faults>>

\* available_bytes against what is not there yet; a file of the right size
\* counts as there, whatever is in it.
Room(c) ==
    /\ At(c, "room")
    /\ LET missing == {p \in ArtifactsFor(request[c].slot) :
                           files[request[c].version].art[p] = None}
       IN \E available \in 0 .. Cardinality(ArtifactsFor(request[c].slot)) :
            IF available < Cardinality(missing)
            THEN Finish(c)
            ELSE Goto(c, "payload") /\ UNCHANGED holder
    /\ UNCHANGED <<world, cache, answered, faults>>

\* verify_cached_artifact: the digest of the file that is there.
VerifiedArtifact(c, p) ==
    files[request[c].version].art[p] = [build |-> request[c].build, whole |-> TRUE]

\* fetch_verified_artifact: a digest that does not match leaves the old file
\* where it is; one that does is renamed over it, synced only when the copy
\* came from the directory.
FetchArtifact(c, part, next) ==
    /\ At(c, part)
    /\ LET p == <<request[c].slot, part>> IN
       \/ /\ VerifiedArtifact(c, p)
          /\ Goto(c, next)
          /\ UNCHANGED <<cache, holder>>
       \/ /\ ~VerifiedArtifact(c, p)
          /\ IF ServedBuild(request[c].channel, request[c].version) = request[c].build
             THEN /\ files' = [files EXCEPT ![request[c].version].art[p] =
                                  [build |-> request[c].build, whole |-> TRUE]]
                  /\ dirty' = IF source = "https" THEN dirty \cup {<<request[c].version, p>>}
                              ELSE dirty \ {<<request[c].version, p>>}
                  /\ Goto(c, next) /\ UNCHANGED <<cached, holder>>
             ELSE Finish(c) /\ UNCHANGED cache
    /\ UNCHANGED <<world, answered, faults>>

\* What the transaction looks at before it writes: the signed manifest as it
\* is on disk (load_verified_manifest) and the two files of its slot by digest
\* (verify_artifact, verify_file, validate_uki_binding).
LoadVerifiedManifest(r) ==
    files[r.version].doc = files[r.version].sig /\ files[r.version].doc = r.build
VerifyFiles(r) ==
    \A p \in ArtifactsFor(r.slot) :
        files[r.version].art[p] = [build |-> files[r.version].doc, whole |-> TRUE]

\* The release goes to the platform's transaction, and the lock with it.
Prepared(c) ==
    /\ At(c, "prepared")
    /\ Finish(c)
    /\ UNCHANGED <<world, cache, answered, faults>>

Fault == faults < MaxFaults /\ faults' = faults + 1

\* The network, the disk or the repository fails the request.
RequestFails(c) ==
    /\ holder = c
    /\ Fault
    /\ Finish(c)
    /\ answered' = (answered /\ request[c].kind = "apply")
    /\ UNCHANGED <<world, cache>>

\* The power goes: renamed files are there, unsynced bytes may not be.
PowerLoss ==
    /\ Fault
    /\ request' = [c \in Callers |-> NoRequest] /\ holder' = Unheld
    /\ \E lost \in SUBSET dirty :
        files' = [v \in Versions |-> [files[v] EXCEPT !.art = [p \in Parts |->
                    IF <<v, p>> \in lost THEN [@[p] EXCEPT !.whole = FALSE] ELSE @[p]]]]
    /\ dirty' = {}
    /\ UNCHANGED <<world, cached, answered>>

\* DEFAULT_CACHE_MAX_AGE goes by.
Ages ==
    /\ cached.fresh
    /\ cached' = [cached EXCEPT !.fresh = FALSE]
    /\ UNCHANGED <<world, files, dirty, request, holder, answered, faults>>

\* A channel nothing was published on is one the repository does not have.
NoSuchChannel(c) ==
    /\ At(c, "document") /\ Out(request[c].channel) = {}
    /\ Finish(c)
    /\ answered' = FALSE
    /\ UNCHANGED <<world, cache, faults>>

Step(c) ==
    \/ Lock(c) \/ UseCached(c)
    \/ FetchDocument(c) \/ FetchSignature(c) \/ CacheSignature(c) \/ CacheDocument(c)
    \/ Prepare(c) \/ FetchManifest(c) \/ FetchManifestSignature(c)
    \/ KeepSignature(c) \/ KeepManifest(c) \/ Room(c)
    \/ FetchArtifact(c, "payload", "boot_artifact")
    \/ FetchArtifact(c, "boot_artifact", "prepared")
    \/ Prepared(c)

Next ==
    \/ \E c \in Callers :
        \/ \E force \in BOOLEAN : AskCheck(c, force)
        \/ \E v \in Versions, d \in BOOLEAN, s \in Slots : AskApply(c, v, d, s)
        \/ Step(c) \/ NoSuchChannel(c) \/ RequestFails(c)
    \/ Publish \/ SelectChannel \/ PowerLoss \/ Ages

Spec == Init /\ [][Next]_vars

-----------------------------------------------------------------------------
(* Properties *)

\* What prepare_release hands to a transaction is complete and of one build:
\* stage and stage_bundle, which look at the manifest, its signature and the
\* pair of artifacts of the slot they will write once more, never refuse what
\* an earlier apply, a rebuilt release or a loss of power left in the cache,
\* and the device is one the build may start from.
PreparedIsOneBuild ==
    \A c \in Callers : At(c, "prepared") =>
        LET r == request[c] IN
        /\ LoadVerifiedManifest(r) /\ VerifyFiles(r)
        /\ Builds[r.build].channel = r.channel /\ running >= Builds[r.build].min_from

\* update.check calls a head admissible exactly when update.apply takes it on
\* the same cached document, and both agree with ChannelMetadata::admit.
AdmissionsAgree ==
    cached.doc # 0 /\ cached.doc = cached.sig =>
        LET m == Publications[cached.doc] IN
        /\ CheckAdmissible(m, running) <=> HeadAdmitted(m, m.current, running, FALSE)
        /\ CheckAdmissible(m, running) <=> ChannelAdmits(m, m.channel, running)

\* A cached pair that does not verify for the channel in force, after a loss
\* of power or a change of channel, does not last: somebody who goes on
\* asking is answered from verified metadata again, without forcing a check,
\* as long as the repository has the channel.
Offered == /\ selected \in Channels /\ Out(selected) # {}
           /\ Publications[Served(selected)].channel = selected
ChecksRecover == ~answered ~> answered \/ ~Offered
=============================================================================
