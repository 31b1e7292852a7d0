---------------------------- MODULE ArtifactStore ----------------------------
(***************************************************************************)
(* The store of durable artifacts, file by file: an artifact is a data     *)
(* file and a metadata file that names its owner and its expiry, written   *)
(* in that order and swept in that order.  Two backends keep them: the     *)
(* local directory, which several servers on one machine share, and the    *)
(* object storage, where nothing is swept and every request may fail.      *)
(* seed_media_export_artifact and output_path copy an artifact to a file   *)
(* of the user, by one of two writers: through a directory descriptor,     *)
(* where the platform has those, and by path elsewhere.                    *)
(*                                                                         *)
(* Every file is written under a temporary name and renamed, so no reader  *)
(* sees half of one; what a crash leaves under that name is left out.      *)
(***************************************************************************)
EXTENDS Integers, FiniteSets

CONSTANTS
    Workers,        \* servers on one directory; calls of one server on objects
    Ids,            \* artifact IDs, each drawn once
    Principals,
    Ttl,            \* artifact_ttl_seconds, in ticks
    EndOfTime,      \* bound: the last tick
    MaxAttempts,    \* artifact_download_max_attempts
    MaxRedirects,
    MaxCrashes,     \* bound
    None

ASSUME StoreAssumption ==
    /\ Ttl \in Nat \ {0} /\ EndOfTime \in Nat /\ MaxAttempts \in Nat \ {0}
    /\ MaxRedirects \in Nat /\ MaxCrashes \in Nat
    /\ None \notin Ids \cup Principals /\ None \notin [owner : Principals, expires : Nat]

VARIABLES
    backend,    \* "files" or "objects"
    writer,     \* of user files: "descriptor" or "portable", by the platform
    data,       \* data[i]: the content of the data file, or None
    meta,       \* meta[i]: the metadata file, or None
    out,        \* the user's file: content or None
    work,       \* work[w]: what worker w is doing
    refs,       \* refs[i]: the reference a put returned, or None
    cut,        \* IDs whose put failed or died after its data was written
    clock,
    crashes

vars == <<backend, writer, data, meta, out, work, refs, cut, clock, crashes>>
platform == <<backend, writer>>
files == <<data, meta>>

Foreign == "foreign"    \* content of the user's file that is no artifact's
Link == "link"          \* a symbolic link: a name that is taken, content not read

Idle == [pc |-> "idle", op |-> "none", by |-> None, id |-> None, expires |-> 0, tries |-> 0,
         hops |-> 0, todo |-> {}, got |-> None, replace |-> FALSE]

Init ==
    /\ backend \in {"files", "objects"}
    /\ writer \in {"descriptor", "portable"}
    /\ data = [i \in Ids |-> None]
    /\ meta = [i \in Ids |-> None]
    /\ out \in {None, Foreign, Link}
    /\ work = [w \in Workers |-> Idle]
    /\ refs = [i \in Ids |-> None]
    /\ cut = {}
    /\ clock = 0
    /\ crashes = 0

Goto(w, l) == work' = [work EXCEPT ![w].pc = l]
Finish(w) == work' = [work EXCEPT ![w] = Idle]

Fresh == {i \in Ids : data[i] = None /\ meta[i] = None /\ refs[i] = None /\ i \notin cut
                        /\ \A w \in Workers : work[w].id # i}

-----------------------------------------------------------------------------
(* Storing.  An artifact's content is its ID: no two are the same.         *)

\* put_base64 refuses what does not decode, is too large, or has a MIME type
\* its media type does not allow; a refused call changes nothing.
PutBase64(w, p) ==
    /\ work[w].pc = "idle"
    /\ \E i \in Fresh :
          work' = [work EXCEPT ![w] = [Idle EXCEPT !.pc = "data", !.op = "put", !.by = p, !.id = i,
                                                   !.expires = clock + Ttl]]
    /\ UNCHANGED <<platform, files, out, refs, cut, clock, crashes>>

CopyFromTrustedUrl(w, p) ==
    /\ work[w].pc = "idle"
    /\ \E i \in Fresh :
          work' = [work EXCEPT ![w] = [Idle EXCEPT !.pc = "hop", !.op = "copy", !.by = p, !.id = i,
                                                   !.tries = 1]]
    /\ UNCHANGED <<platform, files, out, refs, cut, clock, crashes>>

\* What one pinned request comes to.
HopReplies == {"refused", "gone", "too_large", "busy", "broken", "redirect", "ok"}

\* One request of a download.  Every hop is resolved and its host checked
\* before the request.  A failed transport, 408, 429 and 5xx restart the
\* download from the first URL; a refused host, an oversized body, 404 and
\* 410 and a type the media does not allow end it.
Hop(w) ==
    /\ work[w].pc = "hop"
    /\ \E reply \in HopReplies :
          CASE reply = "ok" ->
                 work' = [work EXCEPT ![w].pc = "data", ![w].expires = clock + Ttl,
                                      ![w].tries = 0, ![w].hops = 0]
            [] reply = "redirect" /\ work[w].hops < MaxRedirects ->
                 work' = [work EXCEPT ![w].hops = @ + 1]
            [] reply \in {"busy", "broken"} /\ work[w].tries < MaxAttempts ->
                 work' = [work EXCEPT ![w].tries = @ + 1, ![w].hops = 0]
            [] OTHER -> Finish(w)
    /\ UNCHANGED <<platform, files, out, refs, cut, clock, crashes>>

\* _atomic_write, or an upload with its retries.
WriteData(w) ==
    /\ work[w].pc = "data"
    /\ data' = [data EXCEPT ![work[w].id] = work[w].id]
    /\ Goto(w, "meta")
    /\ UNCHANGED <<platform, meta, out, refs, cut, clock, crashes>>

WriteMeta(w) ==
    LET i == work[w].id IN
    /\ work[w].pc = "meta"
    /\ meta' = [meta EXCEPT ![i] = [owner |-> work[w].by, expires |-> work[w].expires]]
    /\ refs' = [refs EXCEPT ![i] = [owner |-> work[w].by, expires |-> work[w].expires]]
    /\ Finish(w)
    /\ UNCHANGED <<platform, data, out, cut, clock, crashes>>

\* No space, no permission, or a gateway that stays away: the call fails, and
\* a data file already written is not taken back.
WriteFails(w) ==
    /\ work[w].pc \in {"data", "meta"}
    /\ cut' = IF work[w].pc = "meta" THEN cut \cup {work[w].id} ELSE cut
    /\ Finish(w)
    /\ UNCHANGED <<platform, files, out, refs, clock, crashes>>

-----------------------------------------------------------------------------
(* Reading, by seed_media_get_artifact, the artifact resource and exports. *)

MayRead(i, p) == meta[i].owner = p

\* The local store looks for the data file first, the object store reads the
\* metadata first.
Open == IF backend = "files" THEN "find" ELSE "load"

Get(w, p) ==
    /\ work[w].pc = "idle"
    /\ \E i \in Ids :
          work' = [work EXCEPT ![w] = [Idle EXCEPT !.pc = Open, !.op = "get", !.by = p, !.id = i]]
    /\ UNCHANGED <<platform, files, out, refs, cut, clock, crashes>>

Find(w) ==
    /\ work[w].pc = "find"
    /\ IF data[work[w].id] = None THEN Finish(w) ELSE Goto(w, "load")
    /\ UNCHANGED <<platform, files, out, refs, cut, clock, crashes>>

Load(w) ==
    LET i == work[w].id IN
    /\ work[w].pc = "load"
    /\ IF meta[i] = None \/ ~MayRead(i, work[w].by) THEN Finish(w) ELSE Goto(w, "read")
    /\ UNCHANGED <<platform, files, out, refs, cut, clock, crashes>>

\* Of an export the bytes go on to the user's file.
Read(w) ==
    LET content == data[work[w].id] IN
    /\ work[w].pc = "read"
    /\ CASE content = None -> Finish(w)
         [] content # None /\ work[w].op = "get" ->
              work' = [work EXCEPT ![w].pc = "served", ![w].got = content]
         [] content # None /\ work[w].op = "export" ->
              work' = [work EXCEPT ![w].pc = "digest", ![w].got = content]
    /\ UNCHANGED <<platform, files, out, refs, cut, clock, crashes>>

\* A download that fails is reported as a missing artifact.
ReadFails(w) ==
    /\ backend = "objects"
    /\ work[w].pc \in {"load", "read"}
    /\ Finish(w)
    /\ UNCHANGED <<platform, files, out, refs, cut, clock, crashes>>

Serve(w) ==
    /\ work[w].pc = "served"
    /\ Finish(w)
    /\ UNCHANGED <<platform, files, out, refs, cut, clock, crashes>>

-----------------------------------------------------------------------------
(* Exporting to the user's file (write_output_file).  A target that is no  *)
(* file inside an output root is refused before the call does anything.    *)

Export(w, p) ==
    /\ work[w].pc = "idle"
    /\ \E i \in Ids, replace \in BOOLEAN :
          work' = [work EXCEPT ![w] = [Idle EXCEPT !.pc = Open, !.op = "export", !.by = p,
                                                   !.id = i, !.replace = replace]]
    /\ UNCHANGED <<platform, files, out, refs, cut, clock, crashes>>

\* The same bytes are a success, other bytes need overwrite; the digest of a
\* link or of an unreadable file is that of no file.
Digest(w) ==
    /\ work[w].pc = "digest" /\ writer = "descriptor"
    /\ IF out = work[w].got \/ (out \notin {None, Link} /\ ~work[w].replace) THEN Finish(w)
       ELSE Goto(w, "publish")
    /\ UNCHANGED <<platform, files, out, refs, cut, clock, crashes>>

\* The portable writer also asks whether the name is taken; a link that leads
\* nowhere is not.
DigestPortable(w) ==
    /\ work[w].pc = "digest" /\ writer = "portable"
    /\ IF out = work[w].got \/ (out \notin {None, Link} /\ ~work[w].replace) THEN Finish(w)
       ELSE Goto(w, "publish") \/ (out = Link /\ ~work[w].replace /\ Finish(w))
    /\ UNCHANGED <<platform, files, out, refs, cut, clock, crashes>>

\* With overwrite the file is renamed over the target; without, it is linked,
\* which fails when the target has come to exist.
Publish(w) ==
    /\ work[w].pc = "publish" /\ writer = "descriptor"
    /\ out' = IF work[w].replace \/ out = None THEN work[w].got ELSE out
    /\ Finish(w)
    /\ UNCHANGED <<platform, files, refs, cut, clock, crashes>>

\* By path it is renamed over whatever the target is by now.
PublishPortable(w) ==
    /\ work[w].pc = "publish" /\ writer = "portable"
    /\ out' = work[w].got
    /\ Finish(w)
    /\ UNCHANGED <<platform, files, refs, cut, clock, crashes>>

\* The user writes, links or removes the file.
UserActs ==
    /\ out' \in {None, Foreign, Link}
    /\ UNCHANGED <<platform, files, work, refs, cut, clock, crashes>>

\* The disk refuses.
ExportFails(w) ==
    /\ work[w].pc \in {"digest", "publish"}
    /\ Finish(w)
    /\ UNCHANGED <<platform, files, out, refs, cut, clock, crashes>>

-----------------------------------------------------------------------------
(* delete_expired walks the metadata files; what fails for one of them is  *)
(* logged and left to the next sweep.                                      *)

Sweep(w) ==
    /\ work[w].pc = "idle" /\ backend = "files"
    /\ {i \in Ids : meta[i] # None} # {}
    /\ work' = [work EXCEPT ![w] = [Idle EXCEPT !.pc = "sweep", !.op = "sweep",
                                                !.todo = {i \in Ids : meta[i] # None}]]
    /\ UNCHANGED <<platform, files, out, refs, cut, clock, crashes>>

Expired(i) == meta[i] # None /\ meta[i].expires <= clock

SweepNext(w) ==
    /\ work[w].pc = "sweep"
    /\ \E i \in work[w].todo :
          work' = [work EXCEPT ![w].todo = @ \ {i},
                               ![w].pc = IF Expired(i) THEN "unlink_data" ELSE "sweep",
                               ![w].id = IF Expired(i) THEN i ELSE None]
    /\ UNCHANGED <<platform, files, out, refs, cut, clock, crashes>>

SweepEnds(w) ==
    /\ work[w].pc = "sweep" /\ work[w].todo = {}
    /\ Finish(w)
    /\ UNCHANGED <<platform, files, out, refs, cut, clock, crashes>>

\* Variant: the metadata goes first.
UnlinkMetaFirst(w) ==
    /\ work[w].pc = "unlink_data"
    /\ meta' = [meta EXCEPT ![work[w].id] = None]
    /\ Goto(w, "unlink_meta")
    /\ UNCHANGED <<platform, data, out, refs, cut, clock, crashes>>

\* Variant: unlinking a data file that is gone raises, and the sweep goes on.
UnlinkDataStrictly(w) ==
    /\ work[w].pc = "unlink_data"
    /\ data' = [data EXCEPT ![work[w].id] = None]
    /\ Goto(w, IF data[work[w].id] = None THEN "sweep" ELSE "unlink_meta")
    /\ UNCHANGED <<platform, meta, out, refs, cut, clock, crashes>>

UnlinkData(w) ==
    /\ work[w].pc = "unlink_data"
    /\ data' = [data EXCEPT ![work[w].id] = None]
    /\ Goto(w, "unlink_meta")
    /\ UNCHANGED <<platform, meta, out, refs, cut, clock, crashes>>

UnlinkMeta(w) ==
    /\ work[w].pc = "unlink_meta"
    /\ meta' = [meta EXCEPT ![work[w].id] = None]
    /\ work' = [work EXCEPT ![w].pc = "sweep", ![w].id = None]
    /\ UNCHANGED <<platform, data, out, refs, cut, clock, crashes>>

-----------------------------------------------------------------------------
Tick ==
    /\ clock < EndOfTime
    /\ clock' = clock + 1
    /\ UNCHANGED <<platform, files, out, work, refs, cut, crashes>>

\* The worker is killed between two steps.
Crash(w) ==
    /\ crashes < MaxCrashes /\ work[w].pc # "idle"
    /\ cut' = IF work[w].pc = "meta" THEN cut \cup {work[w].id} ELSE cut
    /\ crashes' = crashes + 1
    /\ Finish(w)
    /\ UNCHANGED <<platform, files, out, refs, clock>>

Begin(w, p) == PutBase64(w, p) \/ CopyFromTrustedUrl(w, p) \/ Get(w, p) \/ Export(w, p)

Store(w) == Hop(w) \/ WriteData(w) \/ WriteMeta(w) \/ WriteFails(w)
Fetch(w) == Find(w) \/ Load(w) \/ Read(w) \/ ReadFails(w) \/ Serve(w)
Write(w) == Digest(w) \/ DigestPortable(w) \/ Publish(w) \/ PublishPortable(w) \/ ExportFails(w)
Clean(w) == SweepNext(w) \/ SweepEnds(w) \/ UnlinkData(w) \/ UnlinkMeta(w)

Next ==
    \/ \E w \in Workers, p \in Principals : Begin(w, p)
    \/ \E w \in Workers : Store(w) \/ Fetch(w) \/ Write(w) \/ Sweep(w) \/ Clean(w) \/ Crash(w)
    \/ UserActs
    \/ Tick

Spec == Init /\ [][Next]_vars

\* Time passes, a synchronous call is finished once begun, and the lifespan
\* sweeps again and again.
FairSpec ==
    /\ Spec
    /\ WF_vars(Tick)
    /\ \A w \in Workers :
          /\ WF_vars(Store(w)) /\ WF_vars(Fetch(w)) /\ WF_vars(Write(w)) /\ WF_vars(Clean(w))
          /\ SF_vars(Sweep(w))

-----------------------------------------------------------------------------
\* The files implement the store of StoreSpec: a put is one step for readers
\* although it writes twice, an artifact goes at the first of two unlinks and
\* never before its time, and a reader that looked, checked the owner and then
\* read, with sweeps in between, is given what was its own and still kept.
Promise == INSTANCE StoreSpec WITH
    Readers <- Workers,
    kept    <- [i \in Ids |-> IF data[i] = i /\ meta[i] = refs[i] THEN refs[i] ELSE None],
    drawn   <- {i \in Ids : refs[i] # None},
    given   <- [w \in Workers |-> IF work[w].got = None THEN None
                                  ELSE [id |-> work[w].got, to |-> work[w].by]]

ImplementsStore == Promise!Spec

\* The only data files without metadata that no sweep will ever find are
\* those of a put that failed or died between its two writes: no sweep, not
\* even one that dies half-way or races another, makes such a file.
OrphansAreCutPuts ==
    \A i \in Ids : data[i] # None /\ meta[i] = None =>
        i \in cut \/ \E w \in Workers : work[w].pc = "meta" /\ work[w].id = i

\* An expired artifact loses both of its files, also when a sweep dies
\* between them.
ExpiredIsSwept ==
    \A i \in Ids :
        backend = "files" /\ meta[i] # None /\ meta[i].expires <= clock ~> data[i] = None /\ meta[i] = None
=============================================================================
