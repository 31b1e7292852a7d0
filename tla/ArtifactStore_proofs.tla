------------------------ MODULE ArtifactStore_proofs -------------------------
(***************************************************************************)
(* Proofs about ArtifactStore, for any servers on one directory, artifacts *)
(* and principals, with any number of crashes: the files implement the     *)
(* store of StoreSpec, a reference can be read until it expires, and a     *)
(* data file without metadata comes from a put that was cut.               *)
(***************************************************************************)
EXTENDS ArtifactStore, TLAPS

Metas == [owner : Principals, expires : Nat]

Storing == {"hop", "data", "meta"}
Unlinking == {"unlink_data", "unlink_meta"}
Places == Storing \cup Unlinking \cup {"idle", "find", "load", "read", "served", "digest",
                                       "publish", "sweep"}

Jobs == [pc : Places, op : {"none", "put", "copy", "get", "export", "sweep"},
         by : Principals \cup {None}, id : Ids \cup {None}, expires : Nat, tries : Nat,
         hops : Nat, todo : SUBSET Ids, got : Ids \cup {None}, replace : BOOLEAN]

StoreType ==
    /\ data \in [Ids -> Ids \cup {None}]
    /\ meta \in [Ids -> Metas \cup {None}]
    /\ refs \in [Ids -> Metas \cup {None}]
    /\ out \in Ids \cup {None, Foreign, Link}
    /\ work \in [Workers -> Jobs]
    /\ cut \in SUBSET Ids
    /\ clock \in Nat /\ crashes \in Nat
    /\ \A w \in Workers : /\ work[w].pc \in Storing => work[w].by # None
                          /\ work[w].pc \notin {"idle", "sweep"} => work[w].id \in Ids
                          /\ work[w].pc \in {"find", "load", "read"} => work[w].op \in {"get", "export"}

\* Metadata is what the reference says, and the content is the artifact's.
FilesInv ==
    \A i \in Ids : /\ data[i] \in {i, None}
                   /\ meta[i] # None => meta[i] = refs[i]

\* A put has its ID for itself, and nobody has seen a reference to it.
PutInv ==
    \A w \in Workers : work[w].pc \in Storing =>
        /\ work[w].id \in Ids
        /\ refs[work[w].id] = None /\ meta[work[w].id] = None /\ work[w].id \notin cut
        /\ data[work[w].id] = IF work[w].pc = "meta" THEN work[w].id ELSE None
        /\ \A v \in Workers \ {w} : work[v].pc \in Storing => work[v].id # work[w].id

\* What a sweep removes has expired for good, and the data goes first.
SweepInv ==
    \A w \in Workers : work[w].pc \in Unlinking =>
        /\ work[w].id \in Ids
        /\ refs[work[w].id] # None /\ refs[work[w].id].expires <= clock
        /\ work[w].pc = "unlink_meta" => data[work[w].id] = None

\* A reader that has passed the owner's check reads an artifact of its own,
\* a put that was cut returned no reference, and no lifetime begins later
\* than now.
ReadInv ==
    /\ \A w \in Workers : work[w].pc = "read" =>
           refs[work[w].id] # None /\ refs[work[w].id].owner = work[w].by
    /\ \A w \in Workers : work[w].got # None => work[w].pc \in {"served", "digest", "publish"}
    /\ \A i \in cut : refs[i] = None
    /\ \A w \in Workers : work[w].expires <= clock + Ttl

\* A reference that was returned can be read until its artifact expires.
RefsStayReadable ==
    \A i \in Ids : refs[i] # None /\ clock < refs[i].expires => data[i] = i /\ meta[i] = refs[i]

StoreInv == StoreType /\ FilesInv /\ PutInv /\ SweepInv /\ RefsStayReadable /\ OrphansAreCutPuts

-----------------------------------------------------------------------------
\* An empty directory.
LEMMA InitStore == Init => StoreInv
<1>. SUFFICES ASSUME Init PROVE StoreInv
    OBVIOUS
<1>1. Idle \in Jobs
    BY DEF Idle, Jobs, Places, Storing
<1>2. StoreType
    BY <1>1 DEF Init, StoreType, Idle, Storing, Foreign, Link
<1>3. FilesInv /\ RefsStayReadable /\ OrphansAreCutPuts
    BY DEF Init, FilesInv, RefsStayReadable, OrphansAreCutPuts
<1>4. PutInv /\ SweepInv
    BY DEF Init, Idle, PutInv, SweepInv, Storing, Unlinking
<1>. QED
    BY <1>2, <1>3, <1>4 DEF StoreInv

WorkerStep(w) ==
    \/ \E p \in Principals : Begin(w, p)
    \/ Store(w) \/ Fetch(w) \/ Write(w) \/ Sweep(w) \/ Clean(w) \/ Crash(w)

\* A step changes the job of its worker only, and to a job.
LEMMA JobSteps ==
    ASSUME StoreType, NEW w \in Workers, WorkerStep(w)
    PROVE  /\ work' = [work EXCEPT ![w] = work'[w]]
           /\ work'[w] \in Jobs
           /\ work'[w].pc \in Storing => work'[w].by # None
           /\ work'[w].pc \notin {"idle", "sweep"} => work'[w].id \in Ids
           /\ work'[w].pc \in {"find", "load", "read"} => work'[w].op \in {"get", "export"}
           /\ work'[w].expires \in {0, work[w].expires, clock + Ttl}
<1>. DEFINE Result == /\ work' = [work EXCEPT ![w] = work'[w]]
                      /\ work'[w] \in Jobs
                      /\ work'[w].pc \in Storing => work'[w].by # None
                      /\ work'[w].pc \notin {"idle", "sweep"} => work'[w].id \in Ids
                      /\ work'[w].pc \in {"find", "load", "read"} => work'[w].op \in {"get", "export"}
                      /\ work'[w].expires \in {0, work[w].expires, clock + Ttl}
<1>0. /\ work \in [Workers -> Jobs] /\ work[w] \in Jobs /\ Idle \in Jobs
      /\ work[w].pc \in Storing => work[w].by # None
      /\ work[w].pc \notin {"idle", "sweep"} => work[w].id \in Ids
      /\ work[w].pc \in {"find", "load", "read"} => work[w].op \in {"get", "export"}
    BY DEF StoreType, Idle, Jobs, Places, Storing
<1>1. ASSUME NEW j \in Jobs, work' = [work EXCEPT ![w] = j], j.pc \in Storing => j.by # None,
             j.pc \notin {"idle", "sweep"} => j.id \in Ids,
             j.pc \in {"find", "load", "read"} => j.op \in {"get", "export"},
             j.expires \in {0, work[w].expires, clock + Ttl}
      PROVE  Result
    BY <1>0, <1>1
<1>2. ASSUME Finish(w) PROVE Result
    BY <1>0, <1>1, <1>2 DEF Finish, Idle, Storing
<1>3. ASSUME NEW l \in Places, Goto(w, l), l \in Storing => work[w].pc \in Storing,
             work[w].pc \notin {"idle", "sweep"} \/ l = "sweep",
             l \in {"find", "load", "read"} => work[w].pc \in {"find", "load", "read"}
      PROVE  Result
    BY <1>0, <1>1, <1>3 DEF Goto, Jobs
<1>4. /\ clock + Ttl \in Nat /\ work[w].tries + 1 \in Nat /\ work[w].hops + 1 \in Nat
    BY <1>0, StoreAssumption DEF StoreType, Jobs
<1>o. Open \in {"find", "load"}
    BY DEF Open
<1>5. ASSUME NEW p \in Principals, Begin(w, p) PROVE Result
  <2>1. CASE PutBase64(w, p)
    <3>1. PICK i \in Ids : work' = [work EXCEPT ![w] =
              [Idle EXCEPT !.pc = "data", !.op = "put", !.by = p, !.id = i, !.expires = clock + Ttl]]
        BY <2>1 DEF PutBase64, Fresh
    <3>. QED
        BY <3>1, <1>1, <1>4, StoreAssumption DEF Idle, Jobs, Places, Storing
  <2>2. CASE CopyFromTrustedUrl(w, p)
    <3>1. PICK i \in Ids : work' = [work EXCEPT ![w] =
              [Idle EXCEPT !.pc = "hop", !.op = "copy", !.by = p, !.id = i, !.tries = 1]]
        BY <2>2 DEF CopyFromTrustedUrl, Fresh
    <3>. QED
        BY <3>1, <1>1, StoreAssumption DEF Idle, Jobs, Places, Storing
  <2>3. CASE Get(w, p)
    <3>1. PICK i \in Ids : work' = [work EXCEPT ![w] =
              [Idle EXCEPT !.pc = Open, !.op = "get", !.by = p, !.id = i]]
        BY <2>3 DEF Get
    <3>. QED
        BY <3>1, <1>1, <1>o DEF Idle, Jobs, Places, Storing
  <2>4. CASE Export(w, p)
    <3>1. PICK i \in Ids, r \in BOOLEAN : work' = [work EXCEPT ![w] =
              [Idle EXCEPT !.pc = Open, !.op = "export", !.by = p, !.id = i, !.replace = r]]
        BY <2>4 DEF Export
    <3>. QED
        BY <3>1, <1>1, <1>o DEF Idle, Jobs, Places, Storing
  <2>. QED
    BY <1>5, <2>1, <2>2, <2>3, <2>4 DEF Begin
<1>6. CASE Store(w)
  <2>1. CASE Hop(w)
    <3>1. \/ Finish(w)
          \/ work' = [work EXCEPT ![w] = [work[w] EXCEPT !.pc = "data", !.expires = clock + Ttl,
                                                       !.tries = 0, !.hops = 0]]
          \/ work' = [work EXCEPT ![w] = [work[w] EXCEPT !.hops = work[w].hops + 1]]
          \/ work' = [work EXCEPT ![w] = [work[w] EXCEPT !.tries = work[w].tries + 1, !.hops = 0]]
        BY <2>1 DEF Hop
    <3>. QED
        BY <3>1, <2>1, <1>0, <1>1, <1>2, <1>4 DEF Hop, Jobs, Places, Storing
  <2>2. CASE WriteData(w) \/ WriteMeta(w) \/ WriteFails(w)
    BY <2>2, <1>2, <1>3 DEF WriteData, WriteMeta, WriteFails, Places, Storing
  <2>. QED
    BY <1>6, <2>1, <2>2 DEF Store
<1>7. CASE Fetch(w)
  <2>1. CASE Read(w)
    <3>1. data[work[w].id] = None \/ data[work[w].id] \in Ids
        BY <2>1, <1>0 DEF Read, StoreType
    <3>2. CASE data[work[w].id] = None
        BY <2>1, <3>2, <1>2 DEF Read
    <3>3. CASE data[work[w].id] # None
      <4>1. PICK l \in {"served", "digest"} : work' = [work EXCEPT ![w] =
                [work[w] EXCEPT !.pc = l, !.got = data[work[w].id]]]
        BY <2>1, <3>3, <1>0 DEF Read
      <4>2. [work[w] EXCEPT !.pc = l, !.got = data[work[w].id]] \in Jobs
        BY <3>1, <1>0 DEF Jobs, Places
      <4>3. work[w].id \in Ids
        BY <2>1, <1>0 DEF Read
      <4>. QED
        BY <4>1, <4>2, <4>3, <1>0, <1>1 DEF Storing, Jobs
    <3>. QED
        BY <3>2, <3>3
  <2>2. CASE Find(w) \/ Load(w) \/ ReadFails(w) \/ Serve(w)
    BY <2>2, <1>2, <1>3 DEF Find, Load, ReadFails, Serve, Places, Storing
  <2>. QED
    BY <1>7, <2>1, <2>2 DEF Fetch
<1>8. CASE Write(w)
  <2>1. CASE Digest(w) \/ DigestPortable(w)
    BY <2>1, <1>2, <1>3 DEF Digest, DigestPortable, Places, Storing
  <2>2. CASE Publish(w) \/ PublishPortable(w) \/ ExportFails(w)
    BY <2>2, <1>2 DEF Publish, PublishPortable, ExportFails
  <2>. QED
    BY <1>8, <2>1, <2>2 DEF Write
<1>9. CASE Sweep(w)
  <2>1. PICK t \in SUBSET Ids : work' = [work EXCEPT ![w] =
          [Idle EXCEPT !.pc = "sweep", !.op = "sweep", !.todo = t]]
    BY <1>9 DEF Sweep
  <2>. QED
    BY <2>1, <1>1 DEF Idle, Jobs, Places, Storing
<1>10. CASE Clean(w)
  <2>1. CASE SweepNext(w)
    <3>1. PICK i \in work[w].todo : work' = [work EXCEPT ![w] =
            [work[w] EXCEPT !.todo = work[w].todo \ {i},
                            !.pc = IF Expired(i) THEN "unlink_data" ELSE "sweep",
                            !.id = IF Expired(i) THEN i ELSE None]]
        BY <2>1 DEF SweepNext
    <3>2. i \in Ids /\ work[w].todo \ {i} \in SUBSET Ids
        BY <3>1, <1>0 DEF Jobs
    <3>3. \/ work' = [work EXCEPT ![w] =
               [work[w] EXCEPT !.todo = work[w].todo \ {i}, !.pc = "unlink_data", !.id = i]]
          \/ work' = [work EXCEPT ![w] =
               [work[w] EXCEPT !.todo = work[w].todo \ {i}, !.pc = "sweep", !.id = None]]
        BY <3>1
    <3>4. /\ [work[w] EXCEPT !.todo = work[w].todo \ {i}, !.pc = "unlink_data", !.id = i] \in Jobs
          /\ [work[w] EXCEPT !.todo = work[w].todo \ {i}, !.pc = "sweep", !.id = None] \in Jobs
        BY <3>2, <1>0 DEF Jobs, Places, Unlinking
    <3>. QED
        BY <3>2, <3>3, <3>4, <1>0, <1>1 DEF Storing, Jobs
  <2>2. CASE UnlinkMeta(w)
    BY <2>2, <1>0, <1>1 DEF UnlinkMeta, Jobs, Places, Storing
  <2>3. CASE SweepEnds(w) \/ UnlinkData(w)
    BY <2>3, <1>2, <1>3 DEF SweepEnds, UnlinkData, Places, Storing, Unlinking
  <2>. QED
    BY <1>10, <2>1, <2>2, <2>3 DEF Clean
<1>11. CASE Crash(w)
  BY <1>11, <1>2 DEF Crash
<1>. QED
  BY <1>5, <1>6, <1>7, <1>8, <1>9, <1>10, <1>11 DEF WorkerStep

\* Every step keeps the types.
LEMMA NextType == ASSUME StoreType, [Next]_vars PROVE StoreType'
<1>. USE StoreAssumption
<1>1. CASE UNCHANGED vars
  BY <1>1 DEF StoreType, vars
<1>2. ASSUME NEW w \in Workers, WorkerStep(w) PROVE StoreType'
  <2>1. /\ work' = [work EXCEPT ![w] = work'[w]]
        /\ work'[w] \in Jobs
        /\ work'[w].pc \in Storing => work'[w].by # None
        /\ work'[w].pc \notin {"idle", "sweep"} => work'[w].id \in Ids
        /\ work'[w].pc \in {"find", "load", "read"} => work'[w].op \in {"get", "export"}
    BY <1>2, JobSteps
  <2>2. /\ work' \in [Workers -> Jobs]
        /\ \A v \in Workers : /\ work'[v].pc \in Storing => work'[v].by # None
                              /\ work'[v].pc \notin {"idle", "sweep"} => work'[v].id \in Ids
                              /\ work'[v].pc \in {"find", "load", "read"} => work'[v].op \in {"get", "export"}
    <3>1. work \in [Workers -> Jobs]
      BY DEF StoreType
    <3>2. work' \in [Workers -> Jobs]
      BY <2>1, <3>1
    <3>3. \A v \in Workers \ {w} : work'[v] = work[v]
      BY <2>1, <3>1
    <3>. QED
      BY <2>1, <3>2, <3>3 DEF StoreType
  <2>3. /\ work[w] \in Jobs
        /\ work[w].pc \in Storing => work[w].by # None
        /\ work[w].pc \notin {"idle", "sweep"} => work[w].id \in Ids
    BY DEF StoreType
  <2>4. work[w].pc \in Storing => [owner |-> work[w].by, expires |-> work[w].expires] \in Metas
    BY <2>3 DEF Jobs, Metas
  <2>5. /\ data' \in [Ids -> Ids \cup {None}]
        /\ meta' \in [Ids -> Metas \cup {None}]
        /\ refs' \in [Ids -> Metas \cup {None}]
        /\ cut' \in SUBSET Ids
        /\ clock' \in Nat /\ crashes' \in Nat
    <3>1. CASE (\E p \in Principals : Begin(w, p)) \/ Fetch(w) \/ Sweep(w)
      BY <3>1 DEF StoreType, Begin, PutBase64, CopyFromTrustedUrl, Get, Export,
                  Fetch, Find, Load, Read, ReadFails, Serve, Sweep, files
    <3>2. CASE Store(w)
      BY <3>2, <2>3, <2>4 DEF StoreType, Store, Hop, WriteData, WriteMeta, WriteFails, files, Storing
    <3>3. CASE Write(w)
      BY <3>3 DEF StoreType, Write, Digest, DigestPortable, Publish, PublishPortable, ExportFails, files
    <3>4. CASE Clean(w)
      BY <3>4, <2>3 DEF StoreType, Clean, SweepNext, SweepEnds, UnlinkData, UnlinkMeta, files
    <3>5. CASE Crash(w)
      BY <3>5, <2>3 DEF StoreType, Crash, files
    <3>. QED
      BY <1>2, <3>1, <3>2, <3>3, <3>4, <3>5 DEF WorkerStep
  <2>6. out' \in Ids \cup {None, Foreign, Link}
    <3>1. CASE Publish(w) \/ PublishPortable(w)
      BY <3>1, <2>3 DEF StoreType, Publish, PublishPortable, Jobs
    <3>2. CASE ~(Publish(w) \/ PublishPortable(w))
      BY <1>2, <3>2 DEF WorkerStep, StoreType, Begin, PutBase64, CopyFromTrustedUrl, Get, Export,
            Fetch, Find, Load, Read, ReadFails, Serve, Sweep, Store, Hop, WriteData, WriteMeta,
            WriteFails, Write, Digest, DigestPortable, ExportFails, Clean, SweepNext, SweepEnds, UnlinkData,
            UnlinkMeta, Crash
    <3>. QED
      BY <3>1, <3>2
  <2>. QED
    BY <2>2, <2>5, <2>6 DEF StoreType
<1>3. CASE UserActs
  BY <1>3 DEF UserActs, StoreType, files
<1>4. CASE Tick
  BY <1>4 DEF Tick, StoreType, files
<1>. QED
  BY <1>1, <1>2, <1>3, <1>4 DEF Next, WorkerStep

\* A step that leaves the files alone preserves the invariant if it begins
\* at most one put, of a new ID, and one removal, of an expired artifact.
LEMMA QuietStep ==
    ASSUME StoreInv, StoreType', NEW w \in Workers, work' = [work EXCEPT ![w] = work'[w]],
           UNCHANGED <<data, meta, refs, cut, clock>>, work[w].pc # "meta",
           work'[w].pc \in Storing =>
               /\ work'[w].pc # "meta"
               /\ work'[w].id \in Fresh \/ (work[w].pc \in Storing /\ work'[w].id = work[w].id),
           work'[w].pc \in Unlinking => work'[w].pc = "unlink_data" /\ Expired(work'[w].id)
    PROVE  StoreInv'
<1>1. /\ \A v \in Workers \ {w} : work'[v] = work[v]
      /\ StoreType /\ FilesInv /\ PutInv /\ SweepInv /\ RefsStayReadable /\ OrphansAreCutPuts
  BY DEF StoreInv, StoreType
<1>2. FilesInv' /\ RefsStayReadable'
  BY <1>1 DEF FilesInv, RefsStayReadable
<1>3. OrphansAreCutPuts'
  BY <1>1 DEF OrphansAreCutPuts
<1>4. SweepInv'
  <2>1. work'[w].pc \in Unlinking => work'[w].id \in Ids
    BY DEF StoreType, Unlinking
  <2>2. work'[w].pc \in Unlinking =>
          refs[work'[w].id] # None /\ refs[work'[w].id].expires <= clock
    BY <1>1, <2>1 DEF Expired, FilesInv
  <2>. QED
    BY <1>1, <2>1, <2>2 DEF SweepInv, Unlinking
<1>5. PutInv'
  <2>1. ASSUME work'[w].pc \in Storing
        PROVE  /\ work'[w].id \in Ids
               /\ refs[work'[w].id] = None /\ meta[work'[w].id] = None /\ work'[w].id \notin cut
               /\ data[work'[w].id] = None
               /\ \A v \in Workers \ {w} : work[v].pc \in Storing => work[v].id # work'[w].id
    <3>1. CASE work'[w].id \in Fresh
      BY <3>1 DEF Fresh
    <3>2. CASE work[w].pc \in Storing /\ work'[w].id = work[w].id
      BY <3>2, <1>1 DEF PutInv
    <3>. QED
      BY <2>1, <3>1, <3>2
  <2>. QED
    BY <1>1, <2>1 DEF PutInv
<1>. QED
  BY <1>2, <1>3, <1>4, <1>5 DEF StoreInv

\* A put that stops after its data file leaves it behind.
LEMMA CutStep ==
    ASSUME StoreInv, StoreType', NEW w \in Workers, work[w].pc = "meta",
           Finish(w), cut' = cut \cup {work[w].id}, UNCHANGED <<data, meta, refs, clock>>
    PROVE  StoreInv'
<1>1. /\ \A v \in Workers \ {w} : work'[v] = work[v]
      /\ work'[w] = Idle
      /\ StoreType /\ FilesInv /\ PutInv /\ SweepInv /\ RefsStayReadable /\ OrphansAreCutPuts
  BY DEF StoreInv, StoreType, Finish
<1>2. FilesInv' /\ RefsStayReadable'
  BY <1>1 DEF FilesInv, RefsStayReadable
<1>3. OrphansAreCutPuts'
  BY <1>1 DEF OrphansAreCutPuts
<1>4. SweepInv'
  BY <1>1 DEF SweepInv, Idle, Unlinking
<1>5. PutInv'
  BY <1>1 DEF PutInv, Idle, Storing
<1>. QED
  BY <1>2, <1>3, <1>4, <1>5 DEF StoreInv

\* The two writes of a put (_store_bytes), whole, cut or failing.
LEMMA WriteStep ==
    ASSUME StoreInv, StoreType', NEW w \in Workers, WriteData(w) \/ WriteMeta(w)
    PROVE  StoreInv'
<1>. DEFINE i == work[w].id
<1>1. /\ \A v \in Workers \ {w} : work'[v] = work[v]
      /\ work[w].pc \in {"data", "meta"} /\ i \in Ids
      /\ StoreType /\ FilesInv /\ PutInv /\ SweepInv /\ RefsStayReadable /\ OrphansAreCutPuts
  BY DEF StoreInv, StoreType, Finish, Goto, WriteData, WriteMeta
<1>2. /\ refs[i] = None /\ meta[i] = None /\ i \notin cut
      /\ \A v \in Workers \ {w} : work[v].pc \in Storing \cup Unlinking => work[v].id # i
  BY <1>1 DEF PutInv, SweepInv, Storing
<1>3. CASE WriteData(w)
  <2>1. /\ work'[w].pc = "meta" /\ work'[w].id = i
        /\ data' = [data EXCEPT ![i] = i] /\ UNCHANGED <<meta, refs, cut, clock>>
    BY <1>1, <1>3 DEF WriteData, Goto, StoreType
  <2>2. FilesInv' /\ RefsStayReadable'
    BY <1>1, <1>2, <2>1 DEF FilesInv, RefsStayReadable, StoreType
  <2>3. OrphansAreCutPuts'
    BY <1>1, <2>1 DEF OrphansAreCutPuts, StoreType
  <2>4. SweepInv'
    BY <1>1, <1>2, <2>1 DEF SweepInv, Unlinking, StoreType
  <2>5. PutInv'
    BY <1>1, <1>2, <2>1 DEF PutInv, Storing, StoreType
  <2>. QED
    BY <2>2, <2>3, <2>4, <2>5 DEF StoreInv
<1>4. CASE WriteMeta(w)
  <2>. DEFINE r == [owner |-> work[w].by, expires |-> work[w].expires]
  <2>1. /\ work'[w] = Idle /\ data[i] = i
        /\ meta' = [meta EXCEPT ![i] = r] /\ refs' = [refs EXCEPT ![i] = r]
        /\ UNCHANGED <<data, cut, clock>>
    BY <1>1, <1>4 DEF WriteMeta, Finish, StoreType, PutInv, Storing
  <2>2. FilesInv' /\ RefsStayReadable'
    BY <1>1, <2>1 DEF FilesInv, RefsStayReadable, StoreType
  <2>3. OrphansAreCutPuts'
    <3>1. r # None
      BY <1>1, <1>4, StoreAssumption DEF StoreType, WriteMeta, Jobs, Storing
    <3>. QED
      BY <1>1, <2>1, <3>1 DEF OrphansAreCutPuts, StoreType
  <2>4. SweepInv'
    BY <1>1, <1>2, <2>1 DEF SweepInv, Unlinking, StoreType, Idle
  <2>5. PutInv'
    BY <1>1, <1>2, <2>1 DEF PutInv, Storing, StoreType, Idle
  <2>. QED
    BY <2>2, <2>3, <2>4, <2>5 DEF StoreInv
<1>. QED
  BY <1>3, <1>4

\* The two unlinks of a sweep (delete_expired).
LEMMA UnlinkStep ==
    ASSUME StoreInv, StoreType', NEW w \in Workers, UnlinkData(w) \/ UnlinkMeta(w)
    PROVE  StoreInv'
<1>. DEFINE i == work[w].id
<1>1. /\ \A v \in Workers \ {w} : work'[v] = work[v]
      /\ work[w].pc \in Unlinking /\ i \in Ids
      /\ StoreType /\ FilesInv /\ PutInv /\ SweepInv /\ RefsStayReadable /\ OrphansAreCutPuts
  BY DEF StoreInv, StoreType, Goto, UnlinkData, UnlinkMeta, Unlinking
<1>2. /\ refs[i] # None /\ refs[i].expires <= clock
      /\ \A v \in Workers : work[v].pc \in Storing => work[v].id # i
  BY <1>1 DEF PutInv, SweepInv
<1>3. ~(clock < refs[i].expires)
  <2>1. refs[i] \in Metas /\ clock \in Nat
    BY <1>1, <1>2 DEF StoreType
  <2>. QED
    BY <2>1, <1>2 DEF Metas
<1>4. CASE UnlinkData(w)
  <2>1. /\ work'[w].pc = "unlink_meta" /\ work'[w].id = i
        /\ data' = [data EXCEPT ![i] = None] /\ UNCHANGED <<meta, refs, cut, clock>>
    BY <1>1, <1>4 DEF UnlinkData, Goto, StoreType
  <2>2. FilesInv' /\ RefsStayReadable'
    BY <1>1, <1>3, <2>1 DEF FilesInv, RefsStayReadable, StoreType
  <2>3. OrphansAreCutPuts'
    BY <1>1, <1>4, <2>1 DEF OrphansAreCutPuts, StoreType, UnlinkData
  <2>4. SweepInv'
    BY <1>1, <1>2, <2>1 DEF SweepInv, Unlinking, StoreType
  <2>5. PutInv'
    BY <1>1, <1>2, <2>1 DEF PutInv, Storing, StoreType
  <2>. QED
    BY <2>2, <2>3, <2>4, <2>5 DEF StoreInv
<1>5. CASE UnlinkMeta(w)
  <2>1. /\ work'[w].pc = "sweep" /\ data[i] = None
        /\ meta' = [meta EXCEPT ![i] = None] /\ UNCHANGED <<data, refs, cut, clock>>
    BY <1>1, <1>5 DEF UnlinkMeta, StoreType, SweepInv
  <2>2. FilesInv' /\ RefsStayReadable'
    BY <1>1, <1>3, <2>1 DEF FilesInv, RefsStayReadable, StoreType
  <2>3. OrphansAreCutPuts'
    BY <1>1, <1>5, <2>1 DEF OrphansAreCutPuts, StoreType, UnlinkMeta
  <2>4. SweepInv'
    BY <1>1, <2>1 DEF SweepInv, Unlinking, StoreType
  <2>5. PutInv'
    BY <1>1, <1>2, <2>1 DEF PutInv, Storing, StoreType
  <2>. QED
    BY <2>2, <2>3, <2>4, <2>5 DEF StoreInv
<1>. QED
  BY <1>4, <1>5

\* Time passes; nothing that has expired comes back.
LEMMA TickStep == ASSUME StoreInv, StoreType', Tick PROVE StoreInv'
<1>1. /\ UNCHANGED <<data, meta, refs, cut, work>> /\ clock' = clock + 1 /\ clock \in Nat
      /\ StoreType /\ FilesInv /\ PutInv /\ SweepInv /\ RefsStayReadable /\ OrphansAreCutPuts
  BY DEF StoreInv, StoreType, Tick, files
<1>2. \A i \in Ids : refs[i] # None => refs[i].expires \in Nat
  BY <1>1 DEF StoreType, Metas
<1>3. RefsStayReadable'
  BY <1>1, <1>2 DEF RefsStayReadable
<1>4. SweepInv'
  BY <1>1, <1>2 DEF SweepInv
<1>5. FilesInv' /\ PutInv' /\ OrphansAreCutPuts'
  BY <1>1 DEF FilesInv, PutInv, OrphansAreCutPuts
<1>. QED
  BY <1>3, <1>4, <1>5 DEF StoreInv

\* Every step keeps the invariant.
LEMMA NextStore == ASSUME StoreInv, [Next]_vars PROVE StoreInv'
<1>1. StoreType /\ StoreType'
  BY NextType DEF StoreInv
<1>2. CASE UNCHANGED vars \/ UserActs
  BY <1>1, <1>2 DEF StoreInv, FilesInv, PutInv, SweepInv, RefsStayReadable, OrphansAreCutPuts,
                    vars, UserActs, files
<1>3. ASSUME NEW w \in Workers, WorkerStep(w) PROVE StoreInv'
  <2>1. work' = [work EXCEPT ![w] = work'[w]]
    BY <1>1, <1>3, JobSteps
  <2>2. work \in [Workers -> Jobs]
    BY <1>1 DEF StoreType
  <2>. DEFINE Begun == /\ work'[w].pc \in Storing =>
                            /\ work'[w].pc # "meta"
                            /\ work'[w].id \in Fresh \/ (work[w].pc \in Storing /\ work'[w].id = work[w].id)
                       /\ work'[w].pc \in Unlinking =>
                            work'[w].pc = "unlink_data" /\ Expired(work'[w].id)
              Quiet == UNCHANGED <<data, meta, refs, cut, clock>> /\ work[w].pc # "meta"
  <2>3. Quiet /\ Begun => StoreInv'
    BY <1>1, <1>3, <2>1, QuietStep
  <2>4. Finish(w) => Begun
    BY <2>2 DEF Finish, Idle, Storing, Unlinking
  <2>5. ASSUME NEW l \in {"load", "read", "publish"}, Goto(w, l) PROVE Begun
    BY <2>2, <2>5 DEF Goto, Storing, Unlinking
  <2>6. ASSUME NEW p \in Principals, Begin(w, p) PROVE StoreInv'
    <3>1. Quiet
      BY <2>6 DEF Begin, PutBase64, CopyFromTrustedUrl, Get, Export, files
    <3>2. CASE PutBase64(w, p) \/ CopyFromTrustedUrl(w, p)
      <4>0. PICK i \in Fresh :
              \/ work' = [work EXCEPT ![w] = [Idle EXCEPT !.pc = "data", !.op = "put", !.by = p,
                                                          !.id = i, !.expires = clock + Ttl]]
              \/ work' = [work EXCEPT ![w] = [Idle EXCEPT !.pc = "hop", !.op = "copy", !.by = p,
                                                          !.id = i, !.tries = 1]]
        BY <3>2, Zenon DEF PutBase64, CopyFromTrustedUrl
      <4>1. work'[w].pc \in {"data", "hop"} /\ work'[w].id = i
        BY <2>2, <4>0 DEF Idle
      <4>. QED
        BY <4>1, <3>1, <2>3 DEF Storing, Unlinking
    <3>3. CASE Get(w, p) \/ Export(w, p)
      <4>1. work'[w].pc \in {"find", "load"}
        BY <2>2, <3>3 DEF Get, Export, Open, Idle
      <4>. QED
        BY <4>1, <3>1, <2>3 DEF Storing, Unlinking
    <3>. QED
      BY <2>6, <3>2, <3>3 DEF Begin
  <2>7. CASE Hop(w)
    <3>1. Quiet
      BY <2>7 DEF Hop, files
    <3>2. Begun
      BY <2>2, <2>4, <2>7 DEF Hop, Storing, Unlinking, Jobs
    <3>. QED
      BY <3>1, <3>2, <2>3
  <2>8. CASE Fetch(w)
    <3>1. Quiet
      BY <2>8 DEF Fetch, Find, Load, Read, ReadFails, Serve, files
    <3>2. CASE Read(w)
      <4>1. /\ work[w].op \in {"get", "export"}
        BY <1>1, <3>2 DEF StoreType, Read
      <4>2. Finish(w) \/ work'[w].pc \in {"served", "digest"}
        <5>1. \/ Finish(w)
              \/ work' = [work EXCEPT ![w].pc = "served", ![w].got = data[work[w].id]]
              \/ work' = [work EXCEPT ![w].pc = "digest", ![w].got = data[work[w].id]]
          BY <3>2, <4>1, Zenon DEF Read
        <5>. QED
          BY <2>2, <5>1 DEF Jobs
      <4>3. Begun
        BY <2>4, <4>2 DEF Storing, Unlinking
      <4>. QED
        BY <3>1, <4>3, <2>3
    <3>3. CASE Find(w) \/ Load(w) \/ ReadFails(w) \/ Serve(w)
      BY <3>1, <3>3, <2>3, <2>4, <2>5 DEF Find, Load, ReadFails, Serve
    <3>. QED
      BY <2>8, <3>2, <3>3 DEF Fetch
  <2>9. CASE Write(w)
    <3>1. Quiet
      BY <2>9 DEF Write, Digest, DigestPortable, Publish, PublishPortable, ExportFails, files
    <3>2. Begun
      BY <2>4, <2>5, <2>9 DEF Write, Digest, DigestPortable, Publish, PublishPortable, ExportFails
    <3>. QED
      BY <3>1, <3>2, <2>3
  <2>10. CASE Sweep(w) \/ SweepNext(w) \/ SweepEnds(w)
    <3>1. Quiet
      BY <2>10 DEF Sweep, SweepNext, SweepEnds, files
    <3>2. CASE Sweep(w) \/ SweepEnds(w)
      BY <2>2, <2>3, <2>4, <3>1, <3>2 DEF Sweep, SweepEnds, Idle, Storing, Unlinking
    <3>3. CASE SweepNext(w)
      <4>1. PICK i \in work[w].todo : work' = [work EXCEPT ![w] =
              [work[w] EXCEPT !.todo = work[w].todo \ {i},
                              !.pc = IF Expired(i) THEN "unlink_data" ELSE "sweep",
                              !.id = IF Expired(i) THEN i ELSE None]]
        BY <3>3 DEF SweepNext
      <4>2. \/ Expired(i) /\ work'[w].pc = "unlink_data" /\ work'[w].id = i
            \/ work'[w].pc = "sweep"
        BY <4>1, <2>2 DEF Jobs
      <4>. QED
        BY <4>2, <3>1, <2>3 DEF Storing, Unlinking
    <3>. QED
      BY <2>10, <3>2, <3>3
  <2>11. CASE WriteFails(w) \/ Crash(w)
    <3>1. CASE work[w].pc = "meta"
      BY <1>1, <3>1, <2>11, CutStep DEF WriteFails, Crash, files
    <3>2. CASE work[w].pc # "meta"
      BY <3>2, <2>3, <2>4, <2>11 DEF WriteFails, Crash, files
    <3>. QED
      BY <3>1, <3>2
  <2>12. CASE WriteData(w) \/ WriteMeta(w)
    BY <1>1, <2>12, WriteStep
  <2>13. CASE UnlinkData(w) \/ UnlinkMeta(w)
    BY <1>1, <2>13, UnlinkStep
  <2>. QED
    BY <1>3, <2>6, <2>7, <2>8, <2>9, <2>10, <2>11, <2>12, <2>13 DEF WorkerStep, Store, Clean
<1>4. CASE Tick
  BY <1>1, <1>4, TickStep
<1>. QED
  BY <1>2, <1>3, <1>4 DEF Next, WorkerStep

\* Every behaviour keeps the inductive invariant.
THEOREM StoreInvariant == Spec => []StoreInv
  BY InitStore, NextStore, PTL DEF Spec

\* For any number of servers, sweeps and crashes, the reference a put
\* returned (local.py, object_storage.py) reads back its own artifact until
\* it expires.
THEOREM RefsReadable == Spec => []RefsStayReadable
<1>1. StoreInv => RefsStayReadable
  BY DEF StoreInv
<1>. QED
  BY <1>1, StoreInvariant, PTL

\* A data file no sweep will find is left by a put that was cut between its
\* two writes, never by a sweep (delete_expired) or by two of them.
THEOREM OrphansKnown == Spec => []OrphansAreCutPuts
<1>1. StoreInv => OrphansAreCutPuts
  BY DEF StoreInv
<1>. QED
  BY <1>1, StoreInvariant, PTL

-----------------------------------------------------------------------------
Reading == {"served", "digest", "publish"}

\* Between its read and its end a reader only goes on, with what it has.
LEMMA GotSteps ==
    ASSUME StoreType, NEW w \in Workers, WorkerStep(w), ~Load(w), ~Read(w)
    PROVE  \/ work'[w].got = None /\ work'[w].pc # "read"
           \/ /\ work'[w].got = work[w].got /\ work'[w].by = work[w].by
              /\ work'[w].pc # "read" /\ (work[w].pc \in Reading => work'[w].pc \in Reading)
<1>. DEFINE Begun == work'[w].got = None /\ work'[w].pc # "read"
            Kept == /\ work'[w].got = work[w].got /\ work'[w].by = work[w].by
                    /\ work'[w].pc # "read" /\ (work[w].pc \in Reading => work'[w].pc \in Reading)
<1>1. work \in [Workers -> Jobs] /\ work[w] \in Jobs
  BY DEF StoreType
<1>2. ASSUME NEW j \in Jobs, work' = [work EXCEPT ![w] = j], j.got = None, j.pc # "read"
      PROVE  Begun
  BY <1>1, <1>2
<1>o. Open \in {"find", "load"} /\ clock + Ttl \in Nat /\ Idle \in Jobs
  BY StoreAssumption DEF Open, StoreType, Idle, Jobs, Places, Storing
<1>3. Finish(w) => Begun
  BY <1>1 DEF Finish, Idle
<1>4. ASSUME NEW l \in Places \ {"read"}, Goto(w, l), work[w].pc \in Reading => l \in Reading
      PROVE  Kept
  BY <1>1, <1>4 DEF Goto, Jobs
<1>5. CASE \E p \in Principals : Begin(w, p)
  <2>2. ASSUME NEW p \in Principals, PutBase64(w, p) PROVE Begun
    <3>1. PICK i \in Ids : work' = [work EXCEPT ![w] = [Idle EXCEPT !.pc = "data",
              !.op = "put", !.by = p, !.id = i, !.expires = clock + Ttl]]
      BY <2>2 DEF PutBase64, Fresh
    <3>2. [Idle EXCEPT !.pc = "data", !.op = "put", !.by = p, !.id = i,
                       !.expires = clock + Ttl] \in Jobs
      BY <1>o DEF Idle, Jobs, Places, Storing
    <3>. QED
      BY <1>1, <3>1, <3>2 DEF Idle
  <2>3. ASSUME NEW p \in Principals, CopyFromTrustedUrl(w, p) PROVE Begun
    <3>1. PICK i \in Ids : work' = [work EXCEPT ![w] = [Idle EXCEPT !.pc = "hop",
              !.op = "copy", !.by = p, !.id = i, !.tries = 1]]
      BY <2>3 DEF CopyFromTrustedUrl, Fresh
    <3>2. [Idle EXCEPT !.pc = "hop", !.op = "copy", !.by = p, !.id = i, !.tries = 1] \in Jobs
      BY <1>o DEF Idle, Jobs, Places, Storing
    <3>. QED
      BY <1>1, <3>1, <3>2 DEF Idle
  <2>4. ASSUME NEW p \in Principals, Get(w, p) PROVE Begun
    <3>1. PICK i \in Ids : work' = [work EXCEPT ![w] = [Idle EXCEPT !.pc = Open, !.op = "get",
              !.by = p, !.id = i]]
      BY <2>4, Zenon DEF Get
    <3>. QED
      BY <1>2, <1>o, <3>1 DEF Idle, Jobs, Places
  <2>5. ASSUME NEW p \in Principals, Export(w, p) PROVE Begun
    <3>1. PICK i \in Ids, r \in BOOLEAN : work' = [work EXCEPT ![w] = [Idle EXCEPT !.pc = Open,
              !.op = "export", !.by = p, !.id = i, !.replace = r]]
      BY <2>5, Zenon DEF Export
    <3>. QED
      BY <1>2, <1>o, <3>1 DEF Idle, Jobs, Places
  <2>. QED
    BY <1>5, <2>2, <2>3, <2>4, <2>5, Zenon DEF Begin
<1>6. CASE Sweep(w)
  <2>1. PICK t \in SUBSET Ids : work' = [work EXCEPT ![w] = [Idle EXCEPT !.pc = "sweep", !.op = "sweep",
            !.todo = t]]
    BY <1>6 DEF Sweep
  <2>. QED
    BY <1>2, <1>o, <2>1 DEF Idle, Jobs, Places
<1>7. CASE Hop(w)
  <2>1. \/ Finish(w)
        \/ work' = [work EXCEPT ![w] = [work[w] EXCEPT !.pc = "data", !.expires = clock + Ttl,
                                                     !.tries = 0, !.hops = 0]]
        \/ work' = [work EXCEPT ![w] = [work[w] EXCEPT !.hops = work[w].hops + 1]]
        \/ work' = [work EXCEPT ![w] = [work[w] EXCEPT !.tries = work[w].tries + 1, !.hops = 0]]
    BY <1>7 DEF Hop
  <2>2. work[w].pc = "hop"
    BY <1>7 DEF Hop
  <2>3. CASE Finish(w)
    BY <1>3, <2>3
  <2>4. CASE ~Finish(w)
    BY <1>1, <2>1, <2>2, <2>4 DEF Jobs, Reading
  <2>. QED
    BY <2>3, <2>4
<1>8. CASE SweepNext(w)
  <2>1. PICK i \in work[w].todo : work' = [work EXCEPT ![w] =
            [work[w] EXCEPT !.todo = work[w].todo \ {i},
                            !.pc = IF Expired(i) THEN "unlink_data" ELSE "sweep",
                            !.id = IF Expired(i) THEN i ELSE None]]
    BY <1>8 DEF SweepNext
  <2>2. work[w].pc = "sweep"
    BY <1>8 DEF SweepNext
  <2>. QED
    BY <1>1, <2>1, <2>2 DEF Jobs, Reading
<1>9. CASE UnlinkMeta(w)
  BY <1>1, <1>9 DEF UnlinkMeta, Jobs, Reading
<1>10. CASE WriteData(w) \/ UnlinkData(w) \/ Find(w)
  BY <1>3, <1>4, <1>10 DEF WriteData, UnlinkData, Find, Places, Storing, Unlinking, Reading
<1>11. CASE Digest(w) \/ DigestPortable(w)
  BY <1>3, <1>4, <1>11 DEF Digest, DigestPortable, Places, Reading
<1>12. CASE WriteMeta(w) \/ WriteFails(w) \/ ReadFails(w) \/ Serve(w) \/ Publish(w)
            \/ PublishPortable(w) \/ ExportFails(w) \/ SweepEnds(w) \/ Crash(w)
  BY <1>3, <1>12 DEF WriteMeta, WriteFails, ReadFails, Serve, Publish, PublishPortable,
                     ExportFails, SweepEnds, Crash
<1>. QED
  BY <1>5, <1>6, <1>7, <1>8, <1>9, <1>10, <1>11, <1>12 DEF WorkerStep, Store, Fetch, Write, Clean

\* What readers have seen stays true of the artifact they read.
LEMMA NextReads == ASSUME StoreInv, ReadInv, [Next]_vars PROVE ReadInv'
<1>1. /\ StoreType /\ StoreType' /\ FilesInv /\ PutInv /\ OrphansAreCutPuts
      /\ work \in [Workers -> Jobs]
  BY NextType DEF StoreInv, StoreType
<1>2. CASE UNCHANGED vars \/ UserActs
  BY <1>2 DEF ReadInv, vars, UserActs, files
<1>t. CASE Tick
  BY <1>1, <1>t, StoreAssumption DEF ReadInv, Tick, files, StoreType, Jobs
<1>3. ASSUME NEW w \in Workers, WorkerStep(w) PROVE ReadInv'
  <2>1. /\ \A v \in Workers \ {w} : work'[v] = work[v]
        /\ work'[w] \in Jobs /\ work[w] \in Jobs
    BY <1>1, <1>3, JobSteps
  \* A reference never changes once a put has returned it.
  <2>2. \A i \in Ids : refs[i] # None => refs'[i] = refs[i]
    <3>1. CASE WriteMeta(w)
      BY <1>1, <3>1 DEF WriteMeta, StoreType, PutInv, Storing
    <3>2. CASE ~WriteMeta(w)
      BY <1>3, <3>2 DEF WorkerStep, Begin, PutBase64, CopyFromTrustedUrl, Get, Export,
            Fetch, Find, Load, Read, ReadFails, Serve, Sweep, Store, Hop, WriteData, WriteFails,
            Write, Digest, DigestPortable, Publish, PublishPortable, ExportFails, Clean,
            SweepNext, SweepEnds, UnlinkData, UnlinkMeta, Crash
    <3>. QED
      BY <3>1, <3>2
  <2>3. \A i \in cut' : refs'[i] = None
    <3>1. CASE WriteMeta(w)
      BY <1>1, <3>1 DEF WriteMeta, StoreType, PutInv, Storing, ReadInv
    <3>2. CASE WriteFails(w) \/ Crash(w)
      BY <1>1, <3>2 DEF WriteFails, Crash, PutInv, Storing, ReadInv
    <3>3. CASE ~(WriteMeta(w) \/ WriteFails(w) \/ Crash(w))
      <4>1. UNCHANGED <<refs, cut>>
        BY <1>3, <3>3 DEF WorkerStep, Begin, PutBase64, CopyFromTrustedUrl, Get, Export,
            Fetch, Find, Load, Read, ReadFails, Serve, Sweep, Store, Hop, WriteData,
            Write, Digest, DigestPortable, Publish, PublishPortable, ExportFails, Clean,
            SweepNext, SweepEnds, UnlinkData, UnlinkMeta
      <4>. QED
        BY <4>1 DEF ReadInv
    <3>. QED
      BY <3>1, <3>2, <3>3
  <2>. DEFINE Good == /\ work'[w].pc = "read" =>
                            refs'[work'[w].id] # None /\ refs'[work'[w].id].owner = work'[w].by
                      /\ work'[w].got # None => work'[w].pc \in {"served", "digest", "publish"}
  <2>5. \A v \in Workers : work'[v].expires <= clock' + Ttl
    <3>1. clock' = clock
      BY <1>3 DEF WorkerStep, Begin, PutBase64, CopyFromTrustedUrl, Get, Export,
            Fetch, Find, Load, Read, ReadFails, Serve, Sweep, Store, Hop, WriteData, WriteMeta,
            WriteFails, Write, Digest, DigestPortable, Publish, PublishPortable, ExportFails, Clean,
            SweepNext, SweepEnds, UnlinkData, UnlinkMeta, Crash
    <3>2. work'[w].expires \in {0, work[w].expires, clock + Ttl}
      BY <1>1, <1>3, JobSteps
    <3>. QED
      BY <1>1, <2>1, <3>1, <3>2, StoreAssumption DEF ReadInv, StoreType, Jobs
  <2>4. Good => ReadInv'
    <3>1. \A v \in Workers : work[v].pc = "read" => work[v].id \in Ids
      BY <1>1 DEF StoreType
    <3>. QED
      BY <2>1, <2>2, <2>3, <2>5, <3>1 DEF ReadInv
  <2>9. Finish(w) => Good
    BY <1>1 DEF Finish, Idle
  <2>6. CASE Load(w)
    <3>1. CASE Goto(w, "read") /\ meta[work[w].id] # None /\ MayRead(work[w].id, work[w].by)
      <4>1. work[w].id \in Ids /\ work[w].got = None
        BY <1>1, <2>6 DEF Load, StoreType, ReadInv
      <4>2. refs[work[w].id] # None /\ refs[work[w].id].owner = work[w].by
        BY <1>1, <3>1, <4>1 DEF FilesInv, MayRead
      <4>3. work'[w] = [work[w] EXCEPT !.pc = "read"]
        BY <1>1, <3>1 DEF Goto
      <4>4. work'[w].id = work[w].id /\ work'[w].by = work[w].by /\ work'[w].got = work[w].got
        BY <2>1, <4>3 DEF Jobs
      <4>. QED
        BY <2>2, <4>1, <4>2, <4>4, <2>4
    <3>. QED
      BY <2>6, <3>1, <2>4, <2>9 DEF Load
  <2>7. CASE Read(w)
    <3>1. \/ Finish(w)
          \/ work' = [work EXCEPT ![w].pc = "served", ![w].got = data[work[w].id]]
          \/ work' = [work EXCEPT ![w].pc = "digest", ![w].got = data[work[w].id]]
      BY <1>1, <2>7, Zenon DEF Read, StoreType
    <3>2. Finish(w) \/ work'[w].pc \in {"served", "digest"}
      BY <1>1, <2>1, <3>1 DEF Jobs
    <3>. QED
      BY <3>2, <2>4, <2>9
  <2>8. CASE ~Load(w) /\ ~Read(w)
    <3>1. \/ work'[w].got = None /\ work'[w].pc # "read"
          \/ /\ work'[w].got = work[w].got /\ work'[w].by = work[w].by
             /\ work'[w].pc # "read" /\ (work[w].pc \in Reading => work'[w].pc \in Reading)
      BY <1>1, <1>3, <2>8, GotSteps
    <3>. QED
      BY <3>1, <2>4 DEF ReadInv, Reading
  <2>. QED
    BY <2>6, <2>7, <2>8
<1>. QED
  BY <1>2, <1>t, <1>3 DEF Next, WorkerStep

\* Reads are kept.
THEOREM ReadsKept == Spec => [](StoreInv /\ ReadInv)
<1>1. Init => ReadInv
  BY StoreAssumption DEF Init, ReadInv, Idle
<1>. QED
  BY <1>1, InitStore, NextStore, NextReads, PTL DEF Spec

kept == [i \in Ids |-> IF data[i] = i /\ meta[i] = refs[i] THEN refs[i] ELSE None]
drawn == {i \in Ids : refs[i] # None}
given == [w \in Workers |-> IF work[w].got = None THEN None
                            ELSE [id |-> work[w].got, to |-> work[w].by]]

\* An empty directory keeps nothing.
LEMMA InitImplements == Init => Promise!Init
  BY DEF Init, Promise!Init, Idle

\* A step of the files is a step of the store, or none.
LEMMA StepImplements ==
    ASSUME StoreInv, ReadInv, StoreInv', ReadInv', [Next]_vars
    PROVE  [Promise!Next]_(Promise!vars)
<1>. SUFFICES Promise!Next \/ UNCHANGED <<kept, drawn, given, clock>>
  BY DEF Promise!vars, kept, drawn, given
<1>1. /\ StoreType /\ StoreType' /\ FilesInv /\ PutInv /\ SweepInv /\ OrphansAreCutPuts
      /\ work \in [Workers -> Jobs]
  BY DEF StoreInv, StoreType
<1>2. CASE UNCHANGED vars \/ UserActs
  BY <1>2 DEF vars, UserActs, files, kept, drawn, given
<1>3. CASE Tick
  <2>1. UNCHANGED <<kept, drawn, given>> /\ clock' = clock + 1
    BY <1>3 DEF Tick, files, kept, drawn, given
  <2>. QED
    BY <2>1 DEF Promise!Next, Promise!Tick, kept, drawn, given
<1>4. ASSUME NEW w \in Workers, WorkerStep(w)
      PROVE  Promise!Next \/ UNCHANGED <<kept, drawn, given, clock>>
  <2>1. /\ \A v \in Workers \ {w} : work'[v] = work[v]
        /\ work'[w] \in Jobs /\ work[w] \in Jobs
        /\ clock' = clock
    <3>1. clock' = clock
      BY <1>4 DEF WorkerStep, Begin, PutBase64, CopyFromTrustedUrl, Get, Export,
            Fetch, Find, Load, Read, ReadFails, Serve, Sweep, Store, Hop, WriteData, WriteMeta,
            WriteFails, Write, Digest, DigestPortable, Publish, PublishPortable, ExportFails, Clean,
            SweepNext, SweepEnds, UnlinkData, UnlinkMeta, Crash
    <3>. QED
      BY <1>1, <1>4, <3>1, JobSteps
  <2>. DEFINE Result == Promise!Next \/ UNCHANGED <<kept, drawn, given, clock>>
  <2>2. given = [v \in Workers |-> given[v]] /\ given' = [given EXCEPT ![w] = given'[w]]
    BY <2>1 DEF given
  <2>3. CASE Read(w)
    <3>0. PICK i \in Ids : i = work[w].id
      BY <1>1, <2>3 DEF Read, StoreType
    <3>1. i \in Ids /\ work[w].got = None /\ UNCHANGED <<kept, drawn>>
      BY <2>3 DEF Read, ReadInv, files, kept, drawn
    <3>2. \/ Finish(w)
          \/ data[i] # None /\ work' = [work EXCEPT ![w].pc = "served", ![w].got = data[i]]
          \/ data[i] # None /\ work' = [work EXCEPT ![w].pc = "digest", ![w].got = data[i]]
      BY <1>1, <2>3, <3>0, Zenon DEF Read, StoreType
    <3>3. CASE Finish(w)
      <4>1. given'[w] = None /\ given[w] = None
        BY <1>1, <3>1, <3>3 DEF given, Finish, Idle
      <4>. QED
        BY <2>1, <2>2, <3>1, <4>1
    <3>4. CASE ~Finish(w)
      <4>1. data[i] # None /\ work'[w].got = data[i] /\ work'[w].by = work[w].by
        BY <1>1, <2>1, <3>2, <3>4 DEF Jobs
      <4>2. data[i] = i /\ refs[i] # None /\ refs[i].owner = work[w].by
        BY <2>3, <3>0, <3>1, <4>1, <1>1 DEF FilesInv, Read, ReadInv
      \* Metadata goes last, and a put in the making has no reference.
      <4>3. meta[i] = refs[i]
        BY <1>1, <3>1, <4>1, <4>2 DEF OrphansAreCutPuts, FilesInv, PutInv, ReadInv, Storing
      <4>4. kept[i] = refs[i] /\ given[w] = None
        BY <3>1, <4>2, <4>3 DEF kept, given
      <4>5. given'[w] = [id |-> i, to |-> kept[i].owner]
        BY <3>1, <4>1, <4>2, <4>4, StoreAssumption DEF given
      <4>6. Promise!Give(w, i)
        BY <2>1, <2>2, <3>1, <4>2, <4>4, <4>5 DEF Promise!Give, kept, drawn, given
      <4>. QED
        BY <3>1, <4>6 DEF Promise!Next
    <3>. QED
      BY <3>3, <3>4
  \* The files are left alone: a reader lets go, or nothing happens.
  <2>4. ASSUME ~Read(w) PROVE given'[w] \in {None, given[w]}
    <3>1. CASE Load(w)
      <4>1. work[w].got = None
        BY <3>1 DEF Load, ReadInv
      <4>2. work'[w].got = None
        BY <1>1, <2>1, <3>1, <4>1 DEF Load, Finish, Goto, Idle, Jobs
      <4>. QED
        BY <4>2 DEF given
    <3>2. CASE ~Load(w)
      <4>1. work'[w].got = None \/ (work'[w].got = work[w].got /\ work'[w].by = work[w].by)
        BY <1>1, <1>4, <2>4, <3>2, GotSteps
      <4>. QED
        BY <4>1 DEF given
    <3>. QED
      BY <3>1, <3>2
  <2>5. ASSUME ~Read(w), UNCHANGED <<kept, drawn>> PROVE Result
    <3>1. CASE given'[w] = given[w]
      BY <2>1, <2>2, <2>5, <3>1
    <3>2. CASE given'[w] = None
      <4>1. Promise!LetGo(w)
        BY <2>1, <2>2, <2>5, <3>2 DEF Promise!LetGo, kept, drawn, given
      <4>. QED
        BY <4>1 DEF Promise!Next
    <3>. QED
      BY <2>4, <2>5, <3>1, <3>2
  \* The data file alone is nothing a reader can see.
  <2>6. CASE WriteData(w)
    <3>. DEFINE i == work[w].id
    <3>1. i \in Ids /\ refs[i] = None /\ data[i] = None
      BY <1>1, <2>6 DEF WriteData, PutInv, Storing
    <3>2. UNCHANGED <<kept, drawn>>
      BY <1>1, <2>6, <3>1 DEF WriteData, StoreType, kept, drawn
    <3>. QED
      BY <2>5, <2>6, <3>2 DEF WriteData, Read
  <2>7. CASE WriteMeta(w)
    <3>0. PICK i \in Ids : i = work[w].id
      BY <1>1, <2>7 DEF WriteMeta, StoreType
    <3>. DEFINE r == [owner |-> work[w].by, expires |-> work[w].expires]
    <3>1. /\ i \in Ids /\ refs[i] = None /\ data[i] = i /\ work[w].by \in Principals
          /\ meta' = [meta EXCEPT ![i] = r] /\ refs' = [refs EXCEPT ![i] = r] /\ UNCHANGED data
      BY <1>1, <2>1, <2>7, <3>0 DEF WriteMeta, PutInv, Storing, StoreType, Jobs
    <3>2. r # None /\ work[w].expires \in 0..(clock + Ttl)
      BY <1>1, <2>1, <2>7, <3>1, StoreAssumption DEF WriteMeta, Jobs, ReadInv, Storing
    <3>3. kept' = [kept EXCEPT ![i] = r] /\ drawn' = drawn \cup {i} /\ i \notin drawn
      BY <1>1, <3>1, <3>2 DEF kept, drawn, StoreType
    <3>4. given' = given
      <4>1. work[w].got = None /\ work'[w].got = None
        BY <1>1, <2>7 DEF WriteMeta, ReadInv, Finish, Idle
      <4>. QED
        BY <2>1, <2>2, <4>1 DEF given
    <3>5. Promise!Keep(i)
      BY <2>1, <3>1, <3>2, <3>3, <3>4 DEF Promise!Keep, kept, drawn, given
    <3>. QED
      BY <3>1, <3>5 DEF Promise!Next
  \* The first unlink is the one that counts.
  <2>8. CASE UnlinkData(w)
    <3>0. PICK i \in Ids : i = work[w].id
      BY <1>1, <2>8 DEF UnlinkData, StoreType
    <3>1. /\ i \in Ids /\ refs[i] # None /\ refs[i].expires <= clock
          /\ data' = [data EXCEPT ![i] = None] /\ UNCHANGED <<meta, refs>>
      BY <1>1, <2>8, <3>0 DEF UnlinkData, SweepInv, Unlinking
    <3>2. kept' = [kept EXCEPT ![i] = None] /\ drawn' = drawn
      <4>1. data'[i] # i /\ \A j \in Ids \ {i} : data'[j] = data[j]
        BY <1>1, <3>1, StoreAssumption DEF StoreType
      <4>. QED
        BY <3>1, <4>1 DEF kept, drawn
    <3>3. CASE kept[i] = None
      <4>1. UNCHANGED <<kept, drawn>>
        BY <3>1, <3>2, <3>3 DEF kept
      <4>. QED
        BY <2>5, <2>8, <4>1 DEF UnlinkData, Read
    <3>4. CASE kept[i] # None
      <4>1. kept[i] = refs[i]
        BY <3>1, <3>4 DEF kept
      <4>2. given' = given
        <5>1. work[w].got = None
          BY <2>8 DEF UnlinkData, ReadInv
        <5>2. given[w] = None
          BY <5>1 DEF given
        <5>. QED
          BY <2>2, <2>4, <2>8, <5>2 DEF UnlinkData, Read
      <4>3. Promise!Expire(i)
        BY <2>1, <3>1, <3>2, <3>4, <4>1, <4>2 DEF Promise!Expire, kept, drawn, given
      <4>. QED
        BY <3>1, <4>3 DEF Promise!Next
    <3>. QED
      BY <3>3, <3>4
  <2>9. CASE UnlinkMeta(w)
    <3>. DEFINE i == work[w].id
    <3>1. i \in Ids /\ data[i] = None /\ meta' = [meta EXCEPT ![i] = None] /\ UNCHANGED <<data, refs>>
      BY <1>1, <2>9 DEF UnlinkMeta, SweepInv, Unlinking
    <3>2. UNCHANGED <<kept, drawn>>
      BY <1>1, <3>1, StoreAssumption DEF kept, drawn, StoreType
    <3>. QED
      BY <2>5, <2>9, <3>2 DEF UnlinkMeta, Read
  <2>10. CASE ~(WriteData(w) \/ WriteMeta(w) \/ UnlinkData(w) \/ UnlinkMeta(w) \/ Read(w))
    <3>1. UNCHANGED <<data, meta, refs>>
      BY <1>4, <2>10 DEF WorkerStep, Begin, PutBase64, CopyFromTrustedUrl, Get, Export,
            Fetch, Find, Load, ReadFails, Serve, Sweep, Store, Hop,
            WriteFails, Write, Digest, DigestPortable, Publish, PublishPortable, ExportFails, Clean,
            SweepNext, SweepEnds, Crash, files
    <3>2. UNCHANGED <<kept, drawn>>
      BY <3>1 DEF kept, drawn
    <3>. QED
      BY <2>5, <2>10, <3>2
  <2>. QED
    BY <2>3, <2>6, <2>7, <2>8, <2>9, <2>10
<1>. QED
  BY <1>2, <1>3, <1>4 DEF Next, WorkerStep

\* The directory with its two files per artifact, its sweeps, crashes and
\* readers in between (filesystem_store.py), and the object store, implement
\* a store in which an artifact comes and goes in one step.
THEOREM StoreImplements == Spec => ImplementsStore
<1>1. StoreInv /\ ReadInv /\ StoreInv' /\ ReadInv' /\ [Next]_vars => [Promise!Next]_(Promise!vars)
  BY StepImplements
<1>. QED
  BY <1>1, InitImplements, ReadsKept, PTL DEF Spec, ImplementsStore, Promise!Spec
=============================================================================
