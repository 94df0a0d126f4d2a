----------------------------- MODULE GRAM5Upload -----------------------------
(***************************************************************************)
(* The GRAM5 usage-packet uploader of gram5packet.py, as one uploader      *)
(* process over one database.                                              *)
(*                                                                         *)
(*  - GRAM5Packet keeps class-wide dictionaries (natural key -> id) for    *)
(*    every dimension table; upload_many warms them from the tables.       *)
(*  - GRAM5JMPacket.values and GRAM5JobPacket.values resolve the foreign   *)
(*    keys of one packet through those dictionaries, inserting a row on    *)
(*    every miss, and CUsagePacket.upload_many inserts the fact row.       *)
(*  - the uploader (outside src/) commits a batch, or rolls it back when   *)
(*    upload_many raises; the process may stop and be started again.       *)
(*                                                                         *)
(* Each get_* method is one step: the program is single-threaded, so the  *)
(* only things that fall between two steps are a failure of the packet     *)
(* (a Python exception or a failed INSERT) and a stop of the process.      *)
(* Host ids come from the external DNSCache and are not a table here.      *)
(***************************************************************************)
EXTENDS Integers, Sequences, FiniteSets, Bitwise, TLC, RslBitfield

CONSTANTS
    None,            \* Python None / SQL NULL
    Malformed,       \* a packet field whose cast raises (float, int, split)
    Hosts,           \* host ids the external DNSCache returns
    JobManagerOf,    \* uuid (field B) -> what every packet of that job manager
                     \* instance says: host, version string (D, a sequence of
                     \* characters, or None), lrm (E) and
                     \* (seg_used, poll_used, audit_used) from F and G
    DirtRoundTrip,   \* dirt timestamp -> strftime('%s') of the local time the
                     \* timestamp column gives back (mktime of fromtimestamp)
    Dns,             \* values of field 9
    Executables,     \* (executable, arguments) pairs of fields 6 and 7
    JobTypes,        \* values of field H
    StdAttrs,        \* seeded gram5_rsl_attributes: name -> id (= bit position)
    StdBitfields,    \* values of field 1, the standard-attribute bitfield
    ExtAttrLists,    \* values of field 4, as sequences of attribute names
    StagingFields,   \* the file staging fields o, p .. z, 0
    MaxPackets,      \* packets the uploader is handed, over all batches
    MaxBatches,      \* calls of upload_many
    RollbackOnError, \* the uploader rolls back when upload_many raises
    StorageFaults,   \* an INSERT may fail (which aborts the transaction)
    Restarts         \* the uploader process may stop and start again

\* __parse_version (version_re) over field D.
LOCAL INSTANCE VersionParser

ASSUME MaxPackets \in Nat /\ MaxBatches \in Nat
ASSUME {RollbackOnError, StorageFaults, Restarts} \subseteq BOOLEAN

VARIABLES
    store,       \* store[t]: rows of table t visible to the uploader's session
    committed,   \* committed[t]: rows of table t that are committed
    seq,         \* seq[t]: next value of t's id sequence (never rolled back)
    cache,       \* cache[t]: the class-wide dictionary key -> id of dimension t
    all_init,    \* GRAM5Packet._all_init, the flag upload_many writes
    classCursor, \* GRAM5Packet.cursor: the batch whose cursor it holds, 0 unset
    nBatches,    \* calls of upload_many so far (the current cursor is nBatches)
    nPackets,    \* packets handed to the uploader so far
    pc,          \* the step of the packet under way
    loc,         \* the local variables of the packet under way
    txAborted    \* an INSERT failed: the transaction can only be rolled back

\* The job manager instances that send packets.
Uuids == DOMAIN JobManagerOf

vars == <<store, committed, seq, cache, all_init, classCursor,
          nBatches, nPackets, pc, loc, txAborted>>

\* Dimension tables, each with a class-wide dictionary, and fact tables.
Dims == {"version", "lrm", "jm", "jmi", "client", "exe", "rslattr",
         "rslgroup", "jobtype"}
Facts == {"fileinfo", "job", "jmstatus", "jobstatus"}
Tables == Dims \cup Facts

\* A staging field is absent, or the string "0", or a non-zero string.
StagingValues == {None, "0", "1"}

JMSteps == {"jm_version", "jm_lrm", "jm_manager", "jm_instance", "jm_insert"}
JobSteps == {"job_stages", "job_instance", "job_client", "job_exe", "job_rsl",
             "job_rsl_attr", "job_fileinfo", "job_type", "job_insert",
             "job_status_insert"}

Row(i, k, r, d) == [id |-> i, key |-> k, refs |-> r, data |-> d]

\* A foreign key: nothing when the id is NULL.
Ref(t, i) == IF i = None THEN {} ELSE {<<t, i>>}

NoLoc == [uuid |-> None, version |-> None, lrm |-> None, jm |-> None, jmi |-> None,
          client |-> None, exe |-> None, bitfield |-> None, attrs |-> <<>>,
          fileinfo |-> None, jobtype |-> None, job |-> None]

StdIds == {StdAttrs[n] : n \in DOMAIN StdAttrs}

EmptyCaches == [t \in Dims |-> <<>>]

(***************************************************************************)
(* The state before the first upload_many: the standard RSL attributes are *)
(* in gram5_rsl_attributes, every other table is empty.                    *)
(***************************************************************************)
SeedStore == [t \in Tables |->
                IF t = "rslattr"
                THEN {Row(StdAttrs[n], n, {}, None) : n \in DOMAIN StdAttrs}
                ELSE {}]

Init ==
    /\ store = SeedStore
    /\ committed = SeedStore
    /\ seq = [t \in Tables |->
                IF t = "rslattr"
                THEN 1 + (CHOOSE m \in StdIds : \A j \in StdIds : j =< m)
                ELSE 1]
    /\ cache = EmptyCaches
    /\ all_init = 0
    /\ classCursor = 0
    /\ nBatches = 0
    /\ nPackets = 0
    /\ pc = "idle"
    /\ loc = NoLoc
    /\ txAborted = FALSE

-----------------------------------------------------------------------------
(***************************************************************************)
(* Cache warm-up: the __init_* static methods.  Each reads its whole table *)
(* and assigns dict[key] = id; entries already in the dictionary stay.     *)
(* __init_executables keys its entries by (id, executable, arguments), a   *)
(* key get_executable_id never builds, so none of them is ever hit: they   *)
(* are left out.  gram5_rsl_attribute_groups maps bitfield -> bitfield,    *)
(* and its rows are kept with id = key = bitfield.                         *)
(***************************************************************************)
\* Mutant: every loader keys its entries by (id, key), as
\* __init_executables does.
LoadedById(t) ==
    IF t = "rslgroup" THEN [b \in {r.key : r \in store[t]} |-> b]
    ELSE [k \in {<<r.id, r.key>> : r \in store[t]} |->
        (CHOOSE r \in store[t] : <<r.id, r.key>> = k).id]

(***************************************************************************)
(* The key __init_versions builds from a gram5_versions row: the dirt      *)
(* timestamp was stored as TimestampFromTicks (a local time) and is turned  *)
(* back into ticks by strftime('%s') of its timetuple, i.e. mktime.  In a  *)
(* repeated local hour (end of DST) mktime may pick the other occurrence.  *)
(***************************************************************************)
LoadKey(t, k) ==
    IF t = "version" /\ k # None THEN [k EXCEPT ![4] = DirtRoundTrip[@]] ELSE k

Loaded(t) ==
    IF t = "exe" THEN <<>>
    ELSE IF t = "rslgroup" THEN [b \in {r.key : r \in store[t]} |-> b]
    ELSE [k \in {LoadKey(t, r.key) : r \in store[t]} |->
            (CHOOSE r \in store[t] : LoadKey(t, r.key) = k).id]

LoadAll == cache' = [t \in Dims |-> Loaded(t) @@ cache[t]]

(***************************************************************************)
(* GRAM5Packet.upload_many with the cursor of a new batch.  The guard reads *)
(* GRAM5Packet.__all_init (name-mangled), which is never assigned: the body *)
(* writes _all_init.  So the guard always holds and every call warms the    *)
(* caches again and stores its cursor in GRAM5Packet.cursor.               *)
(***************************************************************************)
BeginBatch ==
    /\ pc = "idle"
    /\ nBatches < MaxBatches
    /\ nBatches' = nBatches + 1
    /\ all_init' = 1
    /\ LoadAll
    /\ classCursor' = nBatches + 1
    /\ pc' = "ready"
    /\ UNCHANGED <<store, committed, seq, nPackets, loc, txAborted>>

\* CUsagePacket.upload_many takes the next packet of the batch.
NextPacket ==
    /\ pc = "ready"
    /\ nPackets < MaxPackets
    /\ nPackets' = nPackets + 1
    /\ \E first \in {"jm_version", "job_stages"}, u \in Uuids :
          /\ pc' = first
          /\ loc' = [NoLoc EXCEPT !.uuid = u]
    /\ UNCHANGED <<store, committed, seq, cache, all_init, classCursor,
                   nBatches, txAborted>>

\* upload_many returns and the uploader commits the batch.
EndBatch ==
    /\ pc = "ready"
    /\ committed' = store
    /\ pc' = "idle"
    /\ UNCHANGED <<store, seq, cache, all_init, classCursor,
                   nBatches, nPackets, loc, txAborted>>

-----------------------------------------------------------------------------
(***************************************************************************)
(* The get-or-create pattern every get_* method follows: on a dictionary    *)
(* miss, INSERT ... RETURNING id, fetch the id, then store it in the        *)
(* dictionary; on a hit, no database access.                               *)
(***************************************************************************)
Id(t, k) == IF k \in DOMAIN cache[t] THEN cache[t][k] ELSE seq[t]

\* Mutant: the dictionary is not written after the INSERT.
GetOrCreateNoCacheWrite(t, k, refs) ==
    IF k \in DOMAIN cache[t]
    THEN UNCHANGED <<store, seq, cache>>
    ELSE /\ store' = [store EXCEPT ![t] = @ \cup {Row(seq[t], k, refs, None)}]
         /\ seq' = [seq EXCEPT ![t] = @ + 1]
         /\ UNCHANGED cache

\* Mutant: the line id = cursor.fetchone()[0] is lost, so the dictionary
\* stores the None the id variable was initialised to.
GetOrCreateNoFetch(t, k, refs) ==
    IF k \in DOMAIN cache[t]
    THEN UNCHANGED <<store, seq, cache>>
    ELSE /\ store' = [store EXCEPT ![t] = @ \cup {Row(seq[t], k, refs, None)}]
         /\ seq' = [seq EXCEPT ![t] = @ + 1]
         /\ cache' = [cache EXCEPT ![t] = (k :> None) @@ @]

\* Mutant: the dictionary stores the sequence value after the INSERT's
\* (the id read with nextval instead of RETURNING id).
GetOrCreateNextVal(t, k, refs) ==
    IF k \in DOMAIN cache[t]
    THEN UNCHANGED <<store, seq, cache>>
    ELSE /\ store' = [store EXCEPT ![t] = @ \cup {Row(seq[t], k, refs, None)}]
         /\ seq' = [seq EXCEPT ![t] = @ + 1]
         /\ cache' = [cache EXCEPT ![t] = (k :> seq[t] + 1) @@ @]

GetOrCreate(t, k, refs) ==
    IF k \in DOMAIN cache[t]
    THEN UNCHANGED <<store, seq, cache>>
    ELSE /\ store' = [store EXCEPT ![t] = @ \cup {Row(seq[t], k, refs, None)}]
         /\ seq' = [seq EXCEPT ![t] = @ + 1]
         /\ cache' = [cache EXCEPT ![t] = (k :> seq[t]) @@ @]

\* An INSERT without a dictionary behind it (file info and fact rows).
InsertRow(t, k, refs, d) ==
    /\ store' = [store EXCEPT ![t] = @ \cup {Row(seq[t], k, refs, d)}]
    /\ seq' = [seq EXCEPT ![t] = @ + 1]
    /\ UNCHANGED cache

\* The packet raises: a Python cast fails, or (failed) an INSERT fails.
Raise(failed) ==
    /\ pc' = "failed"
    /\ txAborted' = failed
    /\ UNCHANGED <<store, seq, cache, loc>>

\* cursor.execute raises on a dictionary miss; the dictionary is untouched.
InsertFails(t, k) ==
    /\ StorageFaults
    /\ k \notin DOMAIN cache[t]
    /\ Raise(TRUE)

\* The packet's local variable f becomes v and the method returns to next.
Then(f, v, next) ==
    /\ loc' = [loc EXCEPT ![f] = v]
    /\ pc' = next
    /\ UNCHANGED txAborted

\* Variables a step of a packet leaves alone.
StepFrame == UNCHANGED <<committed, all_init, classCursor,
                         nBatches, nPackets>>

\* A dimension lookup whose key may be NULL (no lookup, NULL id) or a value.
Lookup(t, f, k, refs, next) ==
    IF k = None
    THEN Then(f, None, next) /\ UNCHANGED <<store, seq, cache>>
    ELSE \/ GetOrCreate(t, k, refs) /\ Then(f, Id(t, k), next)
         \/ InsertFails(t, k)

-----------------------------------------------------------------------------
(* GRAM5JMPacket.values: get_job_manager_instance_id -> get_job_manager_id *)

\* __parse_version of the field D each job manager instance sends.
ParsedVersion == [u \in Uuids |-> ParseVersion(JobManagerOf[u].version)]

\* get_version_id: the key is __parse_version of field D; NULL when D is
\* absent or does not match version_re.
JMVersion ==
    /\ pc = "jm_version"
    /\ Lookup("version", "version", ParsedVersion[loc.uuid], {}, "jm_lrm")
    /\ StepFrame

\* get_lrm_id: field E absent -> NULL.
JMLrm ==
    /\ pc = "jm_lrm"
    /\ Lookup("lrm", "lrm", JobManagerOf[loc.uuid].lrm, {}, "jm_manager")
    /\ StepFrame

\* get_job_manager_id: key (host_id, version_id, lrm_id, seg, poll, audit).
JMManager ==
    /\ pc = "jm_manager"
    /\ LET jm == JobManagerOf[loc.uuid] IN
         Lookup("jm", "jm", <<jm.host, loc.version, loc.lrm, jm.flags>>,
                Ref("version", loc.version) \cup Ref("lrm", loc.lrm),
                "jm_instance")
    /\ StepFrame

(***************************************************************************)
(* get_job_manager_instance_id: float(A) raises when field A is absent or  *)
(* not a number; then the instance is looked up by uuid only, and a new    *)
(* one is inserted with this job manager as its owner.                     *)
(***************************************************************************)
JMInstance ==
    /\ pc = "jm_instance"
    /\ \/ Raise(FALSE)
       \/ Lookup("jmi", "jmi", loc.uuid, Ref("jm", loc.jm), "jm_insert")
    /\ StepFrame

\* The gram5_job_manager_status row, inserted through the batch's cursor.
JMInsert ==
    /\ pc = "jm_insert"
    /\ \/ /\ InsertRow("jmstatus", None, Ref("jmi", loc.jmi), loc.jm)
          /\ pc' = "ready"
          /\ UNCHANGED <<loc, txAborted>>
       \/ StorageFaults /\ Raise(TRUE)
    /\ StepFrame

-----------------------------------------------------------------------------
(* GRAM5JobPacket.values: the stage timestamps, then get_job_id            *)

\* float(c) .. float(i) of the seven stage fields raises on a non-number.
JobStages ==
    /\ pc = "job_stages"
    /\ \/ pc' = "job_instance" /\ UNCHANGED <<store, seq, cache, loc, txAborted>>
       \/ Raise(FALSE)
    /\ StepFrame

\* get_job_manager_instance_id_by_uuid: float(A) raises on a non-number;
\* a new instance row has no owning job manager.
JobInstance ==
    /\ pc = "job_instance"
    /\ \/ Raise(FALSE)
       \/ Lookup("jmi", "jmi", loc.uuid, {}, "job_client")
    /\ StepFrame

\* get_client_id: "addr:port".split(':') raises unless there is one colon;
\* no lookup when both the host and the DN are NULL.
JobClient ==
    /\ pc = "job_client"
    /\ \E ip \in Hosts \cup {None, Malformed}, dn \in Dns \cup {None} :
          IF ip = Malformed THEN Raise(FALSE)
          ELSE IF ip = None /\ dn = None
               THEN Then("client", None, "job_exe")
                    /\ UNCHANGED <<store, seq, cache>>
               ELSE Lookup("client", "client", <<ip, dn>>, {}, "job_exe")
    /\ StepFrame

\* get_executable_id: no lookup when field 6 is absent.
JobExe ==
    /\ pc = "job_exe"
    /\ \E e \in Executables \cup {None} : Lookup("exe", "exe", e, {}, "job_rsl")
    /\ StepFrame

\* get_rsl_bitfield: int(field 1) raises when it is absent; field 4 is
\* split into the extension attribute names.
JobRsl ==
    /\ pc = "job_rsl"
    /\ \E b \in StdBitfields \cup {None}, attrs \in ExtAttrLists :
          IF b = None THEN Raise(FALSE)
          ELSE /\ loc' = [loc EXCEPT !.bitfield = b, !.attrs = attrs]
               /\ pc' = "job_rsl_attr"
               /\ UNCHANGED <<store, seq, cache, txAborted>>
    /\ StepFrame

\* One pass of the loop over the extension names: get_rsl_attribute_index,
\* then bitfield = bitfield | 2**attr_index.
JobRslAttr ==
    /\ pc = "job_rsl_attr"
    /\ loc.attrs # <<>>
    /\ LET a == Head(loc.attrs) IN
         \/ /\ GetOrCreate("rslattr", a, {})
            /\ loc' = [loc EXCEPT !.attrs = Tail(@),
                                  !.bitfield = AddBit(@, Id("rslattr", a))]
            /\ UNCHANGED <<pc, txAborted>>
         \/ InsertFails("rslattr", a)
    /\ StepFrame

\* The end of get_rsl_bitfield: the sorted name list is inserted into
\* gram5_rsl_attribute_groups when the bitfield is not in the dictionary.
JobRslGroup ==
    /\ pc = "job_rsl_attr"
    /\ loc.attrs = <<>>
    /\ LET b == loc.bitfield IN
         IF b \in DOMAIN cache["rslgroup"]
         THEN pc' = "job_fileinfo" /\ UNCHANGED <<store, seq, cache, loc, txAborted>>
         ELSE \/ /\ store' = [store EXCEPT !["rslgroup"] = @ \cup
                        {Row(b, b, {}, BitfieldNames(b, cache["rslattr"]))}]
                 /\ cache' = [cache EXCEPT !["rslgroup"] = (b :> b) @@ @]
                 /\ pc' = "job_fileinfo"
                 /\ UNCHANGED <<seq, loc, txAborted>>
              \/ InsertFails("rslgroup", b)
    /\ StepFrame

(***************************************************************************)
(* get_file_info: an absent field becomes the int 0, a present one stays   *)
(* the packet's string, and the row is inserted when some value != 0.      *)
(* A str never equals the int 0, so any present field, "0" included,       *)
(* counts as non-zero.                                                     *)
(***************************************************************************)
StagingNonZero(v) == v # None

JobFileInfo ==
    /\ pc = "job_fileinfo"
    /\ \E vals \in [StagingFields -> StagingValues] :
          IF \E f \in StagingFields : StagingNonZero(vals[f])
          THEN \/ InsertRow("fileinfo", vals, {}, None)
                  /\ Then("fileinfo", seq["fileinfo"], "job_type")
               \/ StorageFaults /\ Raise(TRUE)
          ELSE Then("fileinfo", None, "job_type") /\ UNCHANGED <<store, seq, cache>>
    /\ StepFrame

\* get_job_type: an absent field H is looked up (and inserted) as NULL.
JobType ==
    /\ pc = "job_type"
    /\ \E jt \in JobTypes \cup {None} :
          \/ GetOrCreate("jobtype", jt, {}) /\ Then("jobtype", Id("jobtype", jt), "job_insert")
          \/ InsertFails("jobtype", jt)
    /\ StepFrame

\* The end of get_job_id: the gram5_jobs row with every foreign key.
JobInsert ==
    /\ pc = "job_insert"
    /\ \/ /\ InsertRow("job", None,
                       Ref("jmi", loc.jmi) \cup Ref("client", loc.client)
                       \cup Ref("exe", loc.exe) \cup Ref("rslgroup", loc.bitfield)
                       \cup Ref("fileinfo", loc.fileinfo)
                       \cup Ref("jobtype", loc.jobtype), None)
          /\ Then("job", seq["job"], "job_status_insert")
       \/ StorageFaults /\ Raise(TRUE)
    /\ StepFrame

\* The gram5_job_status row, inserted through the batch's cursor.
JobStatusInsert ==
    /\ pc = "job_status_insert"
    /\ \/ /\ InsertRow("jobstatus", None, Ref("job", loc.job), None)
          /\ pc' = "ready"
          /\ UNCHANGED <<loc, txAborted>>
       \/ StorageFaults /\ Raise(TRUE)
    /\ StepFrame

-----------------------------------------------------------------------------
(***************************************************************************)
(* The uploader, outside src/: the exception leaves upload_many (the rest  *)
(* of the batch is not processed); the session is rolled back when the     *)
(* uploader does so, and always when an INSERT failed.  No dictionary is   *)
(* touched.                                                                *)
(***************************************************************************)
UploadFails ==
    /\ pc = "failed"
    /\ store' = IF txAborted \/ RollbackOnError THEN committed ELSE store
    /\ pc' = "idle"
    /\ loc' = NoLoc
    /\ txAborted' = FALSE
    /\ UNCHANGED <<committed, seq, cache, all_init, classCursor,
                   nBatches, nPackets>>

\* The uploader process stops: the open transaction is lost with the
\* class-wide state; sequences keep their values.
Restart ==
    /\ Restarts
    /\ store' = committed
    /\ cache' = EmptyCaches
    /\ all_init' = 0
    /\ classCursor' = 0
    /\ pc' = "idle"
    /\ loc' = NoLoc
    /\ txAborted' = FALSE
    /\ UNCHANGED <<committed, seq, nBatches, nPackets>>

\* Every call of upload_many has been made.
Terminating ==
    /\ pc = "idle"
    /\ nBatches = MaxBatches
    /\ UNCHANGED vars

Next ==
    \/ BeginBatch \/ NextPacket \/ EndBatch
    \/ JMVersion \/ JMLrm \/ JMManager \/ JMInstance \/ JMInsert
    \/ JobStages \/ JobInstance \/ JobClient \/ JobExe \/ JobRsl
    \/ JobRslAttr \/ JobRslGroup \/ JobFileInfo \/ JobType
    \/ JobInsert \/ JobStatusInsert
    \/ UploadFails \/ Restart \/ Terminating

Spec == Init /\ [][Next]_vars

-----------------------------------------------------------------------------
(* Properties                                                              *)

TableType(db) ==
    /\ DOMAIN db = Tables
    /\ \A t \in Tables : \A r \in db[t] :
          /\ DOMAIN r = {"id", "key", "refs", "data"}
          /\ r.id \in Nat
          /\ r.refs \subseteq Tables \X Nat

TypeOK ==
    /\ TableType(store)
    /\ TableType(committed)
    /\ seq \in [Tables -> Nat \ {0}]
    /\ DOMAIN cache = Dims
    /\ \A t \in Dims : \A k \in DOMAIN cache[t] : cache[t][k] \in Nat
    /\ all_init \in {0, 1}
    /\ classCursor \in 0..MaxBatches
    /\ nBatches \in 0..MaxBatches
    /\ nPackets \in 0..MaxPackets
    /\ pc \in {"idle", "ready", "failed"} \cup JMSteps \cup JobSteps
    /\ DOMAIN loc = DOMAIN NoLoc
    /\ txAborted \in BOOLEAN

\* Two rows of dimension t with the same natural key.
Duplicated(t) == \E r1, r2 \in store[t] : r1.key = r2.key /\ r1.id # r2.id

(***************************************************************************)
(* Natural keys are unique (spec, section 3, invariant 1): no dimension    *)
(* table ever holds two rows with one natural key, across failed packets,  *)
(* rollbacks and restarts that re-warm the dictionaries from the tables.   *)
(* Executables are checked on their own (UniqueExecutables).               *)
(***************************************************************************)
UniqueKeys == \A t \in Dims \ {"exe"} : ~Duplicated(t)

\* The same for gram5_executable, whose dictionary __init_executables fills.
UniqueExecutables == ~Duplicated("exe")

(***************************************************************************)
(* Every foreign key of a committed row names a committed row of its    *)
(* table (spec, section 5: a fact row's foreign keys must exist): an id a *)
(* get_* method returns, from the dictionary or from its INSERT, is never *)
(* that of a row whose INSERT was lost to a rollback or a process stop.   *)
(***************************************************************************)
CommittedRefsResolve ==
    \A t \in Tables : \A r \in committed[t] : \A ref \in r.refs :
        \E d \in committed[ref[1]] : d.id = ref[2]

(***************************************************************************)
(* The dictionaries mirror the tables (spec, sections 3 and 7): every id a  *)
(* get_* method can return from its dictionary is the id of a row of the   *)
(* session's table with that natural key, never one whose INSERT did not   *)
(* survive.                                                                *)
(***************************************************************************)
CacheSound ==
    \A t \in Dims : \A k \in DOMAIN cache[t] :
        \E r \in store[t] : r.id = cache[t][k] /\ r.key = k

(***************************************************************************)
(* A job manager status row references the instance of the job manager     *)
(* the packet resolved (spec, 4.4: the instance is resolved via the job    *)
(* manager): the instance's owner is that job manager.                     *)
(***************************************************************************)
JMStatusLinked ==
    \A f \in store["jmstatus"] : \A i \in store["jmi"] :
        <<"jmi", i.id>> \in f.refs => <<"jm", f.data>> \in i.refs

\* A file info row is written only when a staging value is non-zero
\* (spec, section 3, invariant 4).
FileInfoNonTrivial ==
    \A r \in store["fileinfo"] : \E f \in StagingFields : r.key[f] = "1"

(***************************************************************************)
(* The stored attribute list of a bitfield is the sorted list of the names *)
(* whose bit is set (spec, 4.3 and 8: decoding a bitfield gives back its   *)
(* attribute names), for the gram5_rsl_attributes table as it is now, not  *)
(* only as it was when get_rsl_bitfield first saw the bitfield.            *)
(***************************************************************************)
AttributeIds == [n \in {r.key : r \in store["rslattr"]} |->
                   (CHOOSE r \in store["rslattr"] : r.key = n).id]

RslGroupNamesCurrent ==
    \A g \in store["rslgroup"] :
        g.data = {n \in DOMAIN AttributeIds : (g.key \div 2^AttributeIds[n]) % 2 = 1}


=============================================================================
