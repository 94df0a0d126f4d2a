# TLA+ models of the GRAM5 usage-packet uploader

The code is `src/usage/python/tools/source/gram5packet.py`. It takes GRAM5 usage
packets (flat field maps sent over UDP by job managers) and writes them into a
star schema: dimension rows keyed by natural keys, and fact rows that reference
them. `src/setup.py` is the packaging of an unrelated OAuth service.

## Inventory

### Components

| Component | Code | State | Operations |
|---|---|---|---|
| Dimension Cache | `GRAM5Packet` class attributes (l. 29-42), `__init_*` (l. 222-516), `get_*` methods | one class-wide dict per dimension: natural key -> id (`__versions`, `__lrms`, `__job_managers`, `__job_manager_instances_by_uuid`, `clients`, `executables`, `__rsl_attributes`, `__rsl_bitfields`, `job_type_ids`). `__job_manager_instances` is written but never read | warm-up (full table scan into the dict), get-or-create (dict hit, or `INSERT ... RETURNING id` then dict write) |
| Version String Parser | `version_re`, `__parse_version` (l. 274-306) | none | string -> version tuple or None (`VersionParser.tla`) |
| RSL Bitfield Codec | `get_rsl_attribute_index`, `get_rsl_bitfield` (l. 523-565) | `__rsl_attributes`, `__rsl_bitfields`, tables `gram5_rsl_attributes`, `gram5_rsl_attribute_groups` | register extension attributes, OR `2**id` bits in, decode names from the dict, write the group once |
| Fact Builders | `GRAM5JMPacket.values` (l. 620-655), `GRAM5JobPacket.values`, `get_job_id`, `get_client_id`, `get_file_info`, `get_job_type` (l. 689-953) | the packet's local ids | resolve every foreign key in a fixed order, insert `gram5_jobs` / `gram5_job_file_info`, build the fact tuple |
| Upload Orchestrator | `GRAM5Packet.upload_many` (l. 48-69) | `__all_init` (read), `_all_init` (written), `db_class`, `cursor` | warm all dicts "once", store the cursor, hand the batch to `CUsagePacket.upload_many` |
| Host Resolver | `DNSCache` (not in the repository) | - | address/hostname -> host id |
| Uploader / `CUsagePacket` | not in the repository | the database session | per packet: `values()` then the fact INSERT; commit a batch, roll back on error |
| OAuth packaging | `src/setup.py` | - | - |

### Interaction

`upload_many` warms every dictionary from its table, sets `GRAM5Packet.cursor`
and calls `CUsagePacket.upload_many`, which for each packet calls `values()`.
`values()` resolves the dimensions through the dictionaries (inserting through
`GRAM5Packet.cursor` on a miss) and the base class inserts the fact row through
the cursor it was given. The dictionaries are shared by all packets of the
process; the tables are shared with every later process.

### What is hard

The program is single-threaded, so nothing interleaves inside a packet. What a
test hardly reaches is the interplay of the class-wide dictionaries with the
database's transaction and with the life of the process:

* a packet fails half-way (a `float`, `int` or `split` raises, or an INSERT
  fails) after it has inserted and cached dimension rows; the uploader may roll
  the batch back, but the dictionaries keep the ids;
* the process restarts, losing uncommitted rows and the dictionaries, and
  re-warms from the tables: a loader that does not rebuild exactly the keys the
  lookups build re-inserts known keys;
* packets of one job manager arrive in any order (UDP);
* the run-once warm-up guard and the class-wide cursor;
* the bitfield group written once while the attribute table keeps growing.

### What makes each component correct

* Dimension Cache: natural keys unique in every table; every cached id is the id
  of a live row with that key; warmed once per process.
* RSL codec: the stored name list of a bitfield decodes the bitfield.
* Fact builders: every committed foreign key names a committed row; a JM
  status row references the instance of its job manager; a
  file info row only for non-zero staging values.
* Orchestrator: dimension INSERTs go through the batch's own session.

The hazards, each at its line, are listed in `PROJECT.json`.

## Modules

### `GRAM5Upload.tla` - the uploader process

One uploader process over one database.

* State: `store` (rows of each table as the session sees them), `committed`,
  `seq` (id sequences, which PostgreSQL never rolls back), `cache` (the
  class-wide dicts), `all_init`, `classCursor` (`GRAM5Packet.cursor`, as the
  number of the batch whose cursor it holds), `nBatches`, `nPackets`,
  `pc`/`loc` (the step and local variables of the packet under way), and
  `txAborted` (an INSERT failed, so the transaction can only be rolled back).
* A row is `[id, key, refs, data]`: `refs` are its foreign keys as
  `<<table, id>>` pairs; `rslgroup` rows have id = key = bitfield and the set of
  names as data (the sorted list is determined by the set).
* Actions: `BeginBatch` (`upload_many`, with the guard as written: it always
  warms, against the spec's "exactly once per process" (4.5, 9), which only
  costs a re-read of every table; `classCursor` is set as the code sets it, but
  nothing in the model reads it, since every INSERT reaches the one store), `NextPacket`, `EndBatch` (commit), one action per `get_*` call of the JM
  path (`JMVersion`, `JMLrm`, `JMManager`, `JMInstance`, `JMInsert`) and of the
  job path (`JobStages`, `JobInstance`, `JobClient`, `JobExe`, `JobRsl`,
  `JobRslAttr` per extension name, `JobRslGroup`, `JobFileInfo`, `JobType`,
  `JobInsert`, `JobStatusInsert`), `UploadFails` (the uploader's handling of the
  exception), `Restart`, `Terminating`.
* Every step that casts a field can raise (`Raise(FALSE)`); every INSERT can
  fail when `StorageFaults` (`InsertFails`, `Raise(TRUE)`), without touching the
  dictionary, as in the code.
* Abstractions: packet field values are model values; a job manager instance's
  fields (host, version, lrm, flags) are a function of its uuid, since every
  packet of an instance sends the same ones; field D is a sequence of
  characters, parsed by `VersionParser!ParseVersion` once per instance (`ParsedVersion`) and looked up in `JMVersion`; the stage timestamps, counters and lifetime string carry no state
  and are abstracted to whether they raise. `__init_executables` entries are
  dropped, since their keys are never looked up. `DNSCache` returns a host id
  from `Hosts`.
* The version key is the parsed 6-tuple. The warm-up rebuilds it with
  `LoadKey`, which sends the stored dirt timestamp (element 4) through
  the constant `DirtRoundTrip` (`strftime('%s')` of the local time
  `TimestampFromTicks` made of it, l. 266-267).
* Modelled from the spec (not in src/): the per-packet loop of
  `CUsagePacket.upload_many`, commit and rollback by the uploader, process
  restarts.

### `RslBitfield.tla` - the bitfield codec

This module holds the pure operators of `get_rsl_bitfield`:

* `AddBit` is `bitfield | 2**id`;
* `Encode` folds `AddBit` over the extension names;
* `BitfieldNames` decodes the names from the dictionary.

`GRAM5Upload` uses the same operators. `MC_Codecs` checks them against an
arithmetic reference over a four-attribute dictionary, every standard bitfield
of four bits, and every list of at most three names. Repeated names and
standard names are included.

### `VersionParser.tla` - `__parse_version`

`version_re.match` is written as a scan over field D, which is a sequence of
one-character strings:

* `Scan` takes each run of the expression as far as it goes;
* `Matches` tests that every mandatory part is where it must be;
* `Distro` reads the optional group 7;
* `ParseVersion` builds the tuple, with `Number` as `int()`.

No group can match in more than one way: a digit run ends at a non-digit,
and `[^,]*` and `[^\]]*` end at the first `,` and `]`. So the longest runs give
the match the regex finds.

`MC_Codecs` also checks the parser against the spec's grammar, written as
a formatter `Format`. The inputs are 360 version tuples, with numbers of one
to ten digits and flavors and distros over characters the expression treats
specially. Each is followed by one of three suffixes.

`MC_GRAM5Upload.tla` instantiates it: two job manager instances (one sends
`"3.14 (g, 7-78)"` and an lrm, the other `"garbage"` and no lrm), one value per other key, one
standard RSL attribute (bit 0) and one extension attribute, one staging field.

## Runs

| Run | cfg | Expect | Shows |
|---|---|---|---|
| upload_restart | MC_Upload_Restart.cfg | pass | 2 packets, 2 batches, failures without rollback, restarts anywhere: `TypeOK`, `UniqueKeys`, `CacheSound` and `CommittedRefsResolve` hold (~1.3M states) |
| upload_rollback | MC_Upload_Rollback.cfg | pass | with failing INSERTs, rollback and restarts: `UniqueKeys` still holds, since a stale dict entry stops a second INSERT (~2.5M states) |
| stale_cache | MC_Upload_StaleCache.cfg | violation | fail after a dimension INSERT + rollback: the dict keeps a dead id (`CacheSound`) |
| exe_duplicate | MC_Upload_ExeDup.cfg | violation | after a restart an executable is inserted twice (`UniqueExecutables`) |
| jm_instance_owner | MC_Upload_JMLink.cfg | violation | job packet before JM packet: instance never linked to its job manager (`JMStatusLinked`) |
| fileinfo_zero | MC_Upload_FileInfo.cfg | violation | staging field `"0"` inserts a file info row (`FileInfoNonTrivial`) |
| dangling_reference | MC_Upload_DanglingRef.cfg | violation | after that rollback the next packet commits a job manager row whose version id has no row (`CommittedRefsResolve`) |
| version_partial | MC_Codecs_Suffix.cfg | violation | `"0.2 (, 7-78)x"` parses: `re.match` ignores text after the version, a partial parse the spec rules out (`ParseWholeOrAbsent`) |
| version_dst | MC_Upload_VersionDst.cfg | violation | a version with a dirt timestamp in a repeated local hour is warmed after a restart under another key and inserted again (`UniqueKeys`) |
| codecs | MC_Codecs.cfg | pass | `EncodeCorrect`, `DecodeRoundTrip`: the bitfield codec equals the arithmetic reference and decodes to exactly the names sent (1360 inputs); `ParseRoundTrip`: every formatted version parses back to its tuple, with the distro absent exactly when the bracket is; `TruncatedAbsent`: every string cut off before the closing `)` parses to None |
| rsl_stale_names | MC_Upload_RslStale.cfg | violation | a group's stored names miss an attribute registered later with one of its bits (`RslGroupNamesCurrent`) |

Every property of a passing run has a mutant in `PROJECT.json` (a lost dict
write, a lost `fetchone`, a loader keyed like `__init_executables`, a wrong id
cached, a bit test without `2**`, a bit added instead of OR-ed in, a distro
taken from the wrong group, a pattern without the closing `)`) that TLC finds.

### Bounds

Two packets are enough for every property: each hazard needs one packet to
create (or half-create) state and a second to reuse it, with a failure, a
rollback or a restart in between; two batches let a restart and a re-warm fall
between the packets. One key per dimension makes the second packet hit the
first one's key; two uuids give both NULL and non-NULL version/lrm lookups.
Three packets exceed the five-minute budget.

### Fairness

No run assumes fairness and no liveness property is checked. `upload_many`
is straight-line code on one thread with bounded loops and no waits, so that
every call ends follows from the model's structure and would show nothing
about the code. The code has no retry or timeout that a liveness property
could be about.

## Not modelled

* `DNSCache` and the `dns_cache` table (external).
* The literal columns of the fact rows.
* Two uploader processes at once: the spec rules it out (single writer).
* The width of the bitfield column (schema not in the repository).
* Which session `GRAM5Packet.cursor` belongs to: the model has one store per
  process, so a dimension INSERT through an older batch's cursor cannot be told
  apart.
* A refinement: an abstract registry of `<<key, id>>` pairs that only gains
  new keys reduces, under this model's sequences and commit/rollback, to
  `UniqueKeys`, so it was dropped.

## Plan

1. (done) `GRAM5Upload`: the dimension cache, both fact builders and the
   orchestrator, with failures, rollback and restarts.
2. (done) The version timestamp round trip (`version_dst`).
3. (done) `RslBitfield` and its reference check.
4. (dropped) A refinement and a liveness property: both held by construction.
5. (dropped, see 4).
6. (done) Referential integrity of committed rows: `CommittedRefsResolve`
   holds in the restart run and fails in `dangling_reference`.
7. (done) `VersionParser`: `__parse_version` over character sequences, used
   by `JMVersion`.
8. A second job manager host and a second job type, to check that keys of
   different values never share an id.
