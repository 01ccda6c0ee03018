------------------------------ MODULE Devices -------------------------------
(***************************************************************************)
(* How the engine finds the graphics cards of a machine (gpu/detect.py):   *)
(* the tools of the two vendors and the files of the kernel are tried, what*)
(* they print is read leniently, and the list that comes out is kept for a *)
(* few seconds.                                                            *)
(*                                                                         *)
(* A machine is a record of what its tools do when called and what they    *)
(* print.  A printed number is an integer or Unread; names, drivers and the*)
(* spelling of keys are left out.                                          *)
(***************************************************************************)
EXTENDS Integers, Sequences, FiniteSets

LOCAL INSTANCE SequencesExt

CONSTANTS Unread,      \* no number, no list or no entry, where there could be one
          BytesPerMib, \* 1024 * 1024
          CacheTtl     \* how long a report is answered again

ASSUME DevicesAssumption ==
    /\ Unread \notin Int
    /\ BytesPerMib \in Nat \ {0} /\ CacheTtl \in Nat

-----------------------------------------------------------------------------
(* Calling a tool.                                                         *)

\* run_probe_command(): what becomes of a tool that is absent, cannot be started, hangs until
\* it is killed, breaks its pipe, or answers; it never raises.
Command(tool) ==
    [tool EXCEPT !.outcome = CASE tool.outcome = "absent" -> "missing"
                               [] tool.outcome = "hangs" -> "timeout"
                               [] tool.outcome = "answers" -> "ok"
                               [] OTHER -> "spawn_failed"]

FailureReason(result, missing) ==
    CASE result.outcome = "missing" -> missing
      [] result.outcome = "timeout" -> "probe_timeout"
      [] result.outcome = "ok" /\ result.returncode = 0 -> "none"
      [] OTHER -> "probe_failed"

\* An answer without a device is broken only if it is no JSON at all.
EmptyOutputReason(result) == IF result.shape = "text" THEN "parse_failed" ELSE "no_devices"

\* A probe found devices, or has a reason why not.
Found(devices) == [devices |-> devices, reason |-> "none"]
Nothing(reason) == [devices |-> <<>>, reason |-> reason]

Device(index, vendor, total, free) ==
    [index |-> index, vendor |-> vendor, total |-> total, free |-> free,
     available |-> total # Unread, reason |-> IF total # Unread THEN "none" ELSE "memory_unreadable"]

CpuDevice == [Device(-1, "cpu", Unread, Unread) EXCEPT !.available = TRUE, !.reason = "none"]

-----------------------------------------------------------------------------
(* NVIDIA: a table with a row for each card.                               *)

\* parse_nvidia_smi(): a short row, and one without a number of its own, is no card.
ParseNvidia(rows) ==
    LET real == SelectSeq(rows, LAMBDA r : r.fields >= 5 /\ r.index # Unread /\ r.index >= 0)
    IN  [i \in DOMAIN real |-> Device(real[i].index, "nvidia", real[i].total, real[i].free)]

ProbeNvidia(machine) ==
    LET result == Command(machine.nvidia)
        reason == FailureReason(result, "nvidia_smi_missing")
        cards  == ParseNvidia(result.records)
    IN  IF reason # "none" THEN Nothing(reason)
        ELSE IF cards # <<>> THEN Found(cards) ELSE Nothing(EmptyOutputReason(result))

-----------------------------------------------------------------------------
(* AMD: two tools that print JSON, and the files of the kernel.            *)

\* _amd_records(): the object itself, the objects of a dictionary, or the items of a list.
\* A record is the sequence of its fields and those one level down.
Records(result) ==
    CASE result.shape = "dictionary" -> SelectSeq(result.records, LAMBDA r : r # Unread)
      [] result.shape \in {"record", "list"} -> result.records
      [] OTHER -> <<>>

\* An item of a list that is no object has no fields to look at: AttributeError.
Raises(result) == result.shape = "list" /\ \E i \in DOMAIN result.records : result.records[i] = Unread

\* _first_field(): of the fields with a number that is no percentage, the one whose key comes
\* first in the table of its kind ("total", "used", "free"), and of two with that key the first.
FirstField(record, kind) ==
    LET hits == {i \in DOMAIN record : /\ record[i].kind = kind
                                       /\ ~record[i].percent /\ record[i].value # Unread}
        best == {i \in hits : \A j \in hits : \/ record[i].rank < record[j].rank
                                              \/ record[i].rank = record[j].rank /\ i <= j}
    IN  IF hits = {} THEN Unread ELSE record[CHOOSE i \in best : TRUE]

\* _to_mib(): a key without a unit is in bytes (no key of the tables is in KiB or GiB).
Mib(field) ==
    IF field = Unread THEN Unread
    ELSE IF field.unit = "mib" THEN field.value ELSE field.value \div BytesPerMib

\* _memory_of(): what is free may have to be worked out from what is used.
TotalOf(record) == Mib(FirstField(record, "total"))
FreeOf(record) ==
    LET free == Mib(FirstField(record, "free"))
        used == Mib(FirstField(record, "used"))
    IN  IF free = Unread /\ TotalOf(record) # Unread /\ used # Unread
        THEN TotalOf(record) - used ELSE free

\* parse_amd_smi(): the cards are numbered as they come.
ParseAmd(result) ==
    LET cards == SelectSeq(Records(result), LAMBDA r : \E kind \in {"total", "free"} :
                                                            FirstField(r, kind) # Unread)
    IN  [i \in DOMAIN cards |-> Device(i - 1, "amd", TotalOf(cards[i]), FreeOf(cards[i]))]

AmdTool(tool, missing) ==
    LET result == Command(tool)
        reason == FailureReason(result, missing)
    IN  IF reason # "none" THEN Nothing(reason)
        ELSE IF Raises(result) THEN Nothing("raised")
        ELSE IF ParseAmd(result) # <<>> THEN Found(ParseAmd(result))
        ELSE Nothing(EmptyOutputReason(result))

\* parse_sysfs_vram(): the directories of cards in the order of their numbers.
ParseSysfs(entries) ==
    LET cards == SetToSortSeq({c \in entries : c.total # Unread /\ c.total >= 0},
                              LAMBDA c, d : c.ordinal < d.ordinal)
        Free(c) == IF c.used = Unread \/ c.used < 0 THEN Unread
                   ELSE (c.total - c.used) \div BytesPerMib
    IN  [i \in DOMAIN cards |->
            Device(cards[i].ordinal, "amd", cards[i].total \div BytesPerMib, Free(cards[i]))]

Precedence == << "probe_timeout", "probe_failed", "parse_failed", "no_devices",
                 "rocm_smi_missing", "amd_smi_missing", "sysfs_vram_missing" >>

\* _probe_amd() under _guarded(): the first that finds a device; what is raised ends it all.
ProbeAmd(machine) ==
    LET smi     == AmdTool(machine.amd, "amd_smi_missing")
        rocm    == AmdTool(machine.rocm, "rocm_smi_missing")
        files   == ParseSysfs(machine.sysfs)
        reasons == {smi.reason, rocm.reason, "sysfs_vram_missing"}
    IN  CASE smi.devices # <<>> -> smi
          [] smi.reason = "raised" -> Nothing("probe_failed")
          [] rocm.devices # <<>> -> rocm
          [] rocm.reason = "raised" -> Nothing("probe_failed")
          [] files # <<>> -> Found(files)
          [] OTHER -> Nothing(SelectSeq(Precedence, LAMBDA r : r \in reasons)[1])

-----------------------------------------------------------------------------
(* The list of a machine, and its cache.                                   *)

\* _unique_indices(): a group that collides is moved behind the highest number taken.
UniqueIndices(devices, taken) ==
    IF \A i \in DOMAIN devices : devices[i].index \notin taken THEN devices
    ELSE LET base == 1 + CHOOSE m \in taken : \A t \in taken : t <= m
         IN  [i \in DOMAIN devices |-> [devices[i] EXCEPT !.index = base + i - 1]]

\* Devices in the documented order, and the verdict on each vendor.
ProbeAll(machine) ==
    LET nvidia == ProbeNvidia(machine)
        amd    == ProbeAmd(machine)
        taken  == {nvidia.devices[i].index : i \in DOMAIN nvidia.devices}
    IN  [devices |-> nvidia.devices \o UniqueIndices(amd.devices, taken) \o <<CpuDevice>>,
         vendors |-> [nvidia |-> nvidia.reason, amd |-> amd.reason, cpu |-> "none"]]

\* probe_report() at one time, with the entry of the cache before and after.
ProbeReport(entry, now, useCache, machine) ==
    IF useCache /\ entry # Unread /\ now < entry.expires THEN [report |-> entry.report, entry |-> entry]
    ELSE LET report == ProbeAll(machine)
         IN  [report |-> report,
              entry  |-> IF useCache THEN [expires |-> now + CacheTtl, report |-> report] ELSE entry]
=============================================================================
