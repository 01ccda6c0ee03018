---------------------------- MODULE MCRecording -----------------------------
(* A plan of three chunks and a pause, and the cards that detection makes of   *)
(* four machines: the card of docs/plan/PLAN.md beside one of the other vendor *)
(* with the same number, a small card only the kernel knows, one that cannot   *)
(* be read beside a tool that prints nonsense, and a machine without any.      *)
EXTENDS Recording, Devices

MCKind == [i \in 0..3 |-> IF i = 1 THEN "silence" ELSE "tts"]
MCSamples == {None, 1000, 4000, 7000}

Absent == [outcome |-> "absent", returncode |-> 0, shape |-> "blank", records |-> <<>>]
Prints(shape, records) ==
    [Absent EXCEPT !.outcome = "answers", !.shape = shape, !.records = records]
Row(index, total, left) == [fields |-> 5, index |-> index, total |-> total, free |-> left]
Field(kind, rank, unit, value) ==
    [kind |-> kind, rank |-> rank, unit |-> unit, value |-> value, percent |-> FALSE]

Bare == [nvidia |-> Absent, amd |-> Absent, rocm |-> Absent, sysfs |-> {}]
Desktop ==
    [Bare EXCEPT
       !.nvidia = Prints("text", << Row(0, 12288, 11000), [Row(Unread, Unread, Unread) EXCEPT !.fields = 4] >>),
       !.amd = Prints("dictionary",
                 << Unread, << Field("total", 2, "b", 8192 * BytesPerMib),
                               [Field("free", 10, "b", 88) EXCEPT !.percent = TRUE],
                               Field("used", 9, "mib", 992), Field("total", 11, "b", 1) >> >>)]
Laptop == [Bare EXCEPT !.amd.outcome = "hangs",
                       !.rocm = Prints("record", <<>>),
                       !.sysfs = { [ordinal |-> 1, total |-> 4096 * BytesPerMib, used |-> 296 * BytesPerMib],
                                   [ordinal |-> 0, total |-> Unread, used |-> Unread] }]
Broken == [Bare EXCEPT !.nvidia = Prints("text", << Row(3, Unread, 700) >>),
                       !.amd = Prints("list", << Unread >>),
                       !.rocm = Prints("record", << << Field("total", 11, "mib", 4096) >> >>)]
Machines == {Bare, Desktop, Laptop, Broken}
DevicesOf(machine) == ProbeReport(Unread, 0, TRUE, machine).report.devices

\* What budget.py is called with for a device and the wishes of the user.
CardOf(device) ==
    [cpu |-> device.vendor = "cpu", backend |-> "omnivoice", precision |-> "fp16", model |-> "0.6b",
     total |-> IF device.total = Unread THEN None ELSE device.total,
     free |-> IF device.free = Unread THEN None ELSE device.free,
     override |-> None, measured |-> None, reserve |-> None, cap |-> 4, parallel |-> 4]
Known(total, left) == [CardOf(CpuDevice) EXCEPT !.cpu = FALSE, !.total = total, !.free = left]
Card == Known(12288, 11000)
Detected == {Card, Known(8192, 7200), Known(4096, 3800), Known(None, 700), CardOf(CpuDevice)}
MCCards == Detected
           \cup { [Card EXCEPT !.backend = "qwen3_tts", !.model = "1.7b", !.measured = 4271],
                  [Card EXCEPT !.override = 0], [Card EXCEPT !.precision = "int8"],
                  [Card EXCEPT !.total = None, !.free = None, !.backend = "fake"] }

\* The budgets of the run are computed for the cards that detection finds.
ASSUME DetectedCards ==
    Detected = UNION { {CardOf(DevicesOf(m)[i]) : i \in DOMAIN DevicesOf(m)} : m \in Machines }

\* The list a picker shows: the vendors' cards and then the processor, no number twice, a tool that
\* hangs or prints nonsense costs no other vendor its cards, and a hybrid machine keeps both.
ASSUME DeviceLists ==
    /\ \A m \in Machines : LET list == DevicesOf(m)
                           IN  /\ list[Len(list)] = CpuDevice
                               /\ Cardinality({list[i].index : i \in DOMAIN list}) = Len(list)
    /\ [i \in 1..3 |-> <<DevicesOf(Desktop)[i].index, DevicesOf(Desktop)[i].free>>]
          = << <<0, 11000>>, <<1, 7200>>, <<-1, Unread>> >>
    /\ DevicesOf(Laptop)[1] = Device(1, "amd", 4096, 3800)
    /\ ProbeAll(Broken).vendors = [nvidia |-> "none", amd |-> "probe_failed", cpu |-> "none"]
    /\ ProbeAll(Bare).vendors.amd = "rocm_smi_missing" /\ Len(DevicesOf(Broken)) = 2

\* Within CacheTtl a machine that changed is answered with the old list, and a rescan is not.
ASSUME CachedLists ==
    LET entry == ProbeReport(Unread, 0, TRUE, Desktop).entry
    IN  /\ ProbeReport(entry, CacheTtl - 1, TRUE, Bare).report = ProbeAll(Desktop)
        /\ ProbeReport(entry, CacheTtl, TRUE, Bare).report = ProbeAll(Bare)
        /\ ProbeReport(entry, 0, FALSE, Bare) = [report |-> ProbeAll(Bare), entry |-> entry]
=============================================================================
