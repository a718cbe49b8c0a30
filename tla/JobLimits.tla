------------------------------ MODULE JobLimits ------------------------------
(***************************************************************************)
(* The numbers that become limits of a job object: apply_limits of job.cpp *)
(* for a container, set_cpu_limit and set_memory_limit of job.py for a     *)
(* native target, with the widths of the fields they are put into.         *)
(***************************************************************************)
EXTENDS Integers

CONSTANTS
    SizeT,   \* 2^64: SIZE_T wraps around here
    MiB      \* 1024 * 1024

ASSUME WidthAssumption == SizeT \in Nat \ {0} /\ MiB \in Nat \ {0} /\ MiB < SizeT

WORD == 65536

\* cpu_rate_info: which control is on, and the DWORD CpuRate.
NoCpu == [control |-> "none", CpuRate |-> 0]

\* Faulty: the halves of CpuRate the other way round.
MinMaxSwapped(low, high) ==
    [control |-> "minmax", CpuRate |-> ((low % WORD) * WORD) + (high % WORD)]

\* MinRate in the low word and MaxRate in the high word.
MinMax(low, high) ==
    [control |-> "minmax", CpuRate |-> ((high % WORD) * WORD) + (low % WORD)]

HardCap(rate) == [control |-> "hardcap", CpuRate |-> rate]

\* What Windows makes of it, in hundredths of a percent.
Cap(cpu)   == IF cpu.control = "minmax" THEN cpu.CpuRate \div WORD ELSE cpu.CpuRate
Floor(cpu) == IF cpu.control = "minmax" THEN cpu.CpuRate % WORD ELSE 0

AtMost(a, b)  == IF a < b THEN a ELSE b
AtLeast(a, b) == IF a > b THEN a ELSE b

\* job.cpp; HARD_CAP where the headers do not have MIN_MAX_RATE.
HostCpu(headers, low, high) ==
    IF headers THEN MinMax(low * 100, high * 100) ELSE HardCap(high * 100)

\* job.py; HARD_CAP on an old Windows, or when MIN_MAX_RATE is refused.
NativeCpu(refused, low, percent) ==
    IF refused
      THEN HardCap(AtLeast(1, AtMost(10000, percent * 100)))
      ELSE MinMax(low * 100, AtLeast(low * 100, AtMost(10000, percent * 100)))

\* ProcessMemoryLimit: a product in SIZE_T, in both programs.
Bytes(mb) == (mb * MiB) % SizeT
=============================================================================
