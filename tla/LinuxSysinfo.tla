------------------------------ MODULE LinuxSysinfo ------------------------------
(***************************************************************************)
(* The rates of CLinuxSysinfo (src/SysMonitor/linux_monitor_system.cpp): it *)
(* reads the kernel's counters twice, a second apart, into int variables    *)
(* and reports the differences.                                             *)
(*                                                                          *)
(* Assumption: the counters are wider than int, and scanf of "%d" keeps     *)
(* their lower bits, and sums and differences of ints wrap around, as the   *)
(* 64-bit glibc and gcc's code do.  The language defines neither.           *)
(*                                                                          *)
(* A reading is a pair of counters: reads and writes, the idle time and the *)
(* rest, or the two columns get_network_transfers takes: the bytes received *)
(* and, by the count of its "%*d", the multicast packets received.          *)
(* Saturated is a mistake the rates would not survive; nothing uses it.     *)
(***************************************************************************)
EXTENDS Integers

CONSTANT Modulus   \* how many values an int has: 2^32 in the code

ASSUME ModulusAssumption == Modulus \in Nat \ {0} /\ Modulus % 2 = 0

Saturated(n) == IF n > Modulus \div 2 - 1 THEN Modulus \div 2 - 1 ELSE n

\* What an int holds of n.
AsInt(n) == LET r == n % Modulus IN IF r < Modulus \div 2 THEN r ELSE r - Modulus

\* "%d" with the address of a long that is 0 sets its lower half.
AsLowerHalf(n) == n % Modulus

get_disk_io(c) == AsInt(AsInt(c[1]) + AsInt(c[2]))
get_cpu_time(c) == [all_time |-> AsInt(AsInt(c[1]) + AsInt(c[2])), idle_time |-> AsInt(c[1])]
get_network_transfers(c) == AsLowerHalf(c[1]) + AsLowerHalf(c[2])

\* What get_monitor_data_sec reports: of the processor how much of the total was
\* not idle.
DiskRate(c1, c2) == AsInt(get_disk_io(c2) - get_disk_io(c1))
NetworkRate(c1, c2) == get_network_transfers(c2) - get_network_transfers(c1)
CpuRate(c1, c2) ==
    LET all == AsInt(get_cpu_time(c2).all_time - get_cpu_time(c1).all_time)
        idle == AsInt(get_cpu_time(c2).idle_time - get_cpu_time(c1).idle_time)
    IN  [busy |-> AsInt(all - idle), all |-> all]
=============================================================================
