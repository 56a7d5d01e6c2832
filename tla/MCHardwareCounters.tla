------------------------- MODULE MCHardwareCounters -------------------------
(***************************************************************************)
(* HardwareCounters for TLC: two edges and a few machines.                 *)
(***************************************************************************)
EXTENDS HardwareCounters

L(fabrics, rails, machine, preferred, fallback) ==
  [fabrics |-> fabrics, rails |-> rails, machine |-> machine, preferred |-> preferred,
   fallback |-> fallback]

MCLayouts ==
  { \* two edges over one port; one edge whose rail is unknown, no fallback
    L(<<"InfiniBand", "InfiniBand">>, <<0, 0>>, {"ib", "umad"}, "auto", TRUE),
    L(<<"InfiniBand">>, <<-1>>, {"ib"}, "ib_mad", FALSE),
    \* fabrics that share the NVML library
    L(<<"NVLink", "InfiniBand">>, <<-1, 0>>, {"nvml", "nvlink", "ib"}, "auto", TRUE),
    L(<<"NVLink">>, <<-1>>, {"nvml"}, "auto", TRUE),
    L(<<"PCIe", "InfiniBand">>, <<-1, 1>>, {"nvml", "ib", "pci"}, "auto", TRUE),
    \* uncore events, both or one
    L(<<"PCIe", "CXL">>, <<-1, -1>>, {"perf_read", "perf_write"}, "auto", TRUE),
    L(<<"CXL">>, <<-1>>, {"perf_read", "pci"}, "pmu", TRUE),
    \* too few fabrics, nothing installed
    L(<<>>, <<>>, {"ib"}, "ibverbs_sysfs", TRUE),
    L(<<"NVLink">>, <<>>, {}, "auto", TRUE),
    L(<<"NVLink">>, <<>>, {"nvml"}, "synthetic", FALSE) }

(* A tick in which the hardware works, and one in which it waits.          *)
MCTraffic == { CounterNames \ {"wait"}, {"wait"} }

MCLevels == {40}
=============================================================================
