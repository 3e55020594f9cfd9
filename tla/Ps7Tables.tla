------------------------------- MODULE Ps7Tables -------------------------------
(***************************************************************************)
(* The register tables of platform-init/files/ps7_init_gpl.c, one definition *)
(* per array, and the frequencies its header declares.                     *)
(***************************************************************************)
EXTENDS Ps7Sections

(* Two clocks go to the PL. *)
PlClocks ==
     EMIT_MASKWRITE(FPGA0_CLK_CTRL, Clock("io", 4, 3))
  \o EMIT_MASKWRITE(FPGA1_CLK_CTRL, Clock("io", 8, 6))

(* The first AXI port of the PL is 32 bits wide. *)
AfiWidth == Configure("afi0", <<\h00, \h14>>)

(* The frequencies the header declares for the PLLs and clocks above, in   *)
(* kHz.                                                                    *)
DeclaredPlatform ==
  [apu |-> 666667, ddr |-> 533333, dci |-> 10159, smc |-> 100000,
   sdio |-> 20000, uart |-> 100000, pcap |-> 200000,
   fpga0 |-> 100000, fpga1 |-> 25000]

--------------------------------------------------------------------------------
(* Silicon version 3.0. *)
ps7_pll_init_data_3_0         == PllSection
ps7_clock_init_data_3_0       == ClockSection(PlClocks)
ps7_ddr_init_data_3_0         == DdrSection(<<\h078, \h07C>>)
ps7_mio_init_data_3_0         == MioSection
ps7_peripherals_init_data_3_0 == PeripheralSection
ps7_post_config_3_0           == PostConfigSection(AfiWidth)
ps7_debug_3_0                 == DebugSection

Version_3_0 ==
  [mio |-> ps7_mio_init_data_3_0, pll |-> ps7_pll_init_data_3_0,
   clock |-> ps7_clock_init_data_3_0, ddr |-> ps7_ddr_init_data_3_0,
   peripherals |-> ps7_peripherals_init_data_3_0,
   post_config |-> ps7_post_config_3_0, debug |-> ps7_debug_3_0]
--------------------------------------------------------------------------------
(* Silicon version 2.0. *)
ps7_pll_init_data_2_0         == PllSection
ps7_clock_init_data_2_0       == ClockSection(PlClocks)
ps7_ddr_init_data_2_0         == DdrSection(<<\h078, \h07C, \h0A0>>)
ps7_mio_init_data_2_0         == MioSection
ps7_peripherals_init_data_2_0 == PeripheralSection
ps7_post_config_2_0           == PostConfigSection(AfiWidth)
ps7_debug_2_0                 == DebugSection

Version_2_0 ==
  [mio |-> ps7_mio_init_data_2_0, pll |-> ps7_pll_init_data_2_0,
   clock |-> ps7_clock_init_data_2_0, ddr |-> ps7_ddr_init_data_2_0,
   peripherals |-> ps7_peripherals_init_data_2_0,
   post_config |-> ps7_post_config_2_0, debug |-> ps7_debug_2_0]
--------------------------------------------------------------------------------
(* Silicon version 1.0. *)
ps7_pll_init_data_1_0         == PllSection
ps7_clock_init_data_1_0       == ClockSection(PlClocks)
ps7_ddr_init_data_1_0         == DdrSection(<<\h0A0>>)
ps7_mio_init_data_1_0         == MioSection
ps7_peripherals_init_data_1_0 == PeripheralSection
ps7_post_config_1_0           == PostConfigSection(AfiWidth)
ps7_debug_1_0                 == DebugSection

Version_1_0 ==
  [mio |-> ps7_mio_init_data_1_0, pll |-> ps7_pll_init_data_1_0,
   clock |-> ps7_clock_init_data_1_0, ddr |-> ps7_ddr_init_data_1_0,
   peripherals |-> ps7_peripherals_init_data_1_0,
   post_config |-> ps7_post_config_1_0, debug |-> ps7_debug_1_0]
--------------------------------------------------------------------------------
(* The tables the pointers are set to: versions other than 1.0 and 2.0 use *)
(* those of 3.0.  The register reads 0 for 1.0 and 1 for 2.0.              *)
Tables(si_ver) ==
  CASE si_ver = 0 -> Version_1_0
    [] si_ver = 1 -> Version_2_0
    [] OTHER -> Version_3_0
================================================================================
