---------------------------- MODULE Ps7TablesUboot -----------------------------
(***************************************************************************)
(* The register tables of u-boot/files/ps7_init_gpl.c, the copy for a PL   *)
(* with one slow clock and no AXI port, and what its header declares.      *)
(***************************************************************************)
EXTENDS Ps7Sections

(* Slip: the value of the other copy. *)
FaultyPlClocksUboot == EMIT_MASKWRITE(FPGA0_CLK_CTRL, Clock("io", 4, 3))

(* One clock goes to the PL. *)
PlClocksUboot == EMIT_MASKWRITE(FPGA0_CLK_CTRL, Clock("io", 8, 6))

(* No AXI port is set up. *)
AfiWidthUboot == <<>>

(* The frequencies the header declares for the PLLs and clocks above, in   *)
(* kHz.                                                                    *)
DeclaredUboot ==
  [apu |-> 666667, ddr |-> 533333, dci |-> 10159, smc |-> 100000,
   sdio |-> 20000, uart |-> 100000, pcap |-> 200000,
   fpga0 |-> 25000]

--------------------------------------------------------------------------------
(* Silicon version 3.0. *)
ps7_pll_init_data_3_0_uboot         == PllSection
ps7_clock_init_data_3_0_uboot       == ClockSection(PlClocksUboot)
ps7_ddr_init_data_3_0_uboot         == DdrSection(<<\h078, \h07C>>)
ps7_mio_init_data_3_0_uboot         == MioSection
ps7_peripherals_init_data_3_0_uboot == PeripheralSection
ps7_post_config_3_0_uboot           == PostConfigSection(AfiWidthUboot)
ps7_debug_3_0_uboot                 == DebugSection

Version_3_0_uboot ==
  [mio |-> ps7_mio_init_data_3_0_uboot, pll |-> ps7_pll_init_data_3_0_uboot,
   clock |-> ps7_clock_init_data_3_0_uboot, ddr |-> ps7_ddr_init_data_3_0_uboot,
   peripherals |-> ps7_peripherals_init_data_3_0_uboot,
   post_config |-> ps7_post_config_3_0_uboot, debug |-> ps7_debug_3_0_uboot]
--------------------------------------------------------------------------------
(* Silicon version 2.0. *)
ps7_pll_init_data_2_0_uboot         == PllSection
ps7_clock_init_data_2_0_uboot       == ClockSection(PlClocksUboot)
ps7_ddr_init_data_2_0_uboot         == DdrSection(<<\h078, \h07C, \h0A0>>)
ps7_mio_init_data_2_0_uboot         == MioSection
ps7_peripherals_init_data_2_0_uboot == PeripheralSection
ps7_post_config_2_0_uboot           == PostConfigSection(AfiWidthUboot)
ps7_debug_2_0_uboot                 == DebugSection

Version_2_0_uboot ==
  [mio |-> ps7_mio_init_data_2_0_uboot, pll |-> ps7_pll_init_data_2_0_uboot,
   clock |-> ps7_clock_init_data_2_0_uboot, ddr |-> ps7_ddr_init_data_2_0_uboot,
   peripherals |-> ps7_peripherals_init_data_2_0_uboot,
   post_config |-> ps7_post_config_2_0_uboot, debug |-> ps7_debug_2_0_uboot]
--------------------------------------------------------------------------------
(* Silicon version 1.0. *)
ps7_pll_init_data_1_0_uboot         == PllSection
ps7_clock_init_data_1_0_uboot       == ClockSection(PlClocksUboot)
ps7_ddr_init_data_1_0_uboot         == DdrSection(<<\h0A0>>)
ps7_mio_init_data_1_0_uboot         == MioSection
ps7_peripherals_init_data_1_0_uboot == PeripheralSection
ps7_post_config_1_0_uboot           == PostConfigSection(AfiWidthUboot)
ps7_debug_1_0_uboot                 == DebugSection

Version_1_0_uboot ==
  [mio |-> ps7_mio_init_data_1_0_uboot, pll |-> ps7_pll_init_data_1_0_uboot,
   clock |-> ps7_clock_init_data_1_0_uboot, ddr |-> ps7_ddr_init_data_1_0_uboot,
   peripherals |-> ps7_peripherals_init_data_1_0_uboot,
   post_config |-> ps7_post_config_1_0_uboot, debug |-> ps7_debug_1_0_uboot]
--------------------------------------------------------------------------------
(* The tables the pointers are set to: versions other than 1.0 and 2.0 use *)
(* those of 3.0.  The register reads 0 for 1.0 and 1 for 2.0.              *)
TablesUboot(si_ver) ==
  CASE si_ver = 0 -> Version_1_0_uboot
    [] si_ver = 1 -> Version_2_0_uboot
    [] OTHER -> Version_3_0_uboot
================================================================================
