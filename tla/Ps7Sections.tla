------------------------------ MODULE Ps7Sections ------------------------------
(***************************************************************************)
(* The material the register tables of ps7_init_gpl.c are made of: the     *)
(* EMIT_ macros and the groups of instructions that recur in the tables of *)
(* every silicon version and in both copies of the file.                   *)
(*                                                                         *)
(* An instruction keeps its opcode, its register and those bits of the     *)
(* register some property is about; NoBits stands for a register that is   *)
(* set up and of which no bit matters here.                                *)
(***************************************************************************)
EXTENDS Integers, Sequences

(* Registers: the block they belong to and their offset in it.             *)
SLCR(offset)  == <<"slcr", offset>>
DDRC(offset)  == <<"ddrc", offset>>
UART1(offset) == <<"uart1", offset>>
SMC(offset)   == <<"smc", offset>>

SLCR_LOCK         == SLCR(\h004)
SLCR_UNLOCK       == SLCR(\h008)
PLL_CTRL          == [arm |-> SLCR(\h100), ddr |-> SLCR(\h104), io |-> SLCR(\h108)]
PLL_CFG           == [arm |-> SLCR(\h110), ddr |-> SLCR(\h114), io |-> SLCR(\h118)]
PLL_STATUS        == SLCR(\h10C)
ARM_CLK_CTRL      == SLCR(\h120)
DDR_CLK_CTRL      == SLCR(\h124)
DCI_CLK_CTRL      == SLCR(\h128)
APER_CLK_CTRL     == SLCR(\h12C)
SMC_CLK_CTRL      == SLCR(\h148)
SDIO_CLK_CTRL     == SLCR(\h150)
UART_CLK_CTRL     == SLCR(\h154)
PCAP_CLK_CTRL     == SLCR(\h168)
FPGA0_CLK_CTRL    == SLCR(\h170)
FPGA1_CLK_CTRL    == SLCR(\h180)
FPGA_RST_CTRL     == SLCR(\h240)
LVL_SHFTR_EN      == SLCR(\h900)
DDRIOB_DCI_CTRL   == SLCR(\hB70)
DDRIOB_DCI_STATUS == SLCR(\hB74)
DDRC_CTRL         == DDRC(\h000)
DDRC_MODE_STS     == DDRC(\h054)
UART_CONTROL      == UART1(\h000)
UART_BAUD_GEN     == UART1(\h018)
UART_BAUD_DIV     == UART1(\h034)
MIO_PIN(n)        == SLCR(\h700 + 4 * n)

Plls == {"arm", "ddr", "io"}

NoBits == <<>>

EMIT_EXIT == <<[op |-> "EXIT"]>>
EMIT_WRITE(r, b) == <<[op |-> "WRITE", reg |-> r, bits |-> b]>>
EMIT_MASKWRITE(r, b) == <<[op |-> "MASKWRITE", reg |-> r, bits |-> b]>>
EMIT_MASKPOLL(r, bit) == <<[op |-> "MASKPOLL", reg |-> r, bit |-> bit]>>

Unlock == EMIT_WRITE(SLCR_UNLOCK, NoBits)
Lock   == EMIT_WRITE(SLCR_LOCK, NoBits)

(* Registers of one block that are set up one after the other.             *)
Configure(block, offsets) ==
  [i \in DOMAIN offsets |-> EMIT_MASKWRITE(<<block, offsets[i]>>, NoBits)[1]]

Pins(first, last) ==
  Configure("slcr", [i \in 1..(last - first + 1) |-> \h700 + 4 * (first + i - 1)])

(* A clock: its PLL (SRCSEL = 0 is the IO PLL for a peripheral) and its    *)
(* divisors; 1 where the register has only one.                            *)
Clock(pll, div0, div1) == [pll |-> pll, div0 |-> div0, div1 |-> div1]
ActiveClock(pll, div0, div1) ==
  [active |-> 1, pll |-> pll, div0 |-> div0, div1 |-> div1]

--------------------------------------------------------------------------------
(* Slip: the bypass is taken away before the lock is awaited.              *)
FaultyBringUpPll(p, fdiv) ==
     EMIT_MASKWRITE(PLL_CFG[p], NoBits)
  \o EMIT_MASKWRITE(PLL_CTRL[p], [fdiv |-> fdiv])
  \o EMIT_MASKWRITE(PLL_CTRL[p], [bypass |-> 1])
  \o EMIT_MASKWRITE(PLL_CTRL[p], [reset |-> 1])
  \o EMIT_MASKWRITE(PLL_CTRL[p], [reset |-> 0])
  \o EMIT_MASKWRITE(PLL_CTRL[p], [bypass |-> 0])
  \o EMIT_MASKPOLL(PLL_STATUS, p)

(* PLLs: configuration, feedback divisor, bypass on, reset pulse, wait for *)
(* the lock, bypass off.                                                   *)
BringUpPll(p, fdiv) ==
     EMIT_MASKWRITE(PLL_CFG[p], NoBits)
  \o EMIT_MASKWRITE(PLL_CTRL[p], [fdiv |-> fdiv])
  \o EMIT_MASKWRITE(PLL_CTRL[p], [bypass |-> 1])
  \o EMIT_MASKWRITE(PLL_CTRL[p], [reset |-> 1])
  \o EMIT_MASKWRITE(PLL_CTRL[p], [reset |-> 0])
  \o EMIT_MASKPOLL(PLL_STATUS, p)
  \o EMIT_MASKWRITE(PLL_CTRL[p], [bypass |-> 0])

ArmPll == BringUpPll("arm", 40) \o EMIT_MASKWRITE(ARM_CLK_CTRL, Clock("arm", 2, 1))
DdrPll == BringUpPll("ddr", 32) \o EMIT_MASKWRITE(DDR_CLK_CTRL, ActiveClock("ddr", 2, 1))
IoPll  == BringUpPll("io", 36)

PllSection == Unlock \o ArmPll \o DdrPll \o IoPll \o Lock \o EMIT_EXIT

--------------------------------------------------------------------------------
(* Clocks.  The PL clocks differ between the two copies.                   *)
GigabitClocks == Configure("slcr", <<\h138, \h140>>)

PeripheralClocks ==
     EMIT_MASKWRITE(DCI_CLK_CTRL, ActiveClock("ddr", 15, 7))
  \o GigabitClocks
  \o EMIT_MASKWRITE(SMC_CLK_CTRL, ActiveClock("io", 12, 1))
  \o EMIT_MASKWRITE(SDIO_CLK_CTRL, ActiveClock("io", 60, 1))
  \o EMIT_MASKWRITE(UART_CLK_CTRL, ActiveClock("io", 12, 1))
  \o EMIT_MASKWRITE(PCAP_CLK_CTRL, ActiveClock("io", 6, 1))

(* Slip: the bus clock of UART 1 stays off.                                *)
FaultyBusClocks ==
     Configure("slcr", <<\h1C4>>)
  \o EMIT_MASKWRITE(APER_CLK_CTRL, [uart1 |-> 0, smc |-> 1])

BusClocks ==
     Configure("slcr", <<\h1C4>>)
  \o EMIT_MASKWRITE(APER_CLK_CTRL, [uart1 |-> 1, smc |-> 1])

ClockSection(plClocks) ==
  Unlock \o PeripheralClocks \o plClocks \o BusClocks \o Lock \o EMIT_EXIT

--------------------------------------------------------------------------------
(* DDR controller.  The settings are made while it is held in soft reset;  *)
(* then the impedance calibration is awaited, the reset taken away and the *)
(* operating mode awaited.                                                 *)
DdrTiming        == <<\h004, \h008, \h00C, \h010, \h014, \h018, \h01C, \h020>>
DdrDeviceInit    == <<\h024, \h028, \h02C, \h030, \h034>>
DdrAddressMap    == <<\h038, \h03C, \h040, \h044>>
DdrPhyCommands   == <<\h048, \h050, \h058, \h05C, \h060, \h064, \h068, \h06C>>
DdrPowerControl  == <<\h0A4, \h0A8, \h0AC, \h0B0, \h0B4, \h0B8>>
DdrErrorControl  == <<\h0C4, \h0C8, \h0DC, \h0F0, \h0F4>>
DdrPhyConfig     == <<\h114, \h118, \h11C, \h120, \h124>>
DdrPhyInitRatio  == <<\h12C, \h130, \h134, \h138>>
DdrReadDqs       == <<\h140, \h144, \h148, \h14C>>
DdrWriteDqs      == <<\h154, \h158, \h15C, \h160>>
DdrFifoEnable    == <<\h168, \h16C, \h170, \h174>>
DdrWriteData     == <<\h17C, \h180, \h184, \h188>>
DdrPhyControl    == <<\h190, \h194>>
DdrPorts         == <<\h204, \h208, \h20C, \h210, \h214, \h218, \h21C, \h220, \h224>>
DdrLowPower      == <<\h2A8, \h2AC, \h2B0, \h2B4>>

(* powerTimers: the registers that exist in one silicon version and not in *)
(* another.                                                                *)
DdrSettings(powerTimers) ==
  Configure("ddrc",
       DdrTiming \o DdrDeviceInit \o DdrAddressMap \o DdrPhyCommands
    \o powerTimers \o DdrPowerControl \o DdrErrorControl \o DdrPhyConfig
    \o DdrPhyInitRatio \o DdrReadDqs \o DdrWriteDqs \o DdrFifoEnable
    \o DdrWriteData \o DdrPhyControl \o DdrPorts \o DdrLowPower)

HoldDdrInReset == EMIT_MASKWRITE(DDRC_CTRL, [soft_rstb |-> 0])

(* Slip: the controller is let go before the calibration is done.          *)
FaultyReleaseDdr ==
     EMIT_MASKWRITE(DDRC_CTRL, [soft_rstb |-> 1])
  \o EMIT_MASKPOLL(DDRC_MODE_STS, "operating_mode")
  \o EMIT_MASKPOLL(DDRIOB_DCI_STATUS, "done")

ReleaseDdr ==
     EMIT_MASKPOLL(DDRIOB_DCI_STATUS, "done")
  \o EMIT_MASKWRITE(DDRC_CTRL, [soft_rstb |-> 1])
  \o EMIT_MASKPOLL(DDRC_MODE_STS, "operating_mode")

DdrSection(powerTimers) ==
  HoldDdrInReset \o DdrSettings(powerTimers) \o ReleaseDdr \o EMIT_EXIT

--------------------------------------------------------------------------------
(* DDR I/O buffers and the impedance calibration, then the pins.           *)
DdrIoBuffers    == Configure("slcr", <<\hB40, \hB44, \hB48, \hB4C>>)
DdrIoBuffersDqs == Configure("slcr", <<\hB50, \hB54, \hB58>>)
DdrIoDrive      == Configure("slcr", <<\hB5C, \hB60, \hB64, \hB68, \hB6C>>)

DdrIoCalibration ==
     EMIT_MASKWRITE(DDRIOB_DCI_CTRL, [reset |-> 1])
  \o EMIT_MASKWRITE(DDRIOB_DCI_CTRL, [reset |-> 0])
  \o EMIT_MASKWRITE(DDRIOB_DCI_CTRL, [reset |-> 1, enable |-> 1])

NandPinsLow    == Pins(0, 4)
NandPinsMiddle == Pins(5, 9)
NandPinsHigh   == Pins(10, 14)
GpioPins15     == Pins(15, 19)
GpioPins20     == Pins(20, 23)
UartPins       == Pins(24, 25)
I2cPins      == Pins(26, 27)
GpioPins28     == Pins(28, 32)
GpioPins33     == Pins(33, 35)
GpioPins36     == Pins(36, 39)
SdioPins       == Pins(40, 45)
GpioPins46     == Pins(46, 49)
GpioPins50     == Pins(50, 53)
SdioSelect     == Configure("slcr", <<\h830>>)

MioPins ==
     NandPinsLow \o NandPinsMiddle \o NandPinsHigh \o GpioPins15 \o GpioPins20
  \o UartPins \o I2cPins \o GpioPins28 \o GpioPins33 \o GpioPins36
  \o SdioPins \o GpioPins46 \o GpioPins50 \o SdioSelect

(* Slip: the SLCR is still locked when the section starts.                 *)
FaultyMioSection ==
     DdrIoBuffers \o DdrIoBuffersDqs \o DdrIoDrive \o DdrIoCalibration
  \o MioPins \o Lock \o EMIT_EXIT

MioSection ==
     Unlock
  \o DdrIoBuffers \o DdrIoBuffersDqs \o DdrIoDrive \o DdrIoCalibration
  \o MioPins \o Lock \o EMIT_EXIT

--------------------------------------------------------------------------------
(* Peripherals: termination of the DDR inputs, UART 1, the QSPI controller *)
(* and the device configuration unit, the NAND timing of the SMC.          *)
DdrTermination == Configure("slcr", <<\hB48, \hB4C, \hB50, \hB54>>)

UartSetUp ==
     EMIT_MASKWRITE(UART_BAUD_DIV, [bdiv |-> 6])
  \o EMIT_MASKWRITE(UART_BAUD_GEN, [cd |-> 124])
  \o EMIT_MASKWRITE(UART_CONTROL, NoBits)
  \o EMIT_MASKWRITE(UART1(\h004), NoBits)

QspiAndPcapSetUp ==
  EMIT_MASKWRITE(<<"qspi", 0>>, NoBits) \o EMIT_MASKWRITE(<<"devcfg", 0>>, NoBits)

SmcSetUp ==
     EMIT_WRITE(SMC(\h014), NoBits)
  \o EMIT_MASKWRITE(SMC(\h018), NoBits)
  \o EMIT_WRITE(SMC(\h010), NoBits)

PeripheralSection ==
     Unlock \o DdrTermination \o Lock
  \o UartSetUp \o QspiAndPcapSetUp \o SmcSetUp \o EMIT_EXIT

--------------------------------------------------------------------------------
(* After the bitstream: level shifters, then the resets of the PL, then    *)
(* what the copy adds.                                                     *)
PostConfigSection(afi) ==
     Unlock
  \o EMIT_MASKWRITE(LVL_SHFTR_EN, [enabled |-> 1])
  \o EMIT_MASKWRITE(FPGA_RST_CTRL, [asserted |-> 0])
  \o afi \o Lock \o EMIT_EXIT

(* Unlocking the trace components for a debugger.                          *)
DebugSection ==
     EMIT_WRITE(<<"cti", 0>>, NoBits)
  \o EMIT_WRITE(<<"cti", 1>>, NoBits)
  \o EMIT_WRITE(<<"cti", 2>>, NoBits)
  \o EMIT_EXIT
================================================================================
