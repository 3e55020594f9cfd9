\* Two nodes for each driver, those of dma-proxy with two channels and one.
\* After undefined behaviour nothing is modelled, and the system stops.
CHECK_DEADLOCK FALSE
CONSTANTS
  Muxes = {m1, m2}
  Pulsecaps = {p1, p2}
  d1 = d1
  d2 = d2
  Proxies = {d1, d2}
  ChannelCount <- TwoOne
  AXIMUX_MAX_INSTANCES = 3
  MAX_PULSECAP_INSTANCES = 2
  FloppyMux = m1
  FloppyPulsecap = p1
SPECIFICATION Spec
INVARIANTS
  TypeOK
  OwnDevice
  ClassOutlivesDevices
  NothingLeft
  FloppyMuxAlive
