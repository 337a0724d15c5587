SPECIFICATION PortSpec
CONSTANTS
  ta = ta tb = tb tc = tc
  Threads = {ta, tb, tc}
  Nil = nil
  Ports <- MCPorts
  Addrs <- MCAddrs
  Text <- MCText
  Flash <- MCFlash
  KRam <- MCKRam
  Ram <- MCRam
  Mmio <- MCMmio
  Stacks <- MCStacks
  Areas <- MCAreas
INVARIANTS KernelRamHidden NoLegalAccessRefused TablesSound
PROPERTIES UnitsKept
