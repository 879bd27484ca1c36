-------------------------- MODULE MCDriverLifecycle --------------------------
(***************************************************************************)
(* The three drivers.  What dma_alloc_coherent returns is a page.          *)
(***************************************************************************)
EXTENDS DriverLifecycle

AllDrivers == {"ppu", "apu", "con"}
Fallible == {"chrdev", "mapping", "dma", "irq", "port", "device"}
Pages == {4096, 8192}
=============================================================================
