----------------------------- MODULE MCDevices -----------------------------
(* Instances of Devices for TLC.                                           *)
EXTENDS Devices

MCIrqs == {0, 1, 2, 7, 8, 15}
\* The firmware uses its clock and its keyboard, and the slave's line 8.
MCFirmwareMasks == {7, 15}
machine(bus, keyboard, takes_set_1) ==
    [bus |-> bus, keyboard |-> keyboard, takes_set_1 |-> takes_set_1]
MCHardware == {machine("ones", FALSE, FALSE), machine("zeros", FALSE, FALSE),
               machine("ps2", FALSE, FALSE), machine("ps2", TRUE, FALSE),
               machine("ps2", TRUE, TRUE)}
MCFirmwareBytes == {{"TRANSLATE"}, {"IRQ1", "TRANSLATE"}}
=============================================================================
