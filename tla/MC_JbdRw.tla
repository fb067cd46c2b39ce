------------------------------- MODULE MC_JbdRw -------------------------------
(* TLC instances of JbdRw: scripts of the callers.                           *)
EXTENDS JbdRw

\* jbd_eeprom_start(), write_parm() of a B0/B1 parameter (read, modify, write
\* one register), jbd_eeprom_end().  Without the read it is a plain write.
EditScript == << [act |-> "write", reg |-> "EEPROM"],
                 [act |-> "read",  reg |-> "param"],
                 [act |-> "write", reg |-> "param"],
                 [act |-> "write", reg |-> "CONFIG"] >>
Regs == {"EEPROM", "param", "CONFIG"}
=============================================================================
