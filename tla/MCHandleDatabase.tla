-------------------------- MODULE MCHandleDatabase --------------------------
(***************************************************************************)
(* Scenarios for the run of HandleDatabase.                                *)
(***************************************************************************)
EXTENDS HandleDatabase

CONSTANTS k1, k2

\* A program that connects, disconnects, removes and adds the controller and
\* its interfaces, with two devices and a disk driver that may refuse to stop.
Program(refuse) ==
  [kids |-> {k1, k2}, loaded |-> Drivers, refuse |-> refuse, flaky |-> {}, callbacks |-> {},
   calls |-> {"connect", "disconnect", "install", "uninstall", "reinstall", "locate"}]

\* A program that opens exclusively, while a notification function connects.
Exclusives ==
  [kids |-> {k1}, loaded |-> {"bus", "disk"}, refuse |-> {}, flaky |-> {},
   callbacks |-> {"connect"},
   calls |-> {"connect", "exclusive", "close", "uninstall", "get", "install"}]

\* Drivers that come while others are connected.
Loading ==
  [kids |-> {k1}, loaded |-> {"bus"}, refuse |-> {}, flaky |-> {},
   callbacks |-> {"load", "get"}, calls |-> {"connect", "disconnect"}]

\* A notification function that connects what it is told of, and more.
Hotplug ==
  [kids |-> {k1}, loaded |-> Drivers, refuse |-> {"fs"}, flaky |-> {},
   callbacks |-> {"connect", "locate"},
   calls |-> {"connect", "disconnect", "reinstall", "uninstall", "install"}]

\* Drivers whose Start may fail.
Failing ==
  [kids |-> {k1, k2}, loaded |-> Drivers, refuse |-> {}, flaky |-> {"bus", "disk"},
   callbacks |-> {"locate"}, calls |-> {"connect", "disconnect", "uninstall", "install"}]

MCKids == {k1, k2}

MCScenarios == {Program({"disk"}), Program({"bus"}), Exclusives, Loading, Hotplug, Failing}
=============================================================================
