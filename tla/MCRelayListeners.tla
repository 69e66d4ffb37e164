--------------------------- MODULE MCRelayListeners ---------------------------
(***************************************************************************)
(* One relay that the I/O, SignalK stream and NMEA 2000 tasks all switch.  *)
(***************************************************************************)
EXTENDS RelayListeners

CONSTANTS io, stream, n2k

OneRelay  == {1}
AllTasks  == {io, stream, n2k}

\* Relay 1 may be wired to its normally closed terminal.
TwoWirings == {{}, {1}}
=============================================================================
