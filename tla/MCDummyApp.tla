----------------------------- MODULE MCDummyApp ------------------------------
(* Constants of the runs of DummyApp.                                      *)
EXTENDS DummyApp

\* The server clears the bitmap, or sets the bit of the last beacon.
MCServerBitmaps == {{}, {MaxBeacons - 1}}
NoBitmaps == {}
=============================================================================
