------------------------------ MODULE MCBleApp -------------------------------
(* Constants of the runs of BleApp.                                        *)
EXTENDS BleApp

\* Every beacon of the table may advertise, and two indices outside it: one
\* the bitmap has a bit for, and one that is beyond the word.
MCScanIndices == Idx \cup {MaxBeacons, WordBits}
MCServerBitmaps == {{}}
NoBitmaps == {}
=============================================================================
