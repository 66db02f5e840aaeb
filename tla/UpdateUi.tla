------------------------------- MODULE UpdateUi -------------------------------
(***************************************************************************)
(* update_progress of update_ui_example.cpp: what the user sees while a    *)
(* firmware image is downloaded.  The library calls it on its own thread   *)
(* with the bytes received and the size of the image.  The bar has 50      *)
(* cells, the one after the last full cell spins; what it has shown last   *)
(* is kept in two statics that outlive a download.                         *)
(***************************************************************************)
EXTENDS Integers

CONSTANTS
    Modulus,    \* 2^32, or less: a uint32_t counts to one less
    Totals,     \* sizes of images
    Received    \* numbers of bytes received that the library reports

\* The division is by the size: the library reports no empty image.
ASSUME UpdateUiAssumption ==
    /\ Modulus \in Nat
    /\ Totals \subseteq 1 .. Modulus - 1
    /\ Received \subseteq Nat

VARIABLES
    download,   \* what the library has reported last
    old_max,    \* the cell that spins
    counter,    \* how often it has turned; only counter % 4 is ever read, and
                \* 4 divides 256, so the uint8_t is kept modulo 4
    display,    \* the line on the console
    reports     \* history: changes its value with every call

progressVars == <<download, old_max, counter, display, reports>>

Cells == 50

ProgressInit ==
    /\ download = [progress |-> 0, total |-> 0]
    /\ old_max = 0
    /\ counter = 0
    /\ display = [percent |-> 0, full |-> 0, spinner |-> "none", completed |-> FALSE]
    /\ reports = FALSE

\* Mutation of Percent: the product is computed in 32 bits.
Percent_32(progress, total) == (((progress * 100) % Modulus) \div total) % 256

\* The product is computed in 64 bits, the result is a uint8_t.
Percent(progress, total) == ((progress * 100) \div total) % 256

\* Mutation of Turn: the cell that spins is not remembered.
Turn_Forgets(cell) == 0

Turn(cell) == IF cell = old_max THEN (counter + 1) % 4 ELSE 0

Spinner == <<"/", "-", "\\", "|">>

update_progress(progress, total) ==
    LET percent == Percent(progress, total)
        cell == percent \div 2
        spins == cell < Cells
    IN  /\ old_max' = IF spins THEN cell ELSE old_max
        /\ counter' = IF spins THEN Turn(cell) ELSE counter
        /\ display' = [percent |-> percent,
                       full |-> IF spins THEN cell ELSE Cells,
                       spinner |-> IF spins THEN Spinner[Turn(cell) + 1] ELSE "none",
                       completed |-> progress = total]

\* The library goes on with a download, or starts one.
Report ==
    /\ \E total \in Totals, progress \in Received :
          /\ progress <= total
          /\ \/ total = download.total /\ progress >= download.progress
             \/ progress = 0
          /\ download' = [progress |-> progress, total |-> total]
          /\ update_progress(progress, total)
    /\ reports' = ~reports

-----------------------------------------------------------------------------
(* Properties                                                              *)

\* Within one download the percentage never goes back, however large the
\* image, and 100 % is shown exactly when the download is reported complete.
ProgressIsHonest ==
    [][reports' # reports =>
         /\ download'.progress # 0 => display'.percent >= display.percent
         /\ display'.percent = 100 <=> display'.completed]_progressVars

\* Every report shows on the console, be the progress as small as it may,
\* until everything has arrived.
LooksAlive ==
    [][reports' # reports => display' # display \/ display'.completed]_progressVars
=============================================================================
