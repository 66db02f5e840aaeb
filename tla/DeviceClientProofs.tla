------------------------- MODULE DeviceClientProofs -------------------------
(***************************************************************************)
(* Proofs about the client in its surroundings: what holds of the client   *)
(* by itself holds of it here, whatever the resources, the downloads and   *)
(* the renewals around it do; what the user sees of a download; and what   *)
(* the tree of resources holds when the device registers.                  *)
(***************************************************************************)
EXTENDS DeviceClient, CloudClientProofs, SequenceTheorems

-----------------------------------------------------------------------------
(* The device implements the client                                        *)

LEMMA DeviceStepIsClientStep ==
    ASSUME [DeviceNext]_deviceVars PROVE [ClientNext]_clientVars
<1>1. CASE Application
  <2>1. CASE Register
    BY <2>1 DEF Register, ClientNext
  <2>2. CASE Loop
    BY <2>2 DEF Loop, ClientNext
  <2>3. CASE SavePointer \/ BuildTree \/ OnCertificateRenewal
    BY <2>3 DEF SavePointer, BuildTree, OnCertificateRenewal
  <2> QED
    BY <1>1, <2>1, <2>2, <2>3 DEF Application
<1>2. CASE Post
  BY <1>2 DEF Post, ClientNext, EventLoop
<1>3. CASE Callback
  BY <1>3 DEF Callback, ClientNext, EventLoop
<1>4. CASE Progress \/ certificate_renewal_cb
  BY <1>4 DEF Progress, certificate_renewal_cb
<1>5. CASE UNCHANGED deviceVars
  BY <1>5 DEF deviceVars
<1> QED
  BY <1>1, <1>2, <1>3, <1>4, <1>5 DEF DeviceNext

\* Every step of the device is a step of the client by itself or leaves the
\* client alone: the resource tree and the pointer `client` only restrict when
\* the client registers and which POST it serves.
THEOREM DeviceImplementsClient == DeviceSpec => ClientSpec
<1>1. DeviceInit => ClientInit
  BY DEF DeviceInit
<1>2. [DeviceNext]_deviceVars => [ClientNext]_clientVars
  BY DeviceStepIsClientStep
<1> QED
  BY <1>1, <1>2, PTL DEF DeviceSpec, ClientSpec

\* ClientTypeOK, ExitReason, ResetBeforeExit, WipedIsLeaving and
\* RegisteredIsHonest hold of the device as they do of the client.
THEOREM DeviceClientSafe ==
    DeviceSpec => [](/\ ClientTypeOK /\ ExitReason /\ ResetBeforeExit
                     /\ WipedIsLeaving /\ NeverNullClient /\ RegisteredIsHonest)
BY DeviceImplementsClient, ClientTypeCorrect, ExitHasReason, ResetIsOverAtExit,
   ResetOnlyWhenLeaving, ClientIsSet, RegisteredHonest, PTL

-----------------------------------------------------------------------------
(* The percentage                                                          *)

\* The percentage of a download is at most 100, is 100 at its end only, and
\* does not fall while the download goes on.
LEMMA PercentFacts ==
    ASSUME NEW p \in Nat, NEW t \in Nat \ {0}, p <= t
    PROVE  /\ Percent(p, t) = (p * 100) \div t
           /\ Percent(p, t) \in 0 .. 100
           /\ Percent(p, t) = 100 <=> p = t
<1> DEFINE q == (p * 100) \div t
<1>1. q \in Nat /\ q * t <= p * 100 /\ p * 100 < (q + 1) * t
  OBVIOUS
<1>2. Percent(p, t) = q % 256
  BY DEF Percent
<1> HIDE DEF q
<1>3. q <= 100
  BY <1>1
<1>4. p = t => q = 100
  BY <1>1
<1>5. q = 100 => p = t
  BY <1>1
<1>6. Percent(p, t) = q
  BY <1>1, <1>2, <1>3
<1> QED
  BY <1>1, <1>3, <1>4, <1>5, <1>6 DEF q

LEMMA PercentGrows ==
    ASSUME NEW p \in Nat, NEW r \in Nat, NEW t \in Nat \ {0}, p <= r, r <= t
    PROVE  /\ Percent(p, t) \in Nat /\ Percent(r, t) \in Nat
           /\ Percent(p, t) <= Percent(r, t)
<1> DEFINE q == (p * 100) \div t
           s == (r * 100) \div t
<1>1. q \in Nat /\ q * t <= p * 100 /\ s \in Nat /\ r * 100 < (s + 1) * t
  OBVIOUS
<1>2. Percent(p, t) = q /\ Percent(r, t) = s
  BY PercentFacts
<1> HIDE DEF q, s
<1>3. q * t < (s + 1) * t
  BY <1>1
<1>4. q < s + 1
  BY <1>1, <1>3
<1> QED
  BY <1>1, <1>2, <1>4

-----------------------------------------------------------------------------
(* What is on the console                                                  *)

\* The percentage shown is that of the download, and the cell that spins is the
\* one the statics remember.
ShownInv ==
    /\ download \in [progress : Nat, total : Nat]
    /\ download.progress <= download.total
    /\ old_max \in 0 .. Cells - 1
    /\ counter \in 0 .. 3
    /\ download.total # 0 =>
          display.percent = Percent(download.progress, download.total)
    /\ display.spinner # "none" =>
          display.full = old_max /\ display.spinner = Spinner[counter + 1]

LEMMA InitShownInv == DeviceInit => ShownInv
BY DEF DeviceInit, ProgressInit, ShownInv, Cells

\* A report, cell by cell.
LEMMA ReportFacts ==
    ASSUME ShownInv, Report
    PROVE  \E p \in Nat, t \in Nat \ {0} :
              LET percent == Percent(p, t)
                  cell == percent \div 2
              IN  /\ p <= t
                  /\ download' = [progress |-> p, total |-> t]
                  /\ p # 0 => t = download.total /\ p >= download.progress
                  /\ percent \in 0 .. 100 /\ (percent = 100 <=> p = t)
                  /\ cell \in 0 .. Cells /\ (cell = Cells => p = t)
                  /\ update_progress(p, t)
<1>1. PICK t \in Totals, p \in Received :
          /\ p <= t
          /\ \/ t = download.total /\ p >= download.progress
             \/ p = 0
          /\ download' = [progress |-> p, total |-> t]
          /\ update_progress(p, t)
  BY DEF Report
<1>2. t \in Nat \ {0} /\ p \in Nat
  BY UpdateUiAssumption
<1>3. Percent(p, t) \in 0 .. 100 /\ (Percent(p, t) = 100 <=> p = t)
  BY <1>1, <1>2, PercentFacts
<1>4. Percent(p, t) \div 2 \in 0 .. Cells /\ (Percent(p, t) \div 2 = Cells => p = t)
  BY <1>3 DEF Cells
<1> QED
  BY <1>1, <1>2, <1>3, <1>4

LEMMA ReportKeeps == ShownInv /\ Report => ShownInv'
<1> SUFFICES ASSUME ShownInv, Report PROVE ShownInv'
  OBVIOUS
<1>1. PICK p \in Nat, t \in Nat \ {0} :
          LET percent == Percent(p, t)
              cell == percent \div 2
          IN  /\ p <= t
              /\ download' = [progress |-> p, total |-> t]
              /\ percent \in 0 .. 100
              /\ cell \in 0 .. Cells
              /\ update_progress(p, t)
  BY ReportFacts
<1> DEFINE cell == Percent(p, t) \div 2
<1>2. Turn(cell) \in 0 .. 3
  BY DEF Turn, ShownInv
<1>3. /\ old_max' = IF cell < Cells THEN cell ELSE old_max
      /\ counter' = IF cell < Cells THEN Turn(cell) ELSE counter
      /\ display'.percent = Percent(p, t)
      /\ cell < Cells => /\ display'.full = cell
                         /\ display'.spinner = Spinner[Turn(cell) + 1]
      /\ ~(cell < Cells) => display'.spinner = "none"
  BY <1>1 DEF update_progress
<1>4. cell \in 0 .. Cells
  BY <1>1
<1> HIDE DEF cell
<1>5. old_max' \in 0 .. Cells - 1 /\ counter' \in 0 .. 3
  BY <1>2, <1>3, <1>4 DEF ShownInv, Cells
<1>6. display'.spinner # "none" =>
          display'.full = old_max' /\ display'.spinner = Spinner[counter' + 1]
  BY <1>3
<1>7. /\ download' \in [progress : Nat, total : Nat]
      /\ download'.progress <= download'.total
      /\ display'.percent = Percent(download'.progress, download'.total)
  BY <1>1, <1>3
<1> QED
  BY <1>5, <1>6, <1>7 DEF ShownInv

\* Every step of the device is a report or leaves the console alone.
LEMMA DeviceStepReports ==
    ASSUME [DeviceNext]_deviceVars PROVE Report \/ UNCHANGED progressVars
<1>1. CASE Application
  BY <1>1 DEF Application, SavePointer, BuildTree, Register, OnCertificateRenewal, Loop
<1>2. CASE Post \/ Callback \/ certificate_renewal_cb
  BY <1>2 DEF Post, Callback, certificate_renewal_cb
<1>3. CASE Progress
  BY <1>3 DEF Progress
<1>4. CASE UNCHANGED deviceVars
  BY <1>4 DEF deviceVars
<1> QED
  BY <1>1, <1>2, <1>3, <1>4 DEF DeviceNext

LEMMA NextShownInv == ShownInv /\ [DeviceNext]_deviceVars => ShownInv'
<1> SUFFICES ASSUME ShownInv, [DeviceNext]_deviceVars PROVE ShownInv'
  OBVIOUS
<1>1. UNCHANGED progressVars => ShownInv'
  BY DEF ShownInv, progressVars
<1> QED
  BY <1>1, DeviceStepReports, ReportKeeps

THEOREM ShownInvariance == DeviceSpec => []ShownInv
BY InitShownInv, NextShownInv, PTL DEF DeviceSpec

\* ProgressIsHonest: for images of every size the percentage does not go back
\* within a download, and 100 % means that everything has arrived.
THEOREM ProgressHonest == DeviceSpec => ProgressIsHonest
<1> DEFINE Honest ==
        reports' # reports =>
            /\ download'.progress # 0 => display'.percent >= display.percent
            /\ display'.percent = 100 <=> display'.completed
<1>1. ShownInv /\ [DeviceNext]_deviceVars => [Honest]_progressVars
  <2> SUFFICES ASSUME ShownInv, Report PROVE Honest
    BY DeviceStepReports
  <2>1. PICK p \in Nat, t \in Nat \ {0} :
            /\ p <= t
            /\ download' = [progress |-> p, total |-> t]
            /\ p # 0 => t = download.total /\ p >= download.progress
            /\ Percent(p, t) = 100 <=> p = t
            /\ update_progress(p, t)
    BY ReportFacts
  <2>2. display'.percent = Percent(p, t) /\ (display'.completed <=> p = t)
    BY <2>1 DEF update_progress
  <2>3. ASSUME p # 0 PROVE display'.percent >= display.percent
    <3>1. /\ t = download.total /\ p >= download.progress
          /\ download.progress \in Nat
          /\ display.percent = Percent(download.progress, t)
      BY <2>1, <2>3 DEF ShownInv
    <3>2. /\ Percent(download.progress, t) \in Nat /\ Percent(p, t) \in Nat
          /\ Percent(download.progress, t) <= Percent(p, t)
      BY <2>1, <3>1, PercentGrows
    <3> QED
      BY <2>2, <3>1, <3>2
  <2> QED
    BY <2>1, <2>2, <2>3
<1> QED
  BY <1>1, ShownInvariance, PTL DEF DeviceSpec, ProgressIsHonest

\* LooksAlive: however little has arrived since the last report, the console
\* changes: another cell spins, or the same one turns.
THEOREM ConsoleLooksAlive == DeviceSpec => LooksAlive
<1> DEFINE Alive == reports' # reports => display' # display \/ display'.completed
<1>1. ShownInv /\ [DeviceNext]_deviceVars => [Alive]_progressVars
  <2> SUFFICES ASSUME ShownInv, Report PROVE Alive
    BY DeviceStepReports
  <2>1. PICK p \in Nat, t \in Nat \ {0} :
            /\ Percent(p, t) \div 2 \in 0 .. Cells
            /\ Percent(p, t) \div 2 = Cells => p = t
            /\ update_progress(p, t)
    BY ReportFacts
  <2> DEFINE cell == Percent(p, t) \div 2
  <2>2. /\ display'.completed <=> p = t
        /\ cell < Cells => /\ display'.full = cell
                           /\ display'.spinner = Spinner[Turn(cell) + 1]
    BY <2>1 DEF update_progress
  <2>3. cell \in 0 .. Cells /\ (cell = Cells => p = t)
    BY <2>1
  <2> HIDE DEF cell
  <2>4. CASE cell = Cells
    BY <2>2, <2>3, <2>4
  <2>5. CASE cell < Cells /\ display.spinner = "none"
    <3>1. Turn(cell) \in 0 .. 3
      BY DEF Turn, ShownInv
    <3>2. Spinner[Turn(cell) + 1] # "none"
      BY <3>1 DEF Spinner
    <3> QED
      BY <2>2, <2>5, <3>2
  <2>6. CASE cell < Cells /\ display.spinner # "none"
    <3>1. display.full = old_max /\ display.spinner = Spinner[counter + 1]
      BY <2>6 DEF ShownInv
    <3>2. CASE cell # old_max
      BY <2>2, <2>6, <3>1, <3>2
    <3>3. CASE cell = old_max
      <4>1. Spinner[Turn(cell) + 1] # Spinner[counter + 1]
        BY <3>3 DEF Spinner, Turn, ShownInv
      <4> QED
        BY <2>2, <2>6, <3>1, <4>1
    <3> QED
      BY <3>2, <3>3
  <2> QED
    BY <2>3, <2>4, <2>5, <2>6 DEF Cells
<1> QED
  BY <1>1, ShownInvariance, PTL DEF DeviceSpec, LooksAlive

-----------------------------------------------------------------------------
(* The resource tree                                                       *)

Paths == Nat \X Nat \X Nat
Handlers == {"unregister", "factory_reset", "NULL"}
Wishes == [path : Paths, operations : SUBSET {"GET", "PUT", "POST"}, cb : Handlers]
Leaves == [operations : SUBSET {"GET", "PUT", "POST"},
           value_updated : Handlers, execute : Handlers]
InstanceSet == UNION {[D -> Leaves] : D \in SUBSET Nat}
InstancesSet == UNION {[D -> InstanceSet] : D \in SUBSET Nat}
Objects == [id : Nat, instances : InstancesSet]

\* No object is there twice, and an object has something at a path.
Distinct(o) == \A j, k \in DOMAIN o : o[j].id = o[k].id => j = k
Holds(o, k, p, v) ==
    /\ k \in DOMAIN o /\ o[k].id = p[1]
    /\ p[2] \in DOMAIN o[k].instances
    /\ p[3] \in DOMAIN o[k].instances[p[2]]
    /\ o[k].instances[p[2]][p[3]] = v

\* The calls main_application makes, one by one.
LEMMA ScriptFacts ==
    /\ Script \in Seq(Wishes)
    /\ Len(Script) = Beacons + 3
    /\ Script[1] = Wish(5000, 0, 1, {"POST"}, "unregister")
    /\ Script[2] = Wish(5000, 0, 2, {"POST"}, "factory_reset")
    /\ \A n \in 3 .. Beacons + 2 :
          Script[n] = Wish(3303, n - 3, 5700, {"GET", "PUT"}, "NULL")
    /\ Script[Beacons + 3] = Wish(3201, 0, 5853, {"GET", "PUT"}, "NULL")
<1> DEFINE W == Wishes
           a == << Wish(5000, 0, 1, {"POST"}, "unregister"),
       Wish(5000, 0, 2, {"POST"}, "factory_reset") >>
           b == [n \in 1 .. Beacons |->
                    Wish(3303, n - 1, 5700, {"GET", "PUT"}, "NULL")]
           c == << Wish(3201, 0, 5853, {"GET", "PUT"}, "NULL") >>
<1> USE BeaconsAssumption
<1>1. a \in Seq(W) /\ Len(a) = 2
  BY DEF Wish, Wishes, Paths, Handlers
<1>2. b \in Seq(W) /\ Len(b) = Beacons
  BY DEF Wish, Wishes, Paths, Handlers
<1>3. c \in Seq(W) /\ Len(c) = 1
  BY DEF Wish, Wishes, Paths, Handlers
<1>4. Script = (a \o b) \o c
  BY DEF Script
<1> HIDE DEF W
<1>5. /\ a \o b \in Seq(W) /\ Len(a \o b) = Beacons + 2
      /\ \A i \in 1 .. Beacons + 2 : (a \o b)[i] = IF i <= 2 THEN a[i] ELSE b[i - 2]
  <2> HIDE DEF a, b
  <2>1. /\ a \o b \in Seq(W) /\ Len(a \o b) = Len(a) + Len(b)
        /\ \A i \in 1 .. Len(a) + Len(b) :
              (a \o b)[i] = IF i <= Len(a) THEN a[i] ELSE b[i - Len(a)]
    BY <1>1, <1>2, ConcatProperties
  <2>2. Len(a) + Len(b) = Beacons + 2
    BY <1>1, <1>2
  <2>3. Len(a) = 2
    BY <1>1
  <2> QED
    BY <2>1, <2>2, <2>3
<1> DEFINE ab == a \o b
<1> HIDE DEF ab
<1>17. ab \in Seq(W) /\ Len(ab) = Beacons + 2
  <2> HIDE DEF a, b
  <2> QED
    BY <1>5 DEF ab
<1>6. /\ ab \o c \in Seq(W) /\ Len(ab \o c) = Beacons + 3
      /\ \A i \in 1 .. Beacons + 3 :
            (ab \o c)[i] = IF i <= Beacons + 2 THEN ab[i] ELSE c[i - (Beacons + 2)]
  <2> HIDE DEF c
  <2>1. ab \in Seq(W) /\ Len(ab) = Beacons + 2
    BY <1>17
  <2>2. /\ ab \o c \in Seq(W) /\ Len(ab \o c) = Len(ab) + Len(c)
        /\ \A i \in 1 .. Len(ab) + Len(c) :
              (ab \o c)[i] = IF i <= Len(ab) THEN ab[i] ELSE c[i - Len(ab)]
    BY <1>3, <2>1, ConcatProperties
  <2>3. Len(ab) + Len(c) = Beacons + 3
    BY <1>3, <2>1
  <2> QED
    BY <2>1, <2>2, <2>3
<1>7. Script = ab \o c
  <2> HIDE DEF a, b, c
  <2> QED
    BY <1>4 DEF ab
<1>13. /\ a[1] = Wish(5000, 0, 1, {"POST"}, "unregister")
       /\ a[2] = Wish(5000, 0, 2, {"POST"}, "factory_reset")
       /\ c[1] = Wish(3201, 0, 5853, {"GET", "PUT"}, "NULL")
  OBVIOUS
<1>14. \A i \in 1 .. Beacons :
          b[i] = Wish(3303, i - 1, 5700, {"GET", "PUT"}, "NULL")
  OBVIOUS
<1> HIDE DEF a, b, c
<1>8. \A i \in 1 .. Beacons + 2 : ab[i] = IF i <= 2 THEN a[i] ELSE b[i - 2]
  BY <1>5 DEF ab
<1>9. Script[1] = a[1] /\ Script[2] = a[2]
  BY <1>6, <1>7, <1>8
<1>10. \A n \in 3 .. Beacons + 2 : Script[n] = b[n - 2]
  BY <1>6, <1>7, <1>8
<1>11. Script[Beacons + 3] = c[1]
  BY <1>6, <1>7, <1>8
<1>12. \A n \in 3 .. Beacons + 2 :
          Script[n] = Wish(3303, n - 3, 5700, {"GET", "PUT"}, "NULL")
  <2> TAKE n \in 3 .. Beacons + 2
  <2>1. Script[n] = b[n - 2] /\ n - 2 \in 1 .. Beacons /\ (n - 2) - 1 = n - 3
    BY <1>10
  <2>2. b[n - 2] = Wish(3303, (n - 2) - 1, 5700, {"GET", "PUT"}, "NULL")
    BY <1>14, <2>1
  <2> QED
    BY <2>1, <2>2
<1>15. Script \in Seq(W) /\ Len(Script) = Beacons + 3
  BY <1>6, <1>7
<1>16. Seq(W) = Seq(Wishes)
  BY DEF W
<1> QED
  BY <1>9, <1>11, <1>12, <1>13, <1>15, <1>16

\* No path is asked for twice.
LEMMA PathsDiffer ==
    \A m, n \in DOMAIN Script : Script[m].path = Script[n].path => m = n
<1> SUFFICES ASSUME NEW m \in 1 .. Beacons + 3, NEW n \in 1 .. Beacons + 3,
                    Script[m].path = Script[n].path
             PROVE  m = n
  BY ScriptFacts
<1> USE BeaconsAssumption
<1>1. ASSUME NEW i \in 1 .. Beacons + 3
      PROVE  \/ i = 1 /\ Script[i].path = <<5000, 0, 1>>
             \/ i = 2 /\ Script[i].path = <<5000, 0, 2>>
             \/ i \in 3 .. Beacons + 2 /\ Script[i].path = <<3303, i - 3, 5700>>
             \/ i = Beacons + 3 /\ Script[i].path = <<3201, 0, 5853>>
  <2>1. \/ i = 1 \/ i = 2 \/ i \in 3 .. Beacons + 2 \/ i = Beacons + 3
    OBVIOUS
  <2>2. CASE i = 1
    BY <2>2, ScriptFacts DEF Wish
  <2>3. CASE i = 2
    BY <2>3, ScriptFacts DEF Wish
  <2>4. CASE i \in 3 .. Beacons + 2
    <3>1. Script[i] = Wish(3303, i - 3, 5700, {"GET", "PUT"}, "NULL")
      BY <2>4, ScriptFacts
    <3> QED
      BY <2>4, <3>1 DEF Wish
  <2>5. CASE i = Beacons + 3
    BY <2>5, ScriptFacts DEF Wish
  <2> QED
    BY <2>1, <2>2, <2>3, <2>4, <2>5
<1> QED
  BY <1>1

\* What has a POST gets its callback.
LEMMA PostsExecute ==
    \A n \in DOMAIN Script :
        "POST" \in Script[n].operations
            => Resource(Script[n]).execute = Script[n].cb
<1> SUFFICES ASSUME NEW n \in 1 .. Beacons + 3, "POST" \in Script[n].operations
             PROVE  Resource(Script[n]).execute = Script[n].cb
  BY ScriptFacts
<1> USE BeaconsAssumption
<1>1. n \in {1, 2}
  <2>1. CASE n \in 3 .. Beacons + 2
    <3>1. Script[n] = Wish(3303, n - 3, 5700, {"GET", "PUT"}, "NULL")
      BY <2>1, ScriptFacts
    <3> QED
      BY <3>1 DEF Wish
  <2>2. CASE n = Beacons + 3
    BY <2>2, ScriptFacts DEF Wish
  <2> QED
    BY <2>1, <2>2
<1>2. Script[n].operations = {"POST"}
  BY <1>1, ScriptFacts DEF Wish
<1>3. {"POST"} \cap {"PUT", "POST"} = {"POST"}
  OBVIOUS
<1> QED
  BY <1>2, <1>3 DEF Resource

LEMMA ResourceIsLeaf == \A w \in Wishes : Resource(w) \in Leaves
  BY DEF Wishes, Leaves, Handlers, Resource

\* add_resource puts the resource at its path, leaves what is at other paths
\* alone, and never makes a second object of a number.
LEMMA AddOne ==
    ASSUME NEW objects \in Seq(Objects), Distinct(objects), NEW w \in Wishes
    PROVE  LET r == add_resource(objects, w)
           IN  /\ r.list \in Seq(Objects) /\ Distinct(r.list)
               /\ \E k \in DOMAIN r.list :
                     /\ r.handle = <<k, w.path[2], w.path[3]>>
                     /\ Holds(r.list, k, w.path, Resource(w))
               /\ \A k \in DOMAIN objects, p \in Paths, v \in Leaves :
                     Holds(objects, k, p, v) /\ p # w.path => Holds(r.list, k, p, v)
<1> DEFINE id == w.path[1]
           p2 == w.path[2]
           p3 == w.path[3]
           found == WithObject(objects, id)
           k0 == IF FindObject(objects, id) = {}
                 THEN Len(found) ELSE Where(objects, id)
           ins == found[k0].instances
           old == IF p2 \in DOMAIN ins THEN ins[p2] ELSE Empty
           leaf == Resource(w)
           new == With(old, p3, leaf)
           all == With(ins, p2, new)
           r == [found EXCEPT ![k0].instances = all]
<1>1. add_resource(objects, w) =
          [list |-> r, handle |-> <<k0, w.path[2], w.path[3]>>]
  BY Zenon DEF add_resource
<1>2. w.path \in Paths /\ id \in Nat /\ w.path[2] \in Nat /\ w.path[3] \in Nat
  BY DEF Wishes, Paths
<1>3. w.path = <<id, w.path[2], w.path[3]>>
  BY <1>2 DEF Paths
<1>4. /\ found \in Seq(Objects) /\ Distinct(found)
      /\ k0 \in DOMAIN found /\ found[k0].id = id
      /\ \A k \in DOMAIN objects : k \in DOMAIN found /\ found[k] = objects[k]
  <2>1. CASE FindObject(objects, id) = {}
    <3> DEFINE o == [id |-> id, instances |-> Empty]
    <3>1. o \in Objects
      <4>1. Empty \in [{} -> InstanceSet]
        BY DEF Empty
      <4>2. Empty \in InstancesSet
        BY <4>1 DEF InstancesSet
      <4> QED
        BY <1>2, <4>2 DEF Objects
    <3>2. found = Append(objects, o)
      BY <2>1, Zenon DEF WithObject
    <3>3. k0 = Len(found)
      BY <2>1, Zenon
    <3>4. \A k \in DOMAIN objects : objects[k].id # id
      BY <2>1 DEF FindObject
    <3>5. o.id = id
      OBVIOUS
    <3> HIDE DEF o, found, k0
    <3> QED
      BY <3>1, <3>2, <3>3, <3>4, <3>5 DEF Distinct
  <2>2. CASE FindObject(objects, id) # {}
    <3>1. PICK k \in FindObject(objects, id) : TRUE
      BY <2>2
    <3>2. k \in 1 .. Len(objects) /\ \A j \in FindObject(objects, id) : j = k
      BY <3>1 DEF FindObject, Distinct
    <3>3. k \in FindObject(objects, id) /\ \A j \in FindObject(objects, id) : k <= j
      BY <3>1, <3>2
    <3>4. Where(objects, id) \in FindObject(objects, id)
      BY <3>3, Zenon DEF Where
    <3>5. found = objects /\ k0 = Where(objects, id)
      BY <2>2, Zenon DEF WithObject
    <3> HIDE DEF found, k0
    <3> QED
      BY <3>4, <3>5 DEF FindObject
  <2> QED
    BY <2>1, <2>2, Zenon
<1> HIDE DEF found, k0
<1>5. found[k0] = [id |-> id, instances |-> ins] /\ ins \in InstancesSet
  <2>1. found[k0] \in Objects /\ found[k0].id = id
    BY <1>4
  <2> DEFINE o == found[k0]
  <2> HIDE DEF o
  <2>2. o \in Objects => /\ o = [id |-> o.id, instances |-> o.instances]
                         /\ o.instances \in InstancesSet
    BY DEF Objects
  <2> QED
    BY <2>1, <2>2 DEF o
<1>6. PICK D1 \in SUBSET Nat : ins \in [D1 -> InstanceSet]
  <2> HIDE DEF ins
  <2> QED
    BY <1>5 DEF InstancesSet
<1>7. old \in InstanceSet
  <2>1. Empty \in [{} -> Leaves]
    BY DEF Empty
  <2>2. Empty \in InstanceSet
    BY <2>1 DEF InstanceSet
  <2> HIDE DEF ins
  <2> QED
    BY <1>6, <2>2
<1>8. PICK D2 \in SUBSET Nat : old \in [D2 -> Leaves]
  <2> HIDE DEF old
  <2> QED
    BY <1>7 DEF InstanceSet
<1>9. leaf \in Leaves /\ p2 \in Nat /\ p3 \in Nat
  BY <1>2, ResourceIsLeaf
<1> HIDE DEF ins, leaf
<1>10. /\ new \in [{p3} \cup D2 -> Leaves] /\ new[p3] = leaf
       /\ \A y \in D2 : y # p3 => new[y] = old[y]
  <2> HIDE DEF old, p3
  <2> QED
    BY <1>8, <1>9 DEF With
<1>11. new \in InstanceSet
  <2>1. {p3} \cup D2 \in SUBSET Nat
    BY <1>9
  <2> HIDE DEF new, p3
  <2> QED
    BY <1>10, <2>1 DEF InstanceSet
<1>12. /\ all \in [{p2} \cup D1 -> InstanceSet] /\ all[p2] = new
       /\ \A y \in D1 : y # p2 => all[y] = ins[y]
  <2> HIDE DEF new, p2
  <2> QED
    BY <1>6, <1>9, <1>11 DEF With
<1>13. all \in InstancesSet
  <2>1. {p2} \cup D1 \in SUBSET Nat
    BY <1>9
  <2> HIDE DEF all, p2
  <2> QED
    BY <1>12, <2>1 DEF InstancesSet
<1>14. D1 = DOMAIN ins /\ D2 = DOMAIN old
  <2> HIDE DEF old
  <2> QED
    BY <1>6, <1>8
<1>15. p2 \in D1 => old = ins[p2]
  BY <1>14
<1>16. p2 \notin D1 => D2 = {}
  <2>1. p2 \notin D1 => old = Empty
    BY <1>14
  <2> HIDE DEF old
  <2> QED
    BY <1>14, <2>1 DEF Empty
<1> HIDE DEF all, new, old
<1>17. /\ r \in Seq(Objects) /\ DOMAIN r = DOMAIN found
       /\ r[k0] = [id |-> id, instances |-> all]
       /\ \A k \in DOMAIN found : k # k0 => r[k] = found[k]
  <2>1. [found[k0] EXCEPT !.instances = all] = [id |-> id, instances |-> all]
    BY <1>5
  <2>2. [id |-> id, instances |-> all] \in Objects
    BY <1>2, <1>13 DEF Objects
  <2> DEFINE o == [id |-> id, instances |-> all]
  <2>3. r = [found EXCEPT ![k0] = o]
    BY <2>1, <1>5
  <2> HIDE DEF o
  <2>4. r \in Seq(Objects) /\ DOMAIN r = DOMAIN found /\ r[k0] = o
        /\ \A k \in DOMAIN found : k # k0 => r[k] = found[k]
    BY <1>4, <2>2, <2>3 DEF o
  <2> QED
    BY <2>4 DEF o
<1> HIDE DEF r
<1>18. \A k \in DOMAIN found : r[k].id = found[k].id
  BY <1>4, <1>17
<1>19. Distinct(r)
  BY <1>4, <1>17, <1>18 DEF Distinct
<1>20. Holds(r, k0, w.path, leaf)
  BY <1>4, <1>10, <1>12, <1>17 DEF Holds
<1>21. ASSUME NEW k \in DOMAIN objects, NEW p \in Paths, NEW v \in Leaves,
              Holds(objects, k, p, v), p # w.path
       PROVE  Holds(r, k, p, v)
  <2>1. Holds(found, k, p, v)
    BY <1>4, <1>21 DEF Holds
  <2>2. CASE k # k0
    BY <1>17, <2>1, <2>2 DEF Holds
  <2>3. CASE k = k0
    <3>1. /\ p[1] = id /\ p[2] \in D1 /\ p[3] \in DOMAIN ins[p[2]]
          /\ ins[p[2]][p[3]] = v
      BY <1>5, <1>14, <2>1, <2>3 DEF Holds
    <3>2. CASE p[2] # p2
      <4>1. all[p[2]] = ins[p[2]] /\ p[2] \in DOMAIN all
        BY <1>12, <3>1, <3>2
      <4> QED
        BY <1>17, <1>18, <2>1, <2>3, <3>1, <4>1 DEF Holds
    <3>3. CASE p[2] = p2
      <4>1. p[3] # p3
        BY <1>3, <1>21, <3>1, <3>3 DEF Paths
      <4>2. p[3] \in D2 /\ old[p[3]] = v
        BY <1>14, <1>15, <3>1, <3>3
      <4>3. p[3] \in DOMAIN new /\ new[p[3]] = v
        BY <1>10, <4>1, <4>2
      <4>4. all[p[2]] = new /\ p[2] \in DOMAIN all
        BY <1>12, <3>3
      <4> QED
        BY <1>17, <1>18, <2>1, <2>3, <3>1, <4>3, <4>4 DEF Holds
    <3> QED
      BY <3>2, <3>3
  <2> QED
    BY <2>2, <2>3
<1> DEFINE a == add_resource(objects, w)
<1>22. a.list = r /\ a.handle = <<k0, w.path[2], w.path[3]>>
  BY <1>1 DEF a
<1> HIDE DEF a
<1>23. /\ a.list \in Seq(Objects) /\ Distinct(a.list)
       /\ \E k \in DOMAIN a.list :
             /\ a.handle = <<k, w.path[2], w.path[3]>>
             /\ Holds(a.list, k, w.path, leaf)
       /\ \A k \in DOMAIN objects, p \in Paths, v \in Leaves :
             Holds(objects, k, p, v) /\ p # w.path => Holds(a.list, k, p, v)
  BY <1>4, <1>17, <1>19, <1>20, <1>21, <1>22
<1> QED
  BY <1>23, Zenon DEF a, leaf

\* Every resource asked for so far is where its handle says, and the list is not
\* touched any more once it has been handed over.
TreeInv ==
    /\ list \in Seq(Objects) /\ Distinct(list)
    /\ handles \in Seq(Paths) /\ Len(handles) <= Len(Script)
    /\ \A n \in DOMAIN handles :
          \E k \in DOMAIN list :
             /\ handles[n] = <<k, Script[n].path[2], Script[n].path[3]>>
             /\ Holds(list, k, Script[n].path, Resource(Script[n]))
    /\ offered # <<>> => offered = list /\ Len(handles) = Len(Script)

LEMMA TreeStarts == TreeInit => TreeInv
  BY ScriptFacts, BeaconsAssumption DEF TreeInit, TreeInv, Distinct

LEMMA TreeStep ==
    ASSUME TreeInv, AddCloudResource \/ AddObjects \/ UNCHANGED treeVars
    PROVE  TreeInv'
<1>1. CASE AddCloudResource
  <2> DEFINE w == Script[Len(handles) + 1]
             a == add_resource(list, w)
  <2>1. /\ offered = <<>> /\ Len(handles) < Len(Script)
        /\ list' = a.list /\ handles' = Append(handles, a.handle)
        /\ offered' = offered
    BY <1>1, Zenon DEF AddCloudResource
  <2>2. w \in Wishes /\ Len(handles) + 1 \in DOMAIN Script
    BY <2>1, ScriptFacts, BeaconsAssumption DEF TreeInv
  <2> HIDE DEF w
  <2>3. /\ a.list \in Seq(Objects) /\ Distinct(a.list)
        /\ \E k \in DOMAIN a.list :
              /\ a.handle = <<k, w.path[2], w.path[3]>>
              /\ Holds(a.list, k, w.path, Resource(w))
        /\ \A k \in DOMAIN list, p \in Paths, v \in Leaves :
              Holds(list, k, p, v) /\ p # w.path => Holds(a.list, k, p, v)
    BY <2>2, AddOne, Zenon DEF TreeInv
  <2> HIDE DEF a
  <2>4. PICK k \in DOMAIN list' :
              /\ a.handle = <<k, w.path[2], w.path[3]>>
              /\ Holds(list', k, w.path, Resource(w))
    BY <2>1, <2>3
  <2>5. a.handle \in Paths
    BY <2>1, <2>2, <2>3, <2>4 DEF Wishes, Paths
  <2>6. handles' \in Seq(Paths) /\ Len(handles') = Len(handles) + 1
        /\ handles'[Len(handles) + 1] = a.handle
        /\ \A n \in DOMAIN handles : handles'[n] = handles[n]
    BY <2>1, <2>5 DEF TreeInv
  <2>7. Len(handles') <= Len(Script)
    BY <2>1, <2>6, ScriptFacts, BeaconsAssumption DEF TreeInv
  <2>8. ASSUME NEW n \in DOMAIN handles
        PROVE  \E j \in DOMAIN list' :
             /\ handles'[n] = <<j, Script[n].path[2], Script[n].path[3]>>
             /\ Holds(list', j, Script[n].path, Resource(Script[n]))
    <3>1. PICK j \in DOMAIN list :
             /\ handles[n] = <<j, Script[n].path[2], Script[n].path[3]>>
             /\ Holds(list, j, Script[n].path, Resource(Script[n]))
      BY DEF TreeInv
    <3>2. n \in DOMAIN Script /\ Script[n] \in Wishes /\ n # Len(handles) + 1
      <4>1. handles \in Seq(Paths) /\ Len(handles) <= Len(Script)
        BY Zenon DEF TreeInv
      <4> QED
        BY <4>1, ScriptFacts, BeaconsAssumption
    <3>3. Script[n].path # w.path
      BY <2>2, <3>2, PathsDiffer DEF w
    <3>4. Resource(Script[n]) \in Leaves /\ Script[n].path \in Paths
      BY <3>2, ResourceIsLeaf DEF Wishes
    <3>5. Holds(list', j, Script[n].path, Resource(Script[n]))
      BY <2>1, <2>3, <3>1, <3>3, <3>4
    <3>6. j \in DOMAIN list'
      BY <3>5 DEF Holds
    <3> QED
      BY <2>6, <3>1, <3>5, <3>6
  <2>9. \E j \in DOMAIN list' :
             /\ handles'[Len(handles) + 1] = <<j, w.path[2], w.path[3]>>
             /\ Holds(list', j, w.path, Resource(w))
    BY <2>4, <2>6
  <2>10. \A n \in DOMAIN handles' : \E j \in DOMAIN list' :
             /\ handles'[n] = <<j, Script[n].path[2], Script[n].path[3]>>
             /\ Holds(list', j, Script[n].path, Resource(Script[n]))
    <3>0. DOMAIN handles' = DOMAIN handles \cup {Len(handles) + 1}
      <4>1. handles \in Seq(Paths)
        BY Zenon DEF TreeInv
      <4> QED
        BY <2>6, <4>1
    <3> TAKE n \in DOMAIN handles'
    <3>1. CASE n \in DOMAIN handles
      BY <2>8, <3>1, Zenon
    <3>2. CASE n = Len(handles) + 1
      BY <2>9, <3>2, Zenon DEF w
    <3>3. n \in DOMAIN handles \/ n = Len(handles) + 1
      BY <3>0, Zenon
    <3> QED
      BY <3>1, <3>2, <3>3, Zenon
  <2> QED
    BY <2>1, <2>3, <2>6, <2>7, <2>10 DEF TreeInv
<1>2. CASE AddObjects
  BY <1>2 DEF AddObjects, TreeInv
<1>3. CASE UNCHANGED treeVars
  BY <1>3 DEF treeVars, TreeInv
<1> QED
  BY <1>1, <1>2, <1>3

LEMMA TreeInvSuffices == TreeInv => TreeIsComplete
<1> SUFFICES ASSUME TreeInv, offered # <<>> PROVE TreeIsComplete
  BY DEF TreeIsComplete
<1>1. offered = list /\ Len(handles) = Len(Script)
  BY DEF TreeInv
<1>2. DOMAIN handles = DOMAIN Script
  BY <1>1, ScriptFacts DEF TreeInv
<1>3. \A j, k \in DOMAIN offered : offered[j].id = offered[k].id => j = k
  BY <1>1 DEF TreeInv, Distinct
<1>4. ASSUME NEW n \in DOMAIN Script
      PROVE  /\ Offers(Script[n])
             /\ handles[n] \in {<<k, Script[n].path[2], Script[n].path[3]>> :
                                    k \in At(offered, Script[n].path)}
             /\ "POST" \in Script[n].operations
                    => Executes(Script[n].path, Script[n].cb)
  <2>1. PICK k \in DOMAIN list :
             /\ handles[n] = <<k, Script[n].path[2], Script[n].path[3]>>
             /\ Holds(list, k, Script[n].path, Resource(Script[n]))
    BY <1>2 DEF TreeInv
  <2>2. k \in At(offered, Script[n].path)
    BY <1>1, <2>1 DEF At, Holds
  <2>3. offered[k].instances[Script[n].path[2]][Script[n].path[3]]
            = Resource(Script[n])
    BY <1>1, <2>1 DEF Holds
  <2>4. Resource(Script[n]).operations = Script[n].operations
    BY DEF Resource
  <2>5. Offers(Script[n])
    BY <2>2, <2>3, <2>4 DEF Offers
  <2>6. "POST" \in Script[n].operations => Executes(Script[n].path, Script[n].cb)
    BY <2>2, <2>3, PostsExecute DEF Executes
  <2> QED
    BY <2>1, <2>2, <2>5, <2>6
<1> QED
  BY <1>3, <1>4 DEF TreeIsComplete

LEMMA DeviceStepsTree ==
    ASSUME [DeviceNext]_deviceVars
    PROVE  AddCloudResource \/ AddObjects \/ UNCHANGED treeVars
<1>1. CASE Application
  BY <1>1 DEF Application, SavePointer, BuildTree, Register, OnCertificateRenewal, Loop
<1>2. CASE Post \/ Callback \/ Progress \/ certificate_renewal_cb
  BY <1>2 DEF Post, Callback, Progress, certificate_renewal_cb
<1>3. CASE UNCHANGED deviceVars
  BY <1>3 DEF deviceVars
<1> QED
  BY <1>1, <1>2, <1>3 DEF DeviceNext

\* TreeIsComplete: for any number of beacons, what the device registers with has
\* every resource of main_application, once, where its pointers lead to.
THEOREM TreeComplete == DeviceSpec => []TreeIsComplete
<1>1. DeviceInit => TreeInv
  BY TreeStarts DEF DeviceInit
<1>2. TreeInv /\ [DeviceNext]_deviceVars => TreeInv'
  BY DeviceStepsTree, TreeStep
<1>3. TreeInv => TreeIsComplete
  BY TreeInvSuffices
<1> QED
  BY <1>1, <1>2, <1>3, PTL DEF DeviceSpec

=============================================================================
