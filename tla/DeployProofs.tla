----------------------------- MODULE DeployProofs -----------------------------
(***************************************************************************)
(* Proofs about Deploy for any targets, directories and patches.           *)
(***************************************************************************)
EXTENDS Deploy, TLAPS

-----------------------------------------------------------------------------
(* The inductive invariant                                                 *)

DeployPhases == {"fetch", "clone", "patch", "patching", "commit"}
CleanPhases == {"out", "delete", "deleting"}

Runs == [phase : DeployPhases \cup CleanPhases \cup {"generate"},
         target : Targets, option : BOOLEAN, at : Nat \ {0}]

\* The type invariant; what works on one element has one to work on.
TypeOK ==
    /\ dir \in [Elements -> {"none", "clone", "tree", "holed", "rest"}]
    /\ patch \in [Elements -> {"no", "half", "applied", "committed"}]
    /\ out \in [Targets -> {"none", "half", "complete"}]
    /\ run \in Runs \cup {Idle}
    /\ run.phase \in {"clone", "patching", "commit", "deleting"} =>
           run.at <= Len(Parts[run.target])
    /\ outcome \in [Targets -> {"none", "skipped", "failed", "successful"}]
    /\ pristine \in SUBSET Targets

\* What is being cloned or deleted is not built from; what is being generated
\* has been started.
NotInUse ==
    /\ run.phase = "generate" => out[run.target] = "half"
    /\ run.phase = "clone" =>
           /\ dir[Element] = "clone"
           /\ Isolated(run.target) => out[run.target] = "none"
    /\ run.phase \in {"delete", "deleting"} => out[run.target] = "none"

\* There is no patch where there is no tree, or has not been one yet.
PatchInTree == \A e \in Elements : dir[e] \in {"none", "clone"} => patch[e] = "no"

\* Unless the update is skipped, deploy has a tree for each element before the
\* one it fetches, and for all of them when it patches.
Fetches(n) == \A k \in 1 .. n : k <= Len(Parts[run.target]) =>
                  dir[Parts[run.target][k]] \in {"tree", "holed"}

FetchedSoFar ==
    /\ run.phase \in {"fetch", "clone"} => ~run.option /\ Fetches(run.at - 1)
    /\ run.phase \in {"patch", "patching", "commit"} /\ ~run.option =>
           Fetches(Len(Parts[run.target]))

\* What deploy has patched stays patched; the patch under way is its own.
PatchedSoFar ==
    /\ run.phase \in {"patch", "patching", "commit"} =>
           \A k \in 1 .. run.at - 1 :
               k <= Len(Parts[run.target]) /\ Parts[run.target][k] \in Patched
               => patch[Parts[run.target][k]] \in {"applied", "committed"}
    /\ run.phase = "patching" => patch[Element] = "half"
    /\ run.phase = "commit" => patch[Element] = "applied"

\* No outcome is known while a deploy or a clean runs.
Undecided ==
    run.phase \in DeployPhases \cup CleanPhases => outcome[run.target] = "none"

\* What clean has deleted stays deleted until it ends.
VictimAt(k) ==
    LET parts == Parts[run.target]
    IN  IF k = Len(parts) THEN parts[1] ELSE parts[k + 1]

DeletedSoFar ==
    run.phase \in {"delete", "deleting"} =>
        \A k \in 1 .. run.at - 1 : k <= Len(Parts[run.target]) =>
            dir[VictimAt(k)] = "none"

\* Nothing has gone wrong since a pristine target was cleaned: a directory of
\* it is not there or complete, and no patch is half done, but for the one at
\* which the command under way is at work.
PristineSources ==
    \A t \in pristine : \A e \in PartsOf(t) :
        /\ \/ dir[e] \in {"none", "tree"}
           \/ run.phase = "clone" /\ e = Element
           \/ run.phase = "deleting" /\ e \in Gone
        /\ patch[e] = "half" => run.phase = "patching" /\ e = Element

Inv ==
    /\ TypeOK /\ NotInUse /\ PatchInTree
    /\ FetchedSoFar /\ PatchedSoFar /\ Undecided /\ DeletedSoFar
    /\ PristineSources /\ GeneratedHasSources /\ CleanRepairs

-----------------------------------------------------------------------------
(* The command under way                                                   *)

LEMMA RunFacts ==
    ASSUME TypeOK, run.phase # "idle"
    PROVE  /\ run \in Runs
           /\ run.target \in Targets
           /\ run.at \in Nat \ {0}
           /\ Parts[run.target] \in Seq(Elements)
           /\ Len(Parts[run.target]) \in Nat
           /\ DOMAIN Parts[run.target] = 1 .. Len(Parts[run.target])
<1>1. run \in Runs
  BY DEF TypeOK, Idle
<1>2. run.target \in Targets /\ run.at \in Nat \ {0}
  BY <1>1 DEF Runs
<1>3. Parts[run.target] \in Seq(Elements)
  BY <1>2, PartsAssumption
<1> QED
  BY <1>1, <1>2, <1>3

\* An element of the target is one of its directories.
LEMMA PartFacts ==
    ASSUME TypeOK, run.phase # "idle",
           NEW k \in Nat \ {0}, k <= Len(Parts[run.target])
    PROVE  /\ k \in DOMAIN Parts[run.target]
           /\ Parts[run.target][k] \in Elements
           /\ Parts[run.target][k] \in PartsOf(run.target)
<1>1. k \in DOMAIN Parts[run.target]
  BY RunFacts
<1>2. Parts[run.target][k] \in Elements
  BY <1>1, RunFacts
<1> QED
  BY <1>1, <1>2 DEF PartsOf

\* A step from one phase to another keeps the target and the option.
LEMMA EnterFacts ==
    ASSUME TypeOK, run.phase # "idle",
           NEW phase \in DeployPhases \cup CleanPhases, NEW k \in Nat \ {0},
           Enter(phase, k)
    PROVE  /\ run' \in Runs
           /\ run'.phase = phase /\ run'.at = k
           /\ run'.target = run.target /\ run'.option = run.option
BY RunFacts DEF Enter, Runs

\* The element at hand is one of the target's directories.
LEMMA ElementFacts ==
    ASSUME TypeOK, run.phase # "idle", run.at <= Len(Parts[run.target])
    PROVE  Element \in Elements /\ Element \in PartsOf(run.target)
BY RunFacts, PartFacts DEF Element

-----------------------------------------------------------------------------
(* Each action keeps the invariant                                         *)

\* Sources that are there stay while nothing new is generated.
LEMMA SourcesStay ==
    ASSUME GeneratedHasSources,
           \A t \in Targets : out'[t] # "none" => out[t] # "none",
           \A e \in Elements : dir'[e] = "none" => dir[e] = "none"
    PROVE  GeneratedHasSources'
<1> SUFFICES ASSUME NEW t \in Targets, Isolated(t), out'[t] # "none",
                    NEW e \in PartsOf(t)
             PROVE  dir'[e] # "none"
  BY DEF GeneratedHasSources, Isolated, PartsOf
<1>1. dir[e] # "none"
  BY DEF GeneratedHasSources
<1>2. e \in Elements
  BY PartsAssumption DEF PartsOf
<1> QED
  BY <1>1, <1>2

\* One more element has been fetched.
LEMMA FetchAdvances ==
    ASSUME Inv, run.phase \in {"fetch", "clone"}, run.at <= Len(Parts[run.target]),
           Enter("fetch", run.at + 1), dir'[Element] \in {"tree", "holed"},
           \A e \in Elements : dir[e] \in {"tree", "holed"} => dir'[e] = dir[e]
    PROVE  FetchedSoFar'
<1>1. /\ run'.phase = "fetch" /\ run'.at = run.at + 1
      /\ run'.target = run.target /\ run'.option = run.option
      /\ run.at \in Nat \ {0}
  BY RunFacts, EnterFacts DEF Inv, DeployPhases
<1>2. ASSUME NEW k \in 1 .. run.at, k <= Len(Parts[run.target])
      PROVE  dir'[Parts[run.target][k]] \in {"tree", "holed"}
  <2>1. Parts[run.target][k] \in Elements
    BY <1>1, <1>2, PartFacts DEF Inv
  <2>2. CASE k = run.at
    BY <2>2 DEF Element
  <2>3. CASE k \in 1 .. run.at - 1
    BY <1>2, <2>1, <2>3 DEF Inv, FetchedSoFar, Fetches
  <2> QED
    BY <1>1, <2>2, <2>3
<1> QED
  BY <1>1, <1>2 DEF Inv, FetchedSoFar, Fetches

LEMMA DeployKeeps ==
    ASSUME Inv, deploy
    PROVE  Inv'
<1>1. TypeOK' /\ NotInUse' /\ PatchInTree' /\ Undecided'
  BY DEF Inv, TypeOK, NotInUse, PatchInTree, Undecided, Runs, deploy, sourceVars,
         DeployPhases
<1>2. FetchedSoFar' /\ PatchedSoFar' /\ DeletedSoFar'
  BY DEF FetchedSoFar, PatchedSoFar, DeletedSoFar, Fetches, deploy
<1>3. PristineSources' /\ CleanRepairs'
  BY DEF Inv, PristineSources, CleanRepairs, deploy, sourceVars, Idle
<1>4. GeneratedHasSources'
  <2>1. /\ \A t \in Targets : out'[t] # "none" => out[t] # "none"
        /\ \A e \in Elements : dir'[e] = "none" => dir[e] = "none"
    BY DEF deploy, sourceVars
  <2> QED
    BY <2>1, SourcesStay DEF Inv
<1> QED
  BY <1>1, <1>2, <1>3, <1>4 DEF Inv

LEMMA CloneStartsKeeps ==
    ASSUME Inv, CloneStarts
    PROVE  Inv'
<1>1. TypeOK'
  BY RunFacts, EnterFacts DEF Inv, TypeOK, CloneStarts, At, DeployPhases
<1>2. PatchInTree' /\ Undecided'
  BY RunFacts, EnterFacts
     DEF Inv, PatchInTree, Undecided, CloneStarts, At, DeployPhases
<1>3. FetchedSoFar'
  BY RunFacts, EnterFacts
     DEF Inv, FetchedSoFar, Fetches, CloneStarts, At, DeployPhases
<1>4. PatchedSoFar'
  BY RunFacts, EnterFacts DEF Inv, PatchedSoFar, CloneStarts, At, DeployPhases
<1>5. DeletedSoFar'
  BY RunFacts, EnterFacts DEF Inv, DeletedSoFar, CloneStarts, At, DeployPhases
<1>6. PristineSources' /\ CleanRepairs'
  BY RunFacts, EnterFacts
     DEF Inv, PristineSources, CleanRepairs, Element, CloneStarts, At, DeployPhases
<1>7. NotInUse'
  <2>1. Isolated(run.target) => out[run.target] = "none"
    BY RunFacts, ElementFacts DEF Inv, GeneratedHasSources, CloneStarts, At
  <2>2. run'.phase = "clone" /\ run'.target = run.target /\ Element' = Element
    BY RunFacts, EnterFacts DEF Inv, CloneStarts, At, DeployPhases, Element
  <2>3. dir'[Element] = "clone" /\ out' = out
    BY ElementFacts DEF Inv, TypeOK, CloneStarts, At
  <2> QED
    BY <2>1, <2>2, <2>3 DEF NotInUse
<1>8. GeneratedHasSources'
  <2>1. /\ \A t \in Targets : out'[t] # "none" => out[t] # "none"
        /\ \A e \in Elements : dir'[e] = "none" => dir[e] = "none"
    BY DEF CloneStarts
  <2> QED
    BY <2>1, SourcesStay DEF Inv
<1> QED
  BY <1>1, <1>2, <1>3, <1>4, <1>5, <1>6, <1>7, <1>8 DEF Inv

LEMMA CloneEndsKeeps ==
    ASSUME Inv, CloneEnds
    PROVE  Inv'
<1>1. NotInUse' /\ Undecided'
  BY RunFacts, EnterFacts
     DEF Inv, NotInUse, Undecided, CloneEnds, GivesUp, Ends, Idle, DeployPhases,
         CleanPhases
<1>2. PatchedSoFar' /\ DeletedSoFar'
  BY RunFacts, EnterFacts
     DEF Inv, PatchedSoFar, DeletedSoFar, CloneEnds, GivesUp, Ends, Idle,
         DeployPhases
<1>3. PristineSources' /\ CleanRepairs'
  BY DEF Inv, PristineSources, CleanRepairs, CloneEnds, GivesUp
<1>4. TypeOK' /\ PatchInTree' /\ FetchedSoFar' /\ GeneratedHasSources'
  <2>0. /\ run.phase = "clone" /\ run.at <= Len(Parts[run.target])
        /\ dir[Element] = "clone" /\ Element \in Elements
    BY ElementFacts DEF Inv, TypeOK, NotInUse, CloneEnds
  <2>1. PICK result \in {"none", "tree"} : dir' = [dir EXCEPT ![Element] = result]
    BY DEF CloneEnds
  <2>2. CASE /\ Enter("fetch", run.at + 1) /\ dir'[Element] = "tree"
             /\ UNCHANGED <<outcome, pristine>>
    <3>1. dir' = [dir EXCEPT ![Element] = "tree"] /\ UNCHANGED <<patch, out>>
      BY <2>2 DEF CloneEnds
    <3>2. /\ run' \in Runs /\ run'.phase = "fetch" /\ run'.at = run.at + 1
          /\ run'.target = run.target /\ run'.option = run.option
          /\ run.at \in Nat \ {0}
      BY <2>0, <2>2, RunFacts, EnterFacts DEF Inv, DeployPhases
    <3>3. TypeOK'
      BY <2>2, <3>1, <3>2 DEF Inv, TypeOK
    <3>4. PatchInTree'
      BY <3>1 DEF Inv, PatchInTree
    <3>5. FetchedSoFar'
      BY <2>0, <2>2, <3>1, FetchAdvances
    <3>6. GeneratedHasSources'
      BY <3>1, SourcesStay DEF Inv
    <3> QED
      BY <3>3, <3>4, <3>5, <3>6
  <2>3. CASE GivesUp
    <3>1. /\ run' = Idle /\ pristine' = {} /\ UNCHANGED <<patch, out>>
          /\ outcome' = [outcome EXCEPT ![run.target] = Failure]
      BY <2>3 DEF GivesUp, Ends, CloneEnds
    <3>2. TypeOK'
      BY <2>1, <3>1 DEF Inv, TypeOK, Failure, Idle
    <3>3. PatchInTree'
      BY <2>0, <2>1, <3>1 DEF Inv, PatchInTree
    <3>4. FetchedSoFar'
      BY <3>1 DEF FetchedSoFar, Idle
    <3>5. GeneratedHasSources'
      <4> SUFFICES ASSUME NEW t \in Targets, Isolated(t), out'[t] # "none",
                          NEW e \in PartsOf(t)
                   PROVE  dir'[e] # "none"
        BY DEF GeneratedHasSources, Isolated, PartsOf
      <4>1. dir[e] # "none" /\ e \in Elements /\ out[t] # "none"
        BY <3>1, PartsAssumption DEF Inv, GeneratedHasSources, PartsOf
      <4>2. t # run.target
        BY <2>0, <3>1 DEF Inv, NotInUse
      <4>3. e # Element
        BY <2>0, <4>2, RunFacts, ElementFacts DEF Isolated, Inv
      <4> QED
        BY <2>1, <4>1, <4>3
    <3> QED
      BY <3>2, <3>3, <3>4, <3>5
  <2> QED
    BY <2>2, <2>3 DEF CloneEnds
<1> QED
  BY <1>1, <1>2, <1>3, <1>4 DEF Inv

LEMMA UpdateKeeps ==
    ASSUME Inv, Update
    PROVE  Inv'
<1>1. NotInUse' /\ PatchInTree' /\ Undecided'
  BY RunFacts, EnterFacts
     DEF Inv, NotInUse, PatchInTree, Undecided, Update, At, Advance, DeployPhases,
         CleanPhases
<1>2. PatchedSoFar' /\ DeletedSoFar'
  BY RunFacts, EnterFacts
     DEF Inv, PatchedSoFar, DeletedSoFar, Update, At, Advance, DeployPhases,
         CleanPhases
<1>3. PristineSources' /\ CleanRepairs'
  BY DEF Inv, PristineSources, CleanRepairs, Update, At
<1>4. TypeOK' /\ FetchedSoFar'
  <2>0. /\ run.phase = "fetch" /\ run.at <= Len(Parts[run.target])
        /\ Element \in Elements
        /\ Enter("fetch", run.at + 1)
    BY ElementFacts DEF Inv, Update, At, Advance
  <2>1. /\ dir'[Element] \in {"tree", "holed"}
        /\ \A e \in Elements : dir[e] \in {"tree", "holed"} => dir'[e] = dir[e]
    BY <2>0 DEF Inv, TypeOK, Update
  <2>2. TypeOK'
    BY <2>0, EnterFacts, RunFacts DEF Inv, TypeOK, Update, DeployPhases
  <2>3. FetchedSoFar'
    BY <2>0, <2>1, FetchAdvances
  <2> QED
    BY <2>2, <2>3
<1>5. GeneratedHasSources'
  <2>1. /\ \A t \in Targets : out'[t] # "none" => out[t] # "none"
        /\ \A e \in Elements : dir'[e] = "none" => dir[e] = "none"
    BY DEF Update
  <2> QED
    BY <2>1, SourcesStay DEF Inv
<1> QED
  BY <1>1, <1>2, <1>3, <1>4, <1>5 DEF Inv

LEMMA FetchFailsKeeps ==
    ASSUME Inv, FetchFails
    PROVE  Inv'
<1>1. TypeOK' /\ NotInUse' /\ PatchInTree' /\ Undecided'
  BY DEF Inv, TypeOK, NotInUse, PatchInTree, Undecided, FetchFails, Ends, Failure,
         Idle, sourceVars, DeployPhases, CleanPhases
<1>2. FetchedSoFar' /\ PatchedSoFar' /\ DeletedSoFar'
  BY DEF FetchedSoFar, PatchedSoFar, DeletedSoFar, FetchFails, Ends, Idle
<1>3. PristineSources'
  BY DEF Inv, PristineSources, FetchFails, At, sourceVars
<1>4. CleanRepairs'
  <2>0. /\ run.phase = "fetch" /\ run.at <= Len(Parts[run.target])
        /\ run.target \in Targets
        /\ Element \in PartsOf(run.target)
    BY RunFacts, ElementFacts DEF Inv, FetchFails, At
  <2>1. run.target \notin pristine' /\ pristine' \subseteq pristine
    BY <2>0 DEF Inv, PristineSources, FetchFails
  <2>2. \A t \in Targets \ {run.target} : outcome'[t] = outcome[t]
    BY DEF FetchFails, Ends
  <2> QED
    BY <2>1, <2>2 DEF Inv, TypeOK, CleanRepairs
<1>5. GeneratedHasSources'
  <2>1. /\ \A t \in Targets : out'[t] # "none" => out[t] # "none"
        /\ \A e \in Elements : dir'[e] = "none" => dir[e] = "none"
    BY DEF FetchFails, sourceVars
  <2> QED
    BY <2>1, SourcesStay DEF Inv
<1> QED
  BY <1>1, <1>2, <1>3, <1>4, <1>5 DEF Inv

LEMMA FetchedKeeps ==
    ASSUME Inv, Fetched
    PROVE  Inv'
<1>1. TypeOK' /\ NotInUse' /\ PatchInTree' /\ Undecided'
  BY EnterFacts
     DEF Inv, TypeOK, NotInUse, PatchInTree, Undecided, Fetched, Over, sourceVars,
         DeployPhases
<1>2. FetchedSoFar' /\ PatchedSoFar' /\ DeletedSoFar'
  BY RunFacts, EnterFacts
     DEF Inv, FetchedSoFar, PatchedSoFar, DeletedSoFar, Fetches, Fetched, Over,
         sourceVars, DeployPhases
<1>3. PristineSources' /\ CleanRepairs'
  BY DEF Inv, PristineSources, CleanRepairs, Fetched, Over, sourceVars
<1>4. GeneratedHasSources'
  <2>1. /\ \A t \in Targets : out'[t] # "none" => out[t] # "none"
        /\ \A e \in Elements : dir'[e] = "none" => dir[e] = "none"
    BY DEF Fetched, sourceVars
  <2> QED
    BY <2>1, SourcesStay DEF Inv
<1> QED
  BY <1>1, <1>2, <1>3, <1>4 DEF Inv

LEMMA NothingToPatchKeeps ==
    ASSUME Inv, NothingToPatch
    PROVE  Inv'
<1>1. TypeOK' /\ NotInUse'
  BY RunFacts, EnterFacts
     DEF Inv, TypeOK, NotInUse, NothingToPatch, At, Advance, sourceVars,
         DeployPhases
<1>2. PatchInTree' /\ Undecided'
  BY RunFacts, EnterFacts
     DEF Inv, PatchInTree, Undecided, NothingToPatch, At, Advance, sourceVars,
         DeployPhases
<1>3. FetchedSoFar'
  BY RunFacts, EnterFacts
     DEF Inv, FetchedSoFar, Fetches, NothingToPatch, At, Advance, sourceVars,
         DeployPhases
<1>4. PatchedSoFar'
  BY RunFacts, EnterFacts
     DEF Inv, TypeOK, PatchedSoFar, Element, NothingToPatch, At, Advance,
         sourceVars, DeployPhases
<1>5. DeletedSoFar'
  BY RunFacts, EnterFacts
     DEF Inv, DeletedSoFar, NothingToPatch, At, Advance, DeployPhases
<1>6. PristineSources' /\ CleanRepairs'
  BY DEF Inv, PristineSources, CleanRepairs, NothingToPatch, At, sourceVars
<1>7. GeneratedHasSources'
  <2>1. /\ \A t \in Targets : out'[t] # "none" => out[t] # "none"
        /\ \A e \in Elements : dir'[e] = "none" => dir[e] = "none"
    BY DEF NothingToPatch, sourceVars
  <2> QED
    BY <2>1, SourcesStay DEF Inv
<1> QED
  BY <1>1, <1>2, <1>3, <1>4, <1>5, <1>6, <1>7 DEF Inv

LEMMA PatchStartsKeeps ==
    ASSUME Inv, PatchStarts
    PROVE  Inv'
<1>1. TypeOK' /\ NotInUse' /\ Undecided'
  BY RunFacts, EnterFacts
     DEF Inv, TypeOK, NotInUse, Undecided, Element, PatchStarts, At, DeployPhases
<1>2. FetchedSoFar' /\ PatchedSoFar' /\ DeletedSoFar'
  BY RunFacts, EnterFacts, PartsAssumption
     DEF Inv, TypeOK, FetchedSoFar, PatchedSoFar, DeletedSoFar, Element, Fetches,
         PatchStarts, At, DeployPhases
<1>3. PristineSources' /\ CleanRepairs'
  BY RunFacts, EnterFacts
     DEF Inv, PristineSources, CleanRepairs, Element, PatchStarts, At, DeployPhases
<1>4. PatchInTree'
  <2>1. run.phase = "patch" /\ Element \in Elements /\ dir[Element] \in {"tree", "holed"}
    BY ElementFacts DEF Inv, PatchStarts, At, Needed
  <2> QED
    BY <2>1 DEF Inv, PatchStarts, PatchInTree
<1>5. GeneratedHasSources'
  <2>1. /\ \A t \in Targets : out'[t] # "none" => out[t] # "none"
        /\ \A e \in Elements : dir'[e] = "none" => dir[e] = "none"
    BY DEF PatchStarts
  <2> QED
    BY <2>1, SourcesStay DEF Inv
<1> QED
  BY <1>1, <1>2, <1>3, <1>4, <1>5 DEF Inv

LEMMA PatchAbortsKeeps ==
    ASSUME Inv, PatchAborts
    PROVE  Inv'
<1>1. TypeOK' /\ NotInUse' /\ PatchInTree' /\ Undecided'
  BY DEF Inv, TypeOK, NotInUse, PatchInTree, Undecided, PatchAborts, Ends, Failure,
         Idle, sourceVars, DeployPhases, CleanPhases
<1>2. FetchedSoFar' /\ PatchedSoFar' /\ DeletedSoFar'
  BY DEF FetchedSoFar, PatchedSoFar, DeletedSoFar, PatchAborts, Ends, Idle
<1>3. PristineSources'
  BY DEF Inv, PristineSources, PatchAborts, At, sourceVars
<1>4. CleanRepairs'
  <2>0. /\ run.phase = "patch" /\ run.at <= Len(Parts[run.target])
        /\ run.target \in Targets
    BY RunFacts DEF Inv, PatchAborts, At
  <2>1. ASSUME ~run.option, run.target \in pristine PROVE FALSE
    <3>1. Needed \subseteq PartsOf(run.target)
      <4>1. ASSUME NEW e \in Within(Element)
            PROVE  e \in PartsOf(run.target)
        <5>1. PICK j \in 1 .. run.at - 1 : Parts[run.target][j] = e
          BY <2>0, NestingAssumption, RunFacts, PartFacts DEF Inv, Element
        <5> QED
          BY <2>0, <5>1, RunFacts, PartFacts DEF Inv
      <4> QED
        BY <2>0, <4>1, ElementFacts DEF Inv, Needed
    <3>2. \A e \in PartsOf(run.target) : dir[e] = "tree"
      <4> SUFFICES ASSUME NEW e \in PartsOf(run.target)
                   PROVE  dir[e] = "tree"
        OBVIOUS
      <4>1. PICK k \in DOMAIN Parts[run.target] : e = Parts[run.target][k]
        BY DEF PartsOf
      <4>2. dir[e] \in {"tree", "holed"}
        BY <2>0, <2>1, <4>1 DEF Inv, FetchedSoFar, Fetches
      <4> QED
        BY <2>0, <2>1, <4>2 DEF Inv, PristineSources
    <3>3. patch[Element] # "half"
      BY <2>0, <2>1, ElementFacts DEF Inv, PristineSources
    <3> QED
      BY <3>1, <3>2, <3>3 DEF PatchAborts
  <2> QED
    BY <2>1 DEF Inv, CleanRepairs, PatchAborts, Ends, Failure
<1>5. GeneratedHasSources'
  <2>1. /\ \A t \in Targets : out'[t] # "none" => out[t] # "none"
        /\ \A e \in Elements : dir'[e] = "none" => dir[e] = "none"
    BY DEF PatchAborts, sourceVars
  <2> QED
    BY <2>1, SourcesStay DEF Inv
<1> QED
  BY <1>1, <1>2, <1>3, <1>4, <1>5 DEF Inv

LEMMA PatchEndsKeeps ==
    ASSUME Inv, PatchEnds
    PROVE  Inv'
<1>1. NotInUse' /\ Undecided'
  BY RunFacts, EnterFacts
     DEF Inv, NotInUse, Undecided, PatchEnds, GivesUp, Ends, Idle, DeployPhases,
         CleanPhases
<1>2. FetchedSoFar' /\ DeletedSoFar'
  <2>1. FetchedSoFar'
    BY RunFacts, EnterFacts
       DEF Inv, PatchEnds, GivesUp, Ends, Idle, DeployPhases, FetchedSoFar, Fetches
  <2>2. DeletedSoFar'
    BY RunFacts, EnterFacts
       DEF Inv, PatchEnds, GivesUp, Ends, Idle, DeployPhases, DeletedSoFar
  <2> QED
    BY <2>1, <2>2
<1>3. PristineSources' /\ CleanRepairs'
  BY PartsAssumption
     DEF Inv, TypeOK, PristineSources, CleanRepairs, PartsOf, PatchEnds, GivesUp
<1>4. TypeOK' /\ PatchInTree' /\ PatchedSoFar'
  <2>0. /\ run.phase = "patching" /\ run.at <= Len(Parts[run.target])
        /\ patch[Element] = "half" /\ Element \in Elements
        /\ run.target \in Targets /\ run.at \in Nat \ {0}
    BY ElementFacts, RunFacts DEF Inv, TypeOK, PatchedSoFar, PatchEnds
  <2>1. CASE GivesUp /\ UNCHANGED patch
    BY <2>1
       DEF GivesUp, Ends, Inv, TypeOK, PatchInTree, PatchedSoFar, Failure, Idle,
           PatchEnds
  <2>2. CASE /\ patch' = [patch EXCEPT ![Element] = "applied"]
             /\ Enter("commit", run.at)
             /\ UNCHANGED <<outcome, pristine>>
    <3>1. /\ run' \in Runs /\ run'.phase = "commit" /\ run'.at = run.at
          /\ run'.target = run.target
      BY <2>0, <2>2, EnterFacts DEF Inv, DeployPhases
    <3>2. TypeOK' /\ PatchInTree'
      BY <2>0, <2>2, <3>1 DEF Inv, TypeOK, PatchInTree, PatchEnds
    <3>3. /\ Element' = Element
          /\ \A e \in Elements :
                 patch[e] \in {"applied", "committed"} => patch'[e] = patch[e]
      BY <2>0, <2>2, <3>1 DEF Element
    <3>4. patch'[Element] = "applied"
      BY <2>0, <2>2 DEF Inv, TypeOK
    <3>5. PatchedSoFar'
      BY <2>0, <3>1, <3>3, <3>4, PartFacts DEF Inv, PatchedSoFar
    <3> QED
      BY <3>2, <3>5
  <2> QED
    BY <2>1, <2>2 DEF PatchEnds
<1>5. GeneratedHasSources'
  <2>1. /\ \A t \in Targets : out'[t] # "none" => out[t] # "none"
        /\ \A e \in Elements : dir'[e] = "none" => dir[e] = "none"
    BY DEF PatchEnds
  <2> QED
    BY <2>1, SourcesStay DEF Inv
<1> QED
  BY <1>1, <1>2, <1>3, <1>4, <1>5 DEF Inv

LEMMA CommitKeeps ==
    ASSUME Inv, Commit
    PROVE  Inv'
<1>1. NotInUse' /\ Undecided'
  BY RunFacts, EnterFacts
     DEF Inv, NotInUse, Undecided, Commit, GivesUp, Ends, Idle, DeployPhases,
         CleanPhases
<1>2. FetchedSoFar' /\ DeletedSoFar'
  <2>1. FetchedSoFar'
    BY RunFacts, EnterFacts
       DEF Inv, Commit, GivesUp, Ends, Idle, DeployPhases, FetchedSoFar, Fetches
  <2>2. DeletedSoFar'
    BY RunFacts, EnterFacts
       DEF Inv, Commit, GivesUp, Ends, Idle, DeployPhases, DeletedSoFar
  <2> QED
    BY <2>1, <2>2
<1>3. PristineSources' /\ CleanRepairs'
  BY PartsAssumption
     DEF Inv, TypeOK, PristineSources, CleanRepairs, PartsOf, Commit, GivesUp
<1>4. TypeOK' /\ PatchInTree' /\ PatchedSoFar'
  <2>0. /\ run.phase = "commit" /\ run.at <= Len(Parts[run.target])
        /\ patch[Element] = "applied" /\ Element \in Elements
        /\ run.target \in Targets /\ run.at \in Nat \ {0}
    BY ElementFacts, RunFacts DEF Inv, TypeOK, PatchedSoFar, Commit
  <2>1. CASE GivesUp /\ UNCHANGED patch
    BY <2>1
       DEF GivesUp, Ends, Inv, TypeOK, PatchInTree, Failure, Idle, Commit,
           PatchedSoFar
  <2>2. CASE /\ patch' = [patch EXCEPT ![Element] = "committed"]
             /\ Enter("patch", run.at + 1)
             /\ UNCHANGED <<outcome, pristine>>
    <3>0. /\ run' \in Runs /\ run'.phase = "patch" /\ run'.at = run.at + 1
          /\ run'.target = run.target
      BY <2>0, <2>2, EnterFacts DEF Inv, DeployPhases
    <3>1. TypeOK' /\ PatchInTree'
      BY <2>0, <2>2, <3>0 DEF Inv, TypeOK, PatchInTree, Commit
    <3>2. ASSUME NEW k \in 1 .. run.at, k <= Len(Parts[run.target]),
                 Parts[run.target][k] \in Patched
          PROVE  patch'[Parts[run.target][k]] \in {"applied", "committed"}
      <4>1. Parts[run.target][k] \in Elements
        BY <2>0, <3>2, PartFacts DEF Inv
      <4>2. CASE k = run.at
        BY <2>0, <2>2, <4>2 DEF Element
      <4>3. CASE k \in 1 .. run.at - 1
        BY <2>0, <2>2, <3>2, <4>3 DEF Inv, PatchedSoFar
      <4> QED
        BY <2>0, <4>2, <4>3
    <3> QED
      BY <2>0, <3>0, <3>1, <3>2 DEF PatchedSoFar
  <2> QED
    BY <2>1, <2>2 DEF Commit
<1>5. GeneratedHasSources'
  <2>1. /\ \A t \in Targets : out'[t] # "none" => out[t] # "none"
        /\ \A e \in Elements : dir'[e] = "none" => dir[e] = "none"
    BY DEF Commit
  <2> QED
    BY <2>1, SourcesStay DEF Inv
<1> QED
  BY <1>1, <1>2, <1>3, <1>4, <1>5 DEF Inv

LEMMA DeployedKeeps ==
    ASSUME Inv, Deployed
    PROVE  Inv'
<1>1. TypeOK' /\ NotInUse' /\ PatchInTree' /\ Undecided'
  BY DEF Inv, TypeOK, NotInUse, PatchInTree, Undecided, Deployed, Ends, Idle,
         sourceVars, DeployPhases, CleanPhases
<1>2. FetchedSoFar' /\ PatchedSoFar' /\ DeletedSoFar'
  BY DEF FetchedSoFar, PatchedSoFar, DeletedSoFar, Deployed, Ends, Idle
<1>3. PristineSources' /\ CleanRepairs'
  BY DEF Inv, PristineSources, CleanRepairs, Deployed, Over, Ends, sourceVars
<1>4. GeneratedHasSources'
  <2>1. /\ \A t \in Targets : out'[t] # "none" => out[t] # "none"
        /\ \A e \in Elements : dir'[e] = "none" => dir[e] = "none"
    BY DEF Deployed, sourceVars
  <2> QED
    BY <2>1, SourcesStay DEF Inv
<1> QED
  BY <1>1, <1>2, <1>3, <1>4 DEF Inv

LEMMA GenerateKeeps ==
    ASSUME Inv, generate
    PROVE  Inv'
<1>1. TypeOK' /\ NotInUse' /\ PatchInTree' /\ Undecided'
  BY DEF Inv, TypeOK, NotInUse, PatchInTree, Undecided, Runs, generate, sourceVars,
         DeployPhases, CleanPhases
<1>2. FetchedSoFar' /\ PatchedSoFar' /\ DeletedSoFar'
  BY DEF FetchedSoFar, PatchedSoFar, DeletedSoFar, generate
<1>3. PristineSources' /\ CleanRepairs'
  BY DEF Inv, PristineSources, CleanRepairs, generate, sourceVars, Idle
<1>4. GeneratedHasSources'
  <2> SUFFICES ASSUME NEW t \in Targets, Isolated(t), out'[t] # "none",
                      NEW e \in PartsOf(t)
               PROVE  dir'[e] # "none"
    BY DEF GeneratedHasSources, Isolated, PartsOf
  <2> QED
    BY DEF Inv, GeneratedHasSources, generate, sourceVars
<1> QED
  BY <1>1, <1>2, <1>3, <1>4 DEF Inv

LEMMA GeneratedKeeps ==
    ASSUME Inv, Generated
    PROVE  Inv'
<1>1. TypeOK' /\ NotInUse' /\ PatchInTree' /\ Undecided'
  BY DEF Inv, TypeOK, NotInUse, PatchInTree, Undecided, Generated, Idle, sourceVars,
         DeployPhases, CleanPhases
<1>2. FetchedSoFar' /\ PatchedSoFar' /\ DeletedSoFar'
  BY DEF FetchedSoFar, PatchedSoFar, DeletedSoFar, Generated, Idle
<1>3. PristineSources' /\ CleanRepairs'
  BY DEF Inv, PristineSources, CleanRepairs, Generated, sourceVars
<1>4. GeneratedHasSources'
  <2>1. /\ \A t \in Targets : out'[t] # "none" => out[t] # "none"
        /\ \A e \in Elements : dir'[e] = "none" => dir[e] = "none"
    BY DEF Inv, NotInUse, Generated, sourceVars
  <2> QED
    BY <2>1, SourcesStay DEF Inv
<1> QED
  BY <1>1, <1>2, <1>3, <1>4 DEF Inv

LEMMA CleanKeeps ==
    ASSUME Inv, clean
    PROVE  Inv'
<1>1. TypeOK' /\ NotInUse' /\ PatchInTree' /\ Undecided'
  BY DEF Inv, TypeOK, NotInUse, PatchInTree, Undecided, Runs, clean, sourceVars,
         CleanPhases
<1>2. FetchedSoFar' /\ PatchedSoFar' /\ DeletedSoFar'
  BY DEF FetchedSoFar, PatchedSoFar, DeletedSoFar, clean
<1>3. PristineSources' /\ CleanRepairs'
  BY DEF Inv, PristineSources, CleanRepairs, clean, sourceVars, Idle
<1>4. GeneratedHasSources'
  <2>1. /\ \A t \in Targets : out'[t] # "none" => out[t] # "none"
        /\ \A e \in Elements : dir'[e] = "none" => dir[e] = "none"
    BY DEF clean, sourceVars
  <2> QED
    BY <2>1, SourcesStay DEF Inv
<1> QED
  BY <1>1, <1>2, <1>3, <1>4 DEF Inv

LEMMA OutDeletedKeeps ==
    ASSUME Inv, OutDeleted
    PROVE  Inv'
<1>1. TypeOK' /\ NotInUse' /\ PatchInTree' /\ Undecided'
  BY EnterFacts
     DEF Inv, TypeOK, NotInUse, PatchInTree, Undecided, Runs, OutDeleted, Idle,
         sourceVars, DeployPhases, CleanPhases
<1>2. FetchedSoFar' /\ PatchedSoFar' /\ DeletedSoFar'
  BY EnterFacts
     DEF Inv, FetchedSoFar, PatchedSoFar, DeletedSoFar, OutDeleted, Idle,
         DeployPhases, CleanPhases
<1>3. PristineSources' /\ CleanRepairs'
  BY DEF Inv, PristineSources, CleanRepairs, OutDeleted, sourceVars
<1>4. GeneratedHasSources'
  <2>1. /\ \A t \in Targets : out'[t] # "none" => out[t] # "none"
        /\ \A e \in Elements : dir'[e] = "none" => dir[e] = "none"
    BY DEF OutDeleted, sourceVars
  <2> QED
    BY <2>1, SourcesStay DEF Inv
<1> QED
  BY <1>1, <1>2, <1>3, <1>4 DEF Inv

LEMMA DeleteStartsKeeps ==
    ASSUME Inv, DeleteStarts
    PROVE  Inv'
<1>1. TypeOK' /\ NotInUse' /\ PatchInTree' /\ Undecided'
  BY RunFacts, EnterFacts
     DEF Inv, TypeOK, NotInUse, PatchInTree, Undecided, DeleteStarts, At,
         DeployPhases, CleanPhases
<1>2. FetchedSoFar' /\ PatchedSoFar' /\ DeletedSoFar'
  BY RunFacts, EnterFacts
     DEF Inv, FetchedSoFar, PatchedSoFar, DeletedSoFar, VictimAt, DeleteStarts, At,
         DeployPhases, CleanPhases
<1>3. PristineSources' /\ CleanRepairs'
  BY RunFacts, PartFacts, EnterFacts, PartsAssumption
     DEF Inv, TypeOK, PristineSources, CleanRepairs, Element, Gone, PartsOf, Victim,
         DeleteStarts, At, DeployPhases, CleanPhases
<1>4. GeneratedHasSources'
  <2>1. /\ \A t \in Targets : out'[t] # "none" => out[t] # "none"
        /\ \A e \in Elements : dir'[e] = "none" => dir[e] = "none"
    BY DEF DeleteStarts
  <2> QED
    BY <2>1, SourcesStay DEF Inv
<1> QED
  BY <1>1, <1>2, <1>3, <1>4 DEF Inv

LEMMA DeleteEndsKeeps ==
    ASSUME Inv, DeleteEnds
    PROVE  Inv'
<1>1. TypeOK' /\ NotInUse' /\ PatchInTree' /\ Undecided'
  BY RunFacts, EnterFacts
     DEF Inv, TypeOK, NotInUse, PatchInTree, Undecided, DeleteEnds, DeployPhases,
         CleanPhases
<1>2. FetchedSoFar' /\ PatchedSoFar'
  BY RunFacts, EnterFacts
     DEF Inv, FetchedSoFar, PatchedSoFar, DeleteEnds, DeployPhases, CleanPhases
<1>3. PristineSources' /\ CleanRepairs'
  BY PartsAssumption
     DEF Inv, TypeOK, PristineSources, CleanRepairs, PartsOf, DeleteEnds
<1>4. DeletedSoFar' /\ GeneratedHasSources'
  <2>0. /\ run.phase = "deleting" /\ run.at <= Len(Parts[run.target])
        /\ run.target \in Targets /\ run.at \in Nat \ {0}
        /\ out[run.target] = "none"
    BY RunFacts DEF Inv, TypeOK, NotInUse, DeleteEnds
  <2>1. /\ run'.phase = "delete" /\ run'.at = run.at + 1 /\ run'.target = run.target
    <3>1. run.at + 1 \in Nat \ {0}
      BY <2>0
    <3>2. Enter("delete", run.at + 1)
      BY DEF DeleteEnds
    <3> QED
      BY <2>0, <3>1, <3>2, EnterFacts DEF Inv, CleanPhases
  <2>2. ASSUME NEW k \in 1 .. Len(Parts[run.target])
        PROVE  VictimAt(k) \in PartsOf(run.target) /\ VictimAt(k) \in Elements
    BY <2>0, PartFacts DEF Inv, VictimAt
  <2>3. Victim = VictimAt(run.at)
    BY DEF Victim, VictimAt
  <2>4. DeletedSoFar'
    <3>1. ASSUME NEW k \in 1 .. run.at, k <= Len(Parts[run.target])
          PROVE  dir'[VictimAt(k)] = "none"
      <4>1. VictimAt(k) \in Elements
        <5>1. k \in 1 .. Len(Parts[run.target])
          BY <2>0, <3>1, RunFacts DEF Inv
        <5> QED
          BY <2>2, <5>1
      <4>2. CASE k = run.at
        BY <2>3, <4>1, <4>2 DEF DeleteEnds, Gone
      <4>3. CASE k \in 1 .. run.at - 1
        BY <3>1, <4>1, <4>3 DEF DeleteEnds, Inv, DeletedSoFar
      <4> QED
        BY <2>0, <4>2, <4>3
    <3>2. \A k : VictimAt(k)' = VictimAt(k)
      BY <2>1 DEF VictimAt
    <3> QED
      BY <2>0, <2>1, <3>1, <3>2 DEF DeletedSoFar
  <2>5. GeneratedHasSources'
    <3> SUFFICES ASSUME NEW t \in Targets, Isolated(t), out'[t] # "none",
                        NEW e \in PartsOf(t)
                 PROVE  dir'[e] # "none"
      BY DEF GeneratedHasSources, Isolated, PartsOf
    <3>1. /\ dir[e] # "none" /\ e \in Elements /\ t # run.target
      BY <2>0, PartsAssumption DEF Inv, GeneratedHasSources, PartsOf, DeleteEnds
    <3>2. Victim \notin PartsOf(t)
      BY <2>0, <2>2, <2>3, <3>1 DEF Isolated
    <3>3. e \notin Gone
      <4>1. PICK k \in DOMAIN Parts[t] : e = Parts[t][k]
        BY DEF PartsOf
      <4>2. ASSUME NEW w \in Within(e) PROVE w \in PartsOf(t)
        <5>1. PICK j \in 1 .. k - 1 : Parts[t][j] = w
          BY <4>1, NestingAssumption
        <5>2. Parts[t] \in Seq(Elements)
          BY PartsAssumption
        <5>3. j \in DOMAIN Parts[t]
          BY <4>1, <5>1, <5>2
        <5> QED
          BY <5>1, <5>3 DEF PartsOf
      <4> QED
        BY <3>2, <4>2 DEF Gone
    <3> QED
      BY <3>1, <3>3 DEF DeleteEnds
  <2> QED
    BY <2>4, <2>5
<1> QED
  BY <1>1, <1>2, <1>3, <1>4 DEF Inv

LEMMA CleanedKeeps ==
    ASSUME Inv, Cleaned
    PROVE  Inv'
<1>1. TypeOK' /\ NotInUse' /\ PatchInTree' /\ Undecided'
  BY DEF Inv, TypeOK, NotInUse, PatchInTree, Undecided, Runs, Cleaned, Over, Idle,
         sourceVars, DeployPhases, CleanPhases
<1>2. FetchedSoFar' /\ PatchedSoFar' /\ DeletedSoFar'
  BY DEF FetchedSoFar, PatchedSoFar, DeletedSoFar, Cleaned, Idle
<1>3. PristineSources' /\ CleanRepairs'
  <2>0. /\ run.phase = "delete" /\ run.at > Len(Parts[run.target])
        /\ run.target \in Targets /\ run.at \in Nat \ {0}
        /\ Len(Parts[run.target]) \in Nat
    BY RunFacts DEF Inv, Cleaned, Over
  <2>1. ASSUME NEW e \in PartsOf(run.target)
        PROVE  dir[e] = "none" /\ patch[e] = "no"
    <3>1. PICK k \in 1 .. Len(Parts[run.target]) : e = Parts[run.target][k]
      BY <2>0, RunFacts DEF Inv, PartsOf
    <3>2. PICK j \in 1 .. Len(Parts[run.target]) : VictimAt(j) = e
      <4>1. CASE k = 1
        BY <2>0, <3>1, <4>1 DEF VictimAt
      <4>2. CASE k # 1
        <5>1. k - 1 \in 1 .. Len(Parts[run.target]) /\ k - 1 # Len(Parts[run.target])
          BY <2>0, <3>1, <4>2
        <5>2. (k - 1) + 1 = k
          BY <2>0, <3>1
        <5> QED
          BY <3>1, <5>1, <5>2 DEF VictimAt
      <4> QED
        BY <4>1, <4>2
    <3>3. e \in Elements
      BY <2>0, <3>1, PartFacts DEF Inv
    <3> QED
      BY <2>0, <3>2, <3>3 DEF Inv, DeletedSoFar, PatchInTree
  <2>2. PristineSources'
    BY <2>0, <2>1 DEF Inv, PristineSources, Cleaned, sourceVars
  <2>3. CleanRepairs'
    BY <2>0 DEF Inv, CleanRepairs, Undecided, Cleaned, CleanPhases
  <2> QED
    BY <2>2, <2>3
<1>4. GeneratedHasSources'
  <2>1. /\ \A t \in Targets : out'[t] # "none" => out[t] # "none"
        /\ \A e \in Elements : dir'[e] = "none" => dir[e] = "none"
    BY DEF Cleaned, sourceVars
  <2> QED
    BY <2>1, SourcesStay DEF Inv
<1> QED
  BY <1>1, <1>2, <1>3, <1>4 DEF Inv

LEMMA InterruptKeeps ==
    ASSUME Inv, Interrupt
    PROVE  Inv'
<1>1. TypeOK' /\ NotInUse' /\ PatchInTree' /\ Undecided'
  BY DEF Inv, TypeOK, NotInUse, PatchInTree, Undecided, Interrupt, Idle, sourceVars,
         DeployPhases, CleanPhases
<1>2. FetchedSoFar' /\ PatchedSoFar' /\ DeletedSoFar'
  BY DEF FetchedSoFar, PatchedSoFar, DeletedSoFar, Interrupt, Idle
<1>3. PristineSources' /\ CleanRepairs'
  BY DEF PristineSources, CleanRepairs, Interrupt
<1>4. GeneratedHasSources'
  <2>1. /\ \A t \in Targets : out'[t] # "none" => out[t] # "none"
        /\ \A e \in Elements : dir'[e] = "none" => dir[e] = "none"
    BY DEF Interrupt, sourceVars
  <2> QED
    BY <2>1, SourcesStay DEF Inv
<1> QED
  BY <1>1, <1>2, <1>3, <1>4 DEF Inv

-----------------------------------------------------------------------------
(* The results                                                             *)

LEMMA Initially == Init => Inv
<1> SUFFICES ASSUME Init
             PROVE  Inv
  OBVIOUS
<1>1. TypeOK /\ NotInUse /\ PatchInTree /\ Undecided
  BY DEF Init, Idle, TypeOK, NotInUse, PatchInTree, Undecided, DeployPhases,
         CleanPhases
<1>2. FetchedSoFar /\ PatchedSoFar /\ DeletedSoFar
  BY DEF Init, Idle, FetchedSoFar, PatchedSoFar, DeletedSoFar
<1>3. PristineSources /\ GeneratedHasSources /\ CleanRepairs
  BY DEF Init, PristineSources, GeneratedHasSources, CleanRepairs
<1> QED
  BY <1>1, <1>2, <1>3 DEF Inv

LEMMA StutterKeeps == Inv /\ UNCHANGED vars => Inv'
BY DEF vars, Inv, TypeOK, NotInUse, PatchInTree, FetchedSoFar, Fetches,
       PatchedSoFar, Undecided, DeletedSoFar, VictimAt, PristineSources, Gone,
       Victim, Element, GeneratedHasSources, CleanRepairs

LEMMA Invariance == Spec => []Inv
<1>1. Inv /\ [Next]_vars => Inv'
  BY DeployKeeps, CloneStartsKeeps, CloneEndsKeeps, UpdateKeeps, FetchFailsKeeps,
     FetchedKeeps, NothingToPatchKeeps, PatchStartsKeeps, PatchAbortsKeeps,
     PatchEndsKeeps, CommitKeeps, DeployedKeeps, GenerateKeeps, GeneratedKeeps,
     CleanKeeps, OutDeletedKeeps, DeleteStartsKeeps, DeleteEndsKeeps, CleanedKeeps,
     InterruptKeeps, StutterKeeps
     DEF Next
<1> QED
  BY Initially, <1>1, PTL DEF Spec

\* Directories, patches and outcomes stay in their types, and no phase works
\* beyond the last element, for any targets.
THEOREM DeployTypeCorrect == Spec => []TypeOK
<1> QED
  BY Invariance, PTL DEF Inv

\* However clean is interrupted, generated files never outlive the sources of a
\* target that has them for itself.
THEOREM SourcesOutliveGenerated == Spec => []GeneratedHasSources
<1> QED
  BY Invariance, PTL DEF Inv

\* Whatever earlier runs have left on the disk, after a clean that ran to its
\* end no deploy fails for a reason other than a command of its own.
THEOREM CleanDoesRepair == Spec => []CleanRepairs
<1> QED
  BY Invariance, PTL DEF Inv

\* Only the end of the patches makes a deployment successful.
LEMMA SuccessMeans ==
    ASSUME Inv, [Next]_vars, NEW t \in Targets,
           outcome'[t] = "successful", outcome[t] # "successful"
    PROVE  Deployed /\ t = run.target /\ ~run.option
<1>1. ASSUME outcome' = outcome PROVE FALSE
  BY <1>1
<1>2. ASSUME NEW r \in {"none", "skipped", "failed"}, NEW u \in Targets,
             outcome' = [outcome EXCEPT ![u] = r]
      PROVE  FALSE
  BY <1>2 DEF Inv, TypeOK
<1>3. CASE deploy \/ clean
  BY <1>2, <1>3 DEF deploy, clean
<1>4. CASE CloneEnds \/ FetchFails \/ PatchAborts \/ PatchEnds \/ Commit
  <2>1. run.phase # "idle"
    BY <1>4 DEF CloneEnds, FetchFails, PatchAborts, PatchEnds, Commit, At
  <2>2. outcome' = outcome \/ outcome' = [outcome EXCEPT ![run.target] = Failure]
    BY <1>4 DEF CloneEnds, FetchFails, PatchAborts, PatchEnds, Commit, GivesUp, Ends
  <2> QED
    BY <1>2, <2>1, <2>2, RunFacts DEF Inv, Failure
<1>5. CASE CloneStarts \/ Update \/ Fetched \/ NothingToPatch \/ PatchStarts
  BY <1>5 DEF CloneStarts, Update, Fetched, NothingToPatch, PatchStarts
<1>6. CASE \/ generate \/ Generated \/ OutDeleted \/ DeleteStarts \/ DeleteEnds
           \/ Cleaned \/ Interrupt \/ UNCHANGED vars
  BY <1>6
     DEF generate, Generated, OutDeleted, DeleteStarts, DeleteEnds, Cleaned,
         Interrupt, vars
<1>7. CASE Deployed
  <2>1. run.phase # "idle"
    BY <1>7 DEF Deployed, Over
  <2> QED
    BY <1>7 DEF Deployed, Ends
<1> QED
  BY <1>3, <1>4, <1>5, <1>6, <1>7 DEF Next

\* "Deployment for ... is successful" is only said of a target whose sources are
\* all known to git and patched, whatever earlier runs have left; and none of
\* their files is missing unless a run has been cut short since the last clean.
THEOREM SuccessDoesComplete == Spec => SuccessIsComplete
<1>1. ASSUME Inv, [Next]_vars, NEW t \in Targets,
             outcome'[t] = "successful", outcome[t] # "successful"
      PROVE  Complete(t)
  <2>1. Deployed /\ t = run.target /\ ~run.option
    BY <1>1, SuccessMeans
  <2>2. /\ run.phase = "patch" /\ run.at > Len(Parts[t])
        /\ run.at \in Nat /\ Len(Parts[t]) \in Nat
    BY <1>1, <2>1, RunFacts DEF Inv, Deployed, Over
  <2> SUFFICES ASSUME NEW e \in PartsOf(t)
               PROVE  /\ dir[e] \in {"tree", "holed"}
                      /\ e \in Patched => patch[e] \in {"applied", "committed"}
                      /\ t \in pristine => dir[e] = "tree"
    BY DEF Complete
  <2>3. PICK k \in 1 .. Len(Parts[t]) : e = Parts[t][k]
    BY <2>2 DEF PartsOf
  <2>4. dir[e] \in {"tree", "holed"}
    BY <1>1, <2>1, <2>2, <2>3 DEF Inv, FetchedSoFar, Fetches
  <2>5. e \in Patched => patch[e] \in {"applied", "committed"}
    BY <1>1, <2>1, <2>2, <2>3 DEF Inv, PatchedSoFar
  <2>6. t \in pristine => dir[e] = "tree"
    BY <1>1, <2>2, <2>4 DEF Inv, PristineSources
  <2> QED
    BY <2>4, <2>5, <2>6
<1>2. Inv /\ [Next]_vars =>
        \A t \in Targets :
            outcome'[t] = "successful" /\ outcome[t] # "successful" => Complete(t)
  BY <1>1
<1> QED
  BY <1>2, Invariance, PTL DEF Spec, SuccessIsComplete
=============================================================================
