-------------------------------- MODULE Deploy --------------------------------
(***************************************************************************)
(* pal-platform.py: deploy fetches the sources a target needs and patches  *)
(* them, generate writes the build files, clean removes both.  What they   *)
(* know of an earlier run is what they find on the disk, and a run may end *)
(* at any point: a command fails, or the user interrupts it.  fullbuild    *)
(* and a chain of commands on the command line are sequences of these.     *)
(*                                                                         *)
(* An element of a target (its SDK, a middleware) is a directory cloned    *)
(* with git at a tag; targets may share one, and one may lie within        *)
(* another, which then holds its patch as well.  The elements without      *)
(* sources of their own are left out: nothing is done for them.            *)
(***************************************************************************)
EXTENDS Naturals, Sequences

CONSTANTS
    Targets,    \* the targets of pal-platform.json
    Elements,   \* the directories they name
    Parts,      \* the elements of each target, in the order they are fetched
    Patched,    \* the elements with a patch_file
    Within(_)   \* the elements a directory lies in

ASSUME PartsAssumption ==
    /\ Parts \in [Targets -> Seq(Elements)]
    /\ Patched \subseteq Elements
    /\ \A e \in Elements : Within(e) \subseteq Elements \ {e}

\* A target names the directories its elements lie in, and fetches them first:
\* no clone makes a directory that git does not know.
ASSUME NestingAssumption ==
    \A t \in Targets : \A k \in DOMAIN Parts[t] : \A e \in Within(Parts[t][k]) :
        \E j \in 1 .. k - 1 : Parts[t][j] = e

VARIABLES
    dir,       \* a directory: none, an interrupted clone, a complete tree, one
               \* with holes that git still knows, the rest of one it does not
    patch,     \* its patch: no, half, applied or committed
    out,       \* the generated directory of a target: none, half or complete
    run,       \* the command that runs: its target, option, phase and element
    outcome,   \* of the last deploy of a target
    pristine   \* history: targets cleaned since when nothing has gone wrong

sourceVars == <<dir, patch>>
vars == <<dir, patch, out, run, outcome, pristine>>

Idle == [phase |-> "idle"]

Init ==
    /\ dir = [e \in Elements |-> "none"]
    /\ patch = [e \in Elements |-> "no"]
    /\ out = [t \in Targets |-> "none"]
    /\ run = Idle
    /\ outcome = [t \in Targets |-> "none"]
    /\ pristine = {}

PartsOf(t) == {Parts[t][k] : k \in DOMAIN Parts[t]}

\* The phase `phase` has reached its next element.
At(phase) == run.phase = phase /\ run.at <= Len(Parts[run.target])
Over(phase) == run.phase = phase /\ run.at > Len(Parts[run.target])
Element == Parts[run.target][run.at]

Enter(phase, k) == run' = [run EXCEPT !.phase = phase, !.at = k]
Advance == Enter(run.phase, run.at + 1)
Ends(result) == run' = Idle /\ outcome' = [outcome EXCEPT ![run.target] = result]

Failure == IF run.option THEN "skipped" ELSE "failed"

\* check_cmd: a command has failed, and the program exits, with status 0.
GivesUp == Ends(Failure) /\ pristine' = {}

-----------------------------------------------------------------------------
(* deploy                                                                  *)

deploy ==
    /\ run = Idle
    /\ \E t \in Targets, skip_update \in BOOLEAN :
          /\ run' = [phase |-> IF skip_update THEN "patch" ELSE "fetch",
                     target |-> t, option |-> skip_update, at |-> 1]
          /\ outcome' = [outcome EXCEPT ![t] = "none"]
    /\ UNCHANGED <<sourceVars, out, pristine>>

\* git clone removes what it has got when it fails; the configuration that
\* follows it may fail too.
CloneStarts ==
    /\ At("fetch") /\ dir[Element] = "none"
    /\ dir' = [dir EXCEPT ![Element] = "clone"]
    /\ Enter("clone", run.at)
    /\ UNCHANGED <<patch, out, outcome, pristine>>

CloneEnds ==
    /\ run.phase = "clone"
    /\ \E result \in {"none", "tree"} : dir' = [dir EXCEPT ![Element] = result]
    /\ \/ dir'[Element] = "tree" /\ Enter("fetch", run.at + 1)
          /\ UNCHANGED <<outcome, pristine>>
       \/ GivesUp
    /\ UNCHANGED <<patch, out>>

\* git_fetch: an existing repository is fetched and its tag checked out: the commit with
\* the patch is left behind, but nothing is done about changes that are not
\* committed, missing files among them.
Update ==
    /\ At("fetch") /\ dir[Element] \in {"clone", "holed", "tree"}
    /\ dir' = [dir EXCEPT ![Element] = IF @ = "holed" THEN @ ELSE "tree"]
    /\ patch' = [patch EXCEPT ![Element] = IF @ = "committed" THEN "no" ELSE @]
    /\ Advance
    /\ UNCHANGED <<out, outcome, pristine>>

\* The update fails, or there is a directory to clone into that is not empty.
FetchFails ==
    /\ At("fetch") /\ dir[Element] # "none"
    /\ Ends(Failure)
    /\ pristine' = IF dir[Element] = "rest" THEN pristine ELSE {}
    /\ UNCHANGED <<sourceVars, out>>

\* Mutation of Fetched: the patches are taken for applied.
Fetched_Skips ==
    /\ Over("fetch")
    /\ Enter("patch", Len(Parts[run.target]) + 1)
    /\ UNCHANGED <<sourceVars, out, outcome, pristine>>

Fetched ==
    /\ Over("fetch")
    /\ Enter("patch", 1)
    /\ UNCHANGED <<sourceVars, out, outcome, pristine>>

\* What the patch needs: its target, and the directory it comes from.  With
\* holes in them it may succeed or not.
Needed == Within(Element) \cup {Element}

\* The reverse dry run succeeds, or there is no patch.
NothingToPatch ==
    /\ At("patch")
    /\ Element \in Patched =>
           /\ patch[Element] \in {"applied", "committed"}
           /\ \A e \in Needed : dir[e] \in {"tree", "holed"}
    /\ Advance
    /\ UNCHANGED <<sourceVars, out, outcome, pristine>>

PatchStarts ==
    /\ At("patch") /\ Element \in Patched
    /\ patch[Element] = "no"
    /\ \A e \in Needed : dir[e] \in {"tree", "holed"}
    /\ patch' = [patch EXCEPT ![Element] = "half"]
    /\ Enter("patching", run.at)
    /\ UNCHANGED <<dir, out, outcome, pristine>>

\* "check target directory is clean", or the patch is not there.
PatchAborts ==
    /\ At("patch") /\ Element \in Patched
    /\ patch[Element] = "half" \/ \E e \in Needed : dir[e] # "tree"
    /\ Ends(Failure)
    /\ UNCHANGED <<sourceVars, out, pristine>>

PatchEnds ==
    /\ run.phase = "patching"
    /\ \/ /\ patch' = [patch EXCEPT ![Element] = "applied"]
          /\ Enter("commit", run.at)
          /\ UNCHANGED <<outcome, pristine>>
       \/ GivesUp /\ UNCHANGED patch
    /\ UNCHANGED <<dir, out>>

Commit ==
    /\ run.phase = "commit"
    /\ \/ /\ patch' = [patch EXCEPT ![Element] = "committed"]
          /\ Enter("patch", run.at + 1)
          /\ UNCHANGED <<outcome, pristine>>
       \/ GivesUp /\ UNCHANGED patch
    /\ UNCHANGED <<dir, out>>

\* The instructions are written; "Deployment for ... is successful."
Deployed ==
    /\ Over("patch")
    /\ Ends(IF run.option THEN "skipped" ELSE "successful")
    /\ UNCHANGED <<sourceVars, out, pristine>>

-----------------------------------------------------------------------------
(* generate                                                                *)

\* Nothing is done unless every directory is there.
generate ==
    /\ run = Idle
    /\ \E t \in Targets :
          /\ \A e \in PartsOf(t) : dir[e] # "none"
          /\ run' = [phase |-> "generate", target |-> t, option |-> FALSE, at |-> 1]
          /\ out' = [out EXCEPT ![t] = "half"]
    /\ UNCHANGED <<sourceVars, outcome, pristine>>

Generated ==
    /\ run.phase = "generate"
    /\ out' = [out EXCEPT ![run.target] = "complete"]
    /\ run' = Idle
    /\ UNCHANGED <<sourceVars, outcome, pristine>>

-----------------------------------------------------------------------------
(* clean                                                                   *)

\* Mutation of clean: the generated files go last.
clean_SourcesFirst ==
    /\ run = Idle
    /\ \E t \in Targets, keep_sources \in BOOLEAN :
          /\ run' = [phase |-> IF keep_sources THEN "out" ELSE "delete",
                     target |-> t, option |-> keep_sources, at |-> 1]
          /\ outcome' = [outcome EXCEPT ![t] = "none"]
    /\ UNCHANGED <<sourceVars, out, pristine>>

clean ==
    /\ run = Idle
    /\ \E t \in Targets, keep_sources \in BOOLEAN :
          /\ out' = [out EXCEPT ![t] = IF @ = "none" THEN @ ELSE "half"]
          /\ run' = [phase |-> "out", target |-> t, option |-> keep_sources, at |-> 1]
          /\ outcome' = [outcome EXCEPT ![t] = "none"]
    /\ UNCHANGED <<sourceVars, pristine>>

OutDeleted ==
    /\ run.phase = "out"
    /\ out' = [out EXCEPT ![run.target] = "none"]
    /\ IF run.option THEN run' = Idle ELSE Enter("delete", 1)
    /\ UNCHANGED <<sourceVars, outcome, pristine>>

\* delete_elements: the target's own directory, the first of its elements, is
\* deleted last.
Victim ==
    LET parts == Parts[run.target]
    IN  IF run.at = Len(parts) THEN parts[1] ELSE parts[run.at + 1]

Gone == {e \in Elements : e = Victim \/ Victim \in Within(e)}

\* What is gone first is up to the file system.
DeleteStarts ==
    /\ At("delete")
    /\ \E left \in {"holed", "rest"} :
          dir' = [e \in Elements |->
                    IF e \notin Gone \/ dir[e] \in {"none", "rest"} THEN dir[e] ELSE left]
    /\ Enter("deleting", run.at)
    /\ UNCHANGED <<patch, out, outcome, pristine>>

\* Mutation of DeleteEnds: the directory itself stays.
DeleteEnds_LeavesIt ==
    /\ run.phase = "deleting"
    /\ dir' = [e \in Elements |-> IF e \in Gone THEN "rest" ELSE dir[e]]
    /\ patch' = [e \in Elements |-> IF dir'[e] = "none" THEN "no" ELSE patch[e]]
    /\ Enter("delete", run.at + 1)
    /\ UNCHANGED <<out, outcome, pristine>>

DeleteEnds ==
    /\ run.phase = "deleting"
    /\ dir' = [e \in Elements |-> IF e \in Gone THEN "none" ELSE dir[e]]
    /\ patch' = [e \in Elements |-> IF dir'[e] = "none" THEN "no" ELSE patch[e]]
    /\ Enter("delete", run.at + 1)
    /\ UNCHANGED <<out, outcome, pristine>>

Cleaned ==
    /\ Over("delete")
    /\ pristine' = pristine \cup {run.target}
    /\ run' = Idle
    /\ UNCHANGED <<sourceVars, out, outcome>>

\* The user interrupts the command, or kills it.
Interrupt ==
    /\ run # Idle
    /\ run' = Idle
    /\ pristine' = {}
    /\ UNCHANGED <<sourceVars, out, outcome>>

Next ==
    \/ deploy \/ CloneStarts \/ CloneEnds \/ Update \/ FetchFails \/ Fetched
    \/ NothingToPatch \/ PatchStarts \/ PatchAborts \/ PatchEnds \/ Commit \/ Deployed
    \/ generate \/ Generated
    \/ clean \/ OutDeleted \/ DeleteStarts \/ DeleteEnds \/ Cleaned
    \/ Interrupt

Spec == Init /\ [][Next]_vars

-----------------------------------------------------------------------------
(* Properties                                                              *)

\* "Deployment for ... is successful": git knows all the sources, and what has
\* a patch is patched, whatever earlier runs have left; and no file is missing
\* unless a run has been cut short since the target was last cleaned.
Complete(t) ==
    \A e \in PartsOf(t) :
        /\ dir[e] \in {"tree", "holed"}
        /\ e \in Patched => patch[e] \in {"applied", "committed"}
        /\ t \in pristine => dir[e] = "tree"

SuccessIsComplete ==
    [][\A t \in Targets :
         outcome'[t] = "successful" /\ outcome[t] # "successful" => Complete(t)]_vars

\* The target shares its sources with no other.
Isolated(t) == \A u \in Targets \ {t} : PartsOf(t) \cap PartsOf(u) = {}

\* A target that shares its sources with no other: as long as its generated
\* files are there, complete or not, so are its sources; an interrupted clean
\* does not leave a build without them.
GeneratedHasSources ==
    \A t \in Targets :
        Isolated(t) /\ out[t] # "none" => \A e \in PartsOf(t) : dir[e] # "none"

\* "check target directory is clean": after a clean that has run to its end
\* deploy fails only if one of its commands does, whatever state an earlier
\* run had left.
CleanRepairs == \A t \in pristine : outcome[t] # "failed"
=============================================================================
