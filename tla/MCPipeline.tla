------------------------------- MODULE MCPipeline -------------------------------
(***************************************************************************)
(* The components a download passes through on its way into the library,   *)
(* each on a small instance of its own: request, transfer and import       *)
(* (Acquisition), the review queue (ImportQueue), archives, the files of a *)
(* title, automatic upgrades and what the viewer did.                      *)
(* They share no state the properties speak of, so a behaviour picks one   *)
(* part and leaves the others in their initial states: the state graph is  *)
(* the sum of the parts' and not their product.                            *)
(***************************************************************************)
EXTENDS Acquisition, ImportQueue, ArchivePublication, LibraryFiles, Upgrades,
        Viewing, TLC

CONSTANTS r1, r2, r3, e1, e2, m1, arc1, arc2

VARIABLE part
pipeVars == <<aVars, qVars, xVars, lVars, pVars, vVars>>

Parts == {"acquisition", "queue", "archive", "files", "upgrades", "viewing"}

MCTargets == (r1 :> {e1, e2}) @@ (r2 :> {m1}) @@ (r3 :> {e2})
MCEntries == arc1 :> <<[path |-> "x", size |-> 1], [path |-> "y", size |-> 1]>>
          @@ arc2 :> <<[path |-> "x", size |-> 2]>>
MCSizes == <<1, 2, 2>>
MCFileOf == <<2, 2>>

PipelineInit ==
  /\ part \in Parts
  /\ AcqInit /\ QueueInit /\ ArchiveInit /\ LibraryInit /\ UpgradesInit
  /\ ViewingInit
  /\ part # "upgrades" => denied = {}

PipelineNext ==
  \/ /\ part = "acquisition" /\ AcqNext
     /\ UNCHANGED <<part, qVars, xVars, lVars, pVars, vVars>>
  \/ /\ part = "queue" /\ QueueNext
     /\ UNCHANGED <<part, aVars, xVars, lVars, pVars, vVars>>
  \/ /\ part = "archive" /\ ArchiveNext
     /\ UNCHANGED <<part, aVars, qVars, lVars, pVars, vVars>>
  \/ /\ part = "files" /\ LibraryNext
     /\ UNCHANGED <<part, aVars, qVars, xVars, pVars, vVars>>
  \/ /\ part = "upgrades" /\ UpgradesNext
     /\ UNCHANGED <<part, aVars, qVars, xVars, lVars, vVars>>
  \/ /\ part = "viewing" /\ ViewingNext
     /\ UNCHANGED <<part, aVars, qVars, xVars, lVars, pVars>>

PipelineSpec == PipelineInit /\ [][PipelineNext]_<<part, pipeVars>>

\* The state of the part that runs is well formed (download, import, queue, archives,
\* files, upgrades, playback rows).
PipelineTypeOK ==
  /\ part \in Parts
  /\ part = "acquisition" => AcqTypeOK
  /\ part = "queue" => QueueTypeOK
  /\ part = "archive" => ArchiveTypeOK
  /\ part = "files" => LibraryTypeOK
  /\ part = "upgrades" => UpgradesTypeOK
  /\ part = "viewing" => ViewingTypeOK
==============================================================================
