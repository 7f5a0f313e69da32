------------------------------- MODULE SkillHub -------------------------------
(***************************************************************************)
(* scripts/skill_hub.py for one skill: sync copies the version the manifest*)
(* names into versions/<name>/<version> and points active/<name> at it; the*)
(* workspaces have links to active/<name>.  A run may end after any step.  *)
(***************************************************************************)
CONSTANTS
  Versions,
  Workspaces,
  None

VARIABLES
  manifest,     \* the version in the manifest
  version,      \* versions/<name>/<version>: "none", "partial" or "whole"
  tmp,          \* the same of <version>.tmp
  active,       \* the version that active/<name> points at, or None
  link,         \* of a workspace: "none", "link" or "directory"
  sync,         \* the run of sync
  synced        \* history: the last sync, if it ended

vars == <<manifest, version, tmp, active, link, sync, synced>>

NoSync == [pc |-> "none", version |-> None]

Init ==
  /\ manifest \in Versions
  /\ version = [v \in Versions |-> "none"]
  /\ tmp = [v \in Versions |-> "none"]
  /\ active = None
  /\ link = [w \in Workspaces |-> "none"]
  /\ sync = NoSync
  /\ synced = None

ManifestChanged ==
  /\ \E v \in Versions \ {manifest} : manifest' = v
  /\ UNCHANGED <<version, tmp, active, link, sync, synced>>

-----------------------------------------------------------------------------
(* sync_skill_hub                                                          *)

besideSync == <<manifest, link>>
At(pc) == sync.pc = pc
Goes(pc) == sync' = [sync EXCEPT !.pc = pc]

Begin ==
  /\ sync = NoSync
  /\ sync' = [pc |-> "clear", version |-> manifest]
  /\ synced' = None
  /\ UNCHANGED <<besideSync, version, tmp, active>>

\* A tree is taken apart or copied and the run goes on; or it ends half way.
Changes(tree, state, pc) ==
  \/ tree' = [tree EXCEPT ![sync.version] = state] /\ Goes(pc)
  \/ tree' = [tree EXCEPT ![sync.version] = "partial"] /\ sync' = NoSync

Removes(tree, pc) ==
  IF tree[sync.version] = "none" THEN UNCHANGED tree /\ Goes(pc) ELSE Changes(tree, "none", pc)

\* Mutant: what an earlier run has copied is used.
ClearTmp_uses ==
  /\ At("clear")
  /\ Goes(IF tmp[sync.version] = "none" THEN "copy" ELSE "remove")
  /\ UNCHANGED <<besideSync, version, tmp, active, synced>>

\* The rest of an earlier run is removed, then the source copied.
ClearTmp ==
  /\ At("clear") /\ Removes(tmp, "copy")
  /\ UNCHANGED <<besideSync, version, active, synced>>

CopyTmp ==
  /\ At("copy") /\ Changes(tmp, "whole", "remove")
  /\ UNCHANGED <<besideSync, version, active, synced>>

RemoveVersion ==
  /\ At("remove") /\ Removes(version, "replace")
  /\ UNCHANGED <<besideSync, tmp, active, synced>>

ReplaceVersion ==
  /\ At("replace")
  /\ version' = [version EXCEPT ![sync.version] = tmp[sync.version]]
  /\ tmp' = [tmp EXCEPT ![sync.version] = "none"]
  /\ Goes("unlink")
  /\ UNCHANGED <<besideSync, active, synced>>

\* _replace_symlink: a link that is right stays; another is removed first.
Unlink ==
  /\ At("unlink")
  /\ IF active = sync.version
     THEN sync' = NoSync /\ synced' = sync.version /\ UNCHANGED active
     ELSE active' = None /\ Goes("link") /\ UNCHANGED synced
  /\ UNCHANGED <<besideSync, version, tmp>>

Link ==
  /\ At("link")
  /\ active' = sync.version
  /\ sync' = NoSync /\ synced' = sync.version
  /\ UNCHANGED <<besideSync, version, tmp>>

\* The process ends between two steps.
Crash ==
  /\ sync # NoSync
  /\ sync' = NoSync
  /\ UNCHANGED <<besideSync, version, tmp, active, synced>>

-----------------------------------------------------------------------------
(* link_workspace_skills                                                   *)

\* The active link must lead to a SKILL.md, which half a version may have.  A
\* directory in the place of a link is replaced only by --replace.
LinkWorkspace(w) ==
  /\ active # None /\ version[active] # "none"
  /\ link' = [link EXCEPT ![w] = "link"]
  /\ UNCHANGED <<manifest, version, tmp, active, sync, synced>>

DirectoryMade(w) ==
  /\ link[w] = "none"
  /\ link' = [link EXCEPT ![w] = "directory"]
  /\ UNCHANGED <<manifest, version, tmp, active, sync, synced>>

Next ==
  \/ ManifestChanged
  \/ Begin \/ ClearTmp \/ CopyTmp \/ RemoveVersion \/ ReplaceVersion \/ Unlink \/ Link
  \/ Crash
  \/ \E w \in Workspaces : LinkWorkspace(w) \/ DirectoryMade(w)

Spec == Init /\ [][Next]_vars

-----------------------------------------------------------------------------
(* Properties                                                              *)

\* The state of what a workspace has for the skill.
Reached(w) == IF link[w] # "link" \/ active = None THEN <<None, "none">>
              ELSE <<active, version[active]>>

\* However many runs have ended half way before, and whatever the manifest has
\* said since: after a sync that answered, each linked workspace has the whole of
\* the version it synced.
SyncedIsWhole ==
  synced # None =>
    \A w \in Workspaces : link[w] = "link" => Reached(w) = <<synced, "whole">>
==============================================================================
