----------------------------- MODULE SyncMounts -----------------------------
(***************************************************************************)
(* Which of the user's files the CLI has Syncthing sync                    *)
(* (pkg/syncthing/client.go: NewClient and GetStignore, called by          *)
(* makeSyncthingClient in cli/up/up.go).                                   *)
(*                                                                         *)
(* Bind volumes of all services become mounts; mounts inside other mounts  *)
(* are merged into them, from the shallowest down; a mount that is not to  *)
(* be synced as a whole gets a .stignore file.  The order of the volumes   *)
(* is that of an iteration over a Go map, hence any.                       *)
(*                                                                         *)
(* A path is the sequence of its names below a common directory.           *)
(***************************************************************************)
EXTENDS Naturals, Sequences, FiniteSets, SequencesExt

CONSTANTS
    Dirs,        \* paths of directories of the user
    Files,       \* paths of files
    MaxVolumes   \* how many bind volumes the Compose file has

ASSUME SyncMountsAssumption == Dirs \cap Files = {} /\ MaxVolumes \in Nat

Paths == Dirs \cup Files

\* getSubpath(p, q): q relative to p, which it must not be outside of.
SubPath(p, q) == SubSeq(q, Len(p) + 1, Len(q))

\* A bind volume, and the native volumes mounted below it in the same service.
Volumes ==
    UNION {[path : {p},
            masks : SUBSET {SubPath(p, d) : d \in {d \in Dirs : IsStrictPrefix(p, d)}}] :
             p \in Dirs}
    \cup [path : Files, masks : {{}}]

VARIABLES
    volumes,    \* makeSyncthingClient's allVolumes
    mounts,     \* NewClient's allMounts, sorted
    pc,
    pi, mi,     \* its loop variables
    parent,     \* the mount that others are merged into
    skip,       \* skipIndices
    collapsed   \* collapsedMounts

vars == <<volumes, mounts, pc, pi, mi, parent, skip, collapsed>>

Mount(path, include, ignore, all) ==
    [path |-> path, include |-> include, ignore |-> ignore, syncAll |-> all]

\* Include and Ignore exclude each other, as the comments of type Mount say.
MountOK(m) ==
    /\ m.path \in Dirs
    /\ m.include # {} => ~m.syncAll
    /\ m.ignore # {} => m.syncAll
    /\ \A p \in m.include \cup m.ignore : m.path \o p \in Paths

TypeOK ==
    /\ \A i \in DOMAIN volumes : volumes[i] \in Volumes
    /\ \A i \in DOMAIN mounts : MountOK(mounts[i])
    /\ \A i \in DOMAIN collapsed : MountOK(collapsed[i])
    /\ MountOK(parent)
    /\ pc \in {"collect", "outer", "inner", "done"}
    /\ pi \in 1..(Len(mounts) + 1) /\ mi \in 1..(Len(mounts) + 1)
    /\ skip \subseteq DOMAIN mounts

Init ==
    /\ volumes \in UNION {[1..n -> Volumes] : n \in 0..MaxVolumes}
    /\ mounts = << >> /\ collapsed = << >>
    /\ pc = "collect"
    /\ pi = 1 /\ mi = 1
    /\ parent = Mount(<< >>, {}, {}, FALSE)
    /\ skip = {}

-----------------------------------------------------------------------------
(* NewClient                                                               *)

\* collapseIgnores: only the masks that are not below others.
CollapseIgnores(masks) == {m \in masks : ~\E n \in masks : IsStrictPrefix(n, m)}

\* A directory is mounted as a whole, a file by way of its directory.
ToMount(v) ==
    IF v.path \in Dirs
      THEN Mount(v.path, {}, CollapseIgnores(v.masks), TRUE)
      ELSE Mount(Front(v.path), {<<Last(v.path)>>}, {}, FALSE)

ShallowerFirst(m, n) == Len(m.path) < Len(n.path)

Collect ==
    /\ pc = "collect"
    /\ mounts' = SortSeq([i \in DOMAIN volumes |-> ToMount(volumes[i])], ShallowerFirst)
    /\ pc' = "outer"
    /\ UNCHANGED <<volumes, pi, mi, parent, skip, collapsed>>

\* The next mount that was not merged into another becomes the parent.
NextParent ==
    /\ pc = "outer" /\ pi <= Len(mounts)
    /\ IF pi \in skip
         THEN pi' = pi + 1 /\ UNCHANGED <<pc, mi, parent>>
         ELSE /\ parent' = mounts[pi]
              /\ mi' = pi + 1
              /\ pc' = "inner"
              /\ UNCHANGED pi
    /\ UNCHANGED <<volumes, mounts, skip, collapsed>>

\* Mount.Includes
Includes(m, child) == \E i \in m.include : IsPrefix(i, child)

\* Fault: the ignores of the parent stay.
MergeKeepsIgnores(m, child) ==
    LET rel == SubPath(m.path, child.path) IN
    CASE m.syncAll \/ Includes(m, rel) -> m
      [] ~m.syncAll /\ ~Includes(m, rel) /\ child.syncAll ->
           IF rel = << >> THEN Mount(m.path, {}, {}, TRUE)
                          ELSE [m EXCEPT !.include = @ \cup {rel}]
      [] OTHER -> [m EXCEPT !.include = @ \cup {rel \o i : i \in child.include}]

\* The switch: m, which contains child, with what child asks for.
Merge(m, child) ==
    LET rel == SubPath(m.path, child.path) IN
    CASE m.syncAll ->
           \* Only ignores that take nothing from the child stay.
           [m EXCEPT !.ignore =
              {i \in @ : /\ ~IsPrefix(i, rel)
                         /\ IsPrefix(rel, i) => child.syncAll /\ SubPath(rel, i) \in child.ignore}]
      [] ~m.syncAll /\ Includes(m, rel) -> m
      [] ~m.syncAll /\ ~Includes(m, rel) /\ child.syncAll ->
           IF rel = << >> THEN [m EXCEPT !.syncAll = TRUE, !.include = {}]
                          ELSE [m EXCEPT !.include = @ \cup {rel}]
      [] OTHER -> [m EXCEPT !.include = @ \cup {rel \o i : i \in child.include}]

\* The inner loop looks at one more mount.
MergeChild ==
    /\ pc = "inner" /\ mi <= Len(mounts)
    /\ IF mi \notin skip /\ IsPrefix(parent.path, mounts[mi].path)
         THEN /\ parent' = Merge(parent, mounts[mi])
              /\ skip' = skip \cup {mi}
         ELSE UNCHANGED <<parent, skip>>
    /\ mi' = mi + 1
    /\ UNCHANGED <<volumes, mounts, pc, pi, collapsed>>

ParentDone ==
    /\ pc = "inner" /\ mi > Len(mounts)
    /\ collapsed' = Append(collapsed, parent)
    /\ pi' = pi + 1
    /\ pc' = "outer"
    /\ UNCHANGED <<volumes, mounts, mi, parent, skip>>

Finish ==
    /\ pc = "outer" /\ pi > Len(mounts)
    /\ pc' = "done"
    /\ UNCHANGED <<volumes, mounts, pi, mi, parent, skip, collapsed>>

Next == Collect \/ NextParent \/ MergeChild \/ ParentDone \/ Finish

Spec == Init /\ [][Next]_vars

-----------------------------------------------------------------------------
(* GetStignore                                                             *)

(***************************************************************************)
(* A rule of the .stignore file: "!/p" (include), "/p" or "/p/" (contents, *)
(* what is below p but not p).  Syncthing takes the first rule that        *)
(* matches.                                                                *)
(***************************************************************************)
Rule(path, include, contents) ==
    [path |-> path, include |-> include, contents |-> contents]

\* The path, and its parent directories without their other files.
RulesToIncludePath(p) ==
    {Rule(SubSeq(p, 1, n), TRUE, FALSE) : n \in 1..Len(p)}
    \cup {Rule(SubSeq(p, 1, n), FALSE, TRUE) : n \in 1..(Len(p) - 1)}

Rules(m) ==
    UNION {RulesToIncludePath(i) : i \in m.include}
    \cup {Rule(i, FALSE, FALSE) : i \in m.ignore}

\* The rules are sorted: deeper paths first, then "/p/", "!/p" and "/p".
Before(r, s) ==
    \/ Len(r.path) > Len(s.path)
    \/ Len(r.path) = Len(s.path) /\ r.contents /\ ~s.contents
    \/ Len(r.path) = Len(s.path) /\ r.contents = s.contents /\ r.include /\ ~s.include

Matches(r, p) == IF r.contents THEN IsStrictPrefix(r.path, p) ELSE IsPrefix(r.path, p)

\* The first matching rule decides; after all rules comes "**", to ignore the
\* rest, unless SyncAll.
Allowed(m, p) ==
    LET matching == {r \in Rules(m) : Matches(r, p)} IN
    IF matching = {} THEN m.syncAll
    ELSE (CHOOSE r \in matching : \A s \in matching : s = r \/ Before(r, s)).include

\* Syncthing syncs a path of the mount if it may create the directories to it.
SyncedBy(m, q) ==
    /\ IsPrefix(m.path, q)
    /\ LET p == SubPath(m.path, q) IN \A n \in 1..Len(p) : Allowed(m, SubSeq(p, 1, n))

Synced(q) == \E i \in DOMAIN collapsed : SyncedBy(collapsed[i], q)

-----------------------------------------------------------------------------
(* Properties                                                              *)

\* What a container sees of the user's files through volume v.
Shows(v, q) ==
    /\ IsPrefix(v.path, q)
    /\ ~\E m \in v.masks : IsPrefix(v.path \o m, q)

\* q is below a volume that comes after a volume that is a file in it.
FileFirst(q) ==
    \E i, j \in DOMAIN volumes :
        /\ i < j /\ volumes[i].path \in Files
        /\ Front(volumes[i].path) = volumes[j].path
        /\ IsPrefix(volumes[j].path, q)

\* Whatever mounts NewClient merges, nothing that a container sees is lost, unless a
\* file was included before the directory that it is in.
SyncedUnlessFileFirst ==
    pc = "done" =>
        \A j \in DOMAIN volumes, q \in Paths :
            Shows(volumes[j], q) /\ ~FileFirst(q) => Synced(q)

\* NewClient syncs no file that is in none of the volumes: with a file its
\* directory is created, not the other files in it.
NothingElseSynced ==
    pc = "done" =>
        \A q \in Files : Synced(q) => \E j \in DOMAIN volumes : IsPrefix(volumes[j].path, q)

\* "Collapse nested mounts to avoid confusing Syncthing" (client.go): no mount is
\* inside another; so GetIDPathMap has an entry for each.
NoNestedMounts ==
    \A i, j \in DOMAIN collapsed :
        i # j => ~IsPrefix(collapsed[i].path, collapsed[j].path)

\* "GetStignore returns the stignore file needed to include only the paths in
\* Mount.Include" (client.go): the merged mounts sync what containers see, and
\* only that, each file in one mount.
SyncsWhatIsMounted == SyncedUnlessFileFirst /\ NothingElseSynced /\ NoNestedMounts

=============================================================================
