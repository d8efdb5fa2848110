------------------------------ MODULE Staging ------------------------------
(***************************************************************************)
(* The directory that a derivation fills: a function from paths to what    *)
(* the files there hold.  A zarr store is a directory; the artifacts below *)
(* it have paths of their own, so that its bytes are those of the tree at  *)
(* its path.                                                               *)
(***************************************************************************)
EXTENDS Packages, SequencesExt, TLC

\* The part of a directory at a path and below it.
TreeAt(files, path) ==
  [other \in {p \in DOMAIN files : IsPrefix(path, p)} |-> files[other]]

IsDirectory(files, path) == FileAt(files, path).kind = "zarr"

\* create_dir_all of the parent succeeds.
HasParent(dir, path) ==
  \A other \in DOMAIN dir : IsStrictPrefix(other, path) => IsDirectory(dir, other)

\* There is no directory at the path, declared or made for what is below it.
FreeForFile(dir, path) ==
  /\ path # <<>>
  /\ \A other \in DOMAIN dir : ~IsStrictPrefix(path, other)
  /\ ~IsDirectory(dir, path)

FreeForDirectory(dir, path) ==
  path # <<>> /\ \A other \in DOMAIN dir : ~IsPrefix(path, other)

\* Writing a file, over a file that is there.
CanWrite(dir, path) == HasParent(dir, path) /\ FreeForFile(dir, path)
Written(dir, path, content) ==
  [other \in {path} \cup DOMAIN dir |-> IF other = path THEN content ELSE dir[other]]

\* copy_regular of a replacement file.
Regular(content) == content.kind \notin {"link", "zarr", "absent"}

\* Mistake: symbolic links are copied as links.
CanCopyLinks(files, dir, path) ==
  /\ path \in DOMAIN files
  /\ HasParent(dir, path)
  /\ IF IsDirectory(files, path) THEN FreeForDirectory(dir, path) ELSE FreeForFile(dir, path)

\* copy_declared: a file, or a directory that is not there yet with all that is
\* below it, but no symbolic link.
CanCopy(files, dir, path) ==
  /\ path \in DOMAIN files
  /\ \A other \in DOMAIN TreeAt(files, path) : files[other].kind # "link"
  /\ HasParent(dir, path)
  /\ IF IsDirectory(files, path) THEN FreeForDirectory(dir, path) ELSE FreeForFile(dir, path)

Copied(files, dir, path) ==
  LET tree == TreeAt(files, path) IN
  [other \in DOMAIN tree \cup DOMAIN dir |->
     IF other \in DOMAIN tree THEN tree[other] ELSE dir[other]]
=============================================================================
