------------------------------ MODULE FsUtils ------------------------------
(***************************************************************************)
(* The functions of fs_utils.cpp over abstract directories: makedir on a   *)
(* tree of places, get_dir_files_size (with FileLister) on a listing, and  *)
(* the choice of the unit in convert_disk_size_unit.  The kernel's part is *)
(* Walk, mkdir and the listing.  get_dir_free_size is one multiplication   *)
(* and left out, and so are the digits convert_disk_size_unit prints.      *)
(***************************************************************************)
EXTENDS StringUtils, SequencesExt

CONSTANTS Cwd,          \* the current directory, a place
          DiskBase,     \* stands for 1024
          Units         \* how many names of units there are: 9

Slash == 47
Dot   == <<46>>
DotDot == <<46, 46>>

(* A place is the sequence of names from the root; a tree gives every      *)
(* place that exists its kind.                                             *)
Errors == {"ENOENT", "ENOTDIR"}

\* one name further
Walk(tree, at, name) ==
    IF at \in Errors THEN at
    ELSE IF tree[at] # "dir" THEN "ENOTDIR"
    ELSE IF name \in {<< >>, Dot} THEN at
    ELSE IF name = DotDot THEN IF at = << >> THEN at ELSE Front(at)
    ELSE IF Append(at, name) \in DOMAIN tree THEN Append(at, name) ELSE "ENOENT"

Resolve(tree, start, names) == FoldLeft(LAMBDA at, name : Walk(tree, at, name), start, names)

\* the error of mkdir, or "ok"; slashes at the end do not count
mkdir(tree, start, path) ==
    LET names == SelectSeq(path, LAMBDA x : x # << >>)
        dir   == Resolve(tree, start, Front(names))
    IN  IF names = << >> THEN [ret |-> "EEXIST", tree |-> tree]
        ELSE IF dir \in Errors THEN [ret |-> dir, tree |-> tree]
        ELSE IF tree[dir] # "dir" THEN [ret |-> "ENOTDIR", tree |-> tree]
        ELSE IF Last(names) \in {Dot, DotDot} \/ Append(dir, Last(names)) \in DOMAIN tree
        THEN [ret |-> "EEXIST", tree |-> tree]
        ELSE [ret |-> "ok", tree |-> [p \in DOMAIN tree \cup {Append(dir, Last(names))} |->
                                        IF p \in DOMAIN tree THEN tree[p] ELSE "dir"]]

\* the path is absolute when nothing stands before the first slash
Start(path) == IF path # << >> /\ path[1] = Slash THEN << >> ELSE Cwd

\* mutant: a directory that exists is a failure
makedir_Exists(path, tree) ==
    LET subdirs == split(path, Slash)
        RECURSIVE Loop(_, _)
        Loop(i, t) ==
            IF i > Len(subdirs) THEN [ok |-> TRUE, tree |-> t]
            ELSE LET r == mkdir(t, Start(path), SubSeq(subdirs, 1, i)) IN
                 IF r.ret # "ok" THEN [ok |-> FALSE, tree |-> t]
                 ELSE Loop(i + 1, r.tree)
    IN  IF subdirs = << >> THEN [ok |-> FALSE, tree |-> tree]
        ELSE Loop(IF subdirs[1] \in {<< >>, Dot, DotDot} THEN 2 ELSE 1, tree)

\* one mkdir for every prefix; a first name of "", "." or ".." is not made
makedir(path, tree) ==
    LET subdirs == split(path, Slash)
        RECURSIVE Loop(_, _)
        Loop(i, t) ==
            IF i > Len(subdirs) THEN [ok |-> TRUE, tree |-> t]
            ELSE LET r == mkdir(t, Start(path), SubSeq(subdirs, 1, i)) IN
                 IF r.ret \in Errors THEN [ok |-> FALSE, tree |-> t]
                 ELSE Loop(i + 1, r.tree)
    IN  IF subdirs = << >> THEN [ok |-> FALSE, tree |-> tree]
        ELSE Loop(IF subdirs[1] \in {<< >>, Dot, DotDot} THEN 2 ELSE 1, tree)

-----------------------------------------------------------------------------
(* A listing is a sequence of entries [type, size]; a size below zero: the *)
(* file is gone when its size is asked for.                                *)

IsListed(entry) == entry.type \in {"DT_REG", "DT_UNKNOWN"}

\* FileLister::next: the position of the next file after i, 0 when there is none
RECURSIVE next(_, _)
next(listing, i) ==
    IF i >= Len(listing) THEN 0
    ELSE IF IsListed(listing[i + 1]) THEN i + 1 ELSE next(listing, i + 1)

\* mutant: one file more
get_dir_files_size_OneMore(listing, max_count) ==
    LET RECURSIVE Loop(_, _, _)
        Loop(i, count, path_size) ==
            LET k == next(listing, i) IN
            IF k = 0 THEN [ret |-> 0, file_count |-> count, total_size |-> path_size]
            ELSE IF listing[k].size < 0 THEN [ret |-> -1, file_count |-> 0, total_size |-> 0]
            ELSE IF count + 1 > max_count
            THEN [ret |-> 0, file_count |-> count + 1, total_size |-> path_size + listing[k].size]
            ELSE Loop(k, count + 1, path_size + listing[k].size)
    IN  Loop(0, 0, 0)

\* the results keep their values, 0 here, when a file is gone; a directory
\* that cannot be opened has an empty listing
get_dir_files_size(listing, max_count) ==
    LET RECURSIVE Loop(_, _, _)
        Loop(i, count, path_size) ==
            LET k == next(listing, i) IN
            IF k = 0 THEN [ret |-> 0, file_count |-> count, total_size |-> path_size]
            ELSE IF listing[k].size < 0 THEN [ret |-> -1, file_count |-> 0, total_size |-> 0]
            ELSE IF count + 1 >= max_count
            THEN [ret |-> 0, file_count |-> count + 1, total_size |-> path_size + listing[k].size]
            ELSE Loop(k, count + 1, path_size + listing[k].size)
    IN  Loop(0, 0, 0)

\* the index of the unit
convert_disk_size_unit(bytes) ==
    LET RECURSIVE Loop(_, _)
        Loop(b, count) == IF b >= DiskBase /\ count <= Units - 1
                          THEN Loop(b \div DiskBase, count + 1) ELSE count
    IN  Loop(bytes, 0)

=============================================================================
