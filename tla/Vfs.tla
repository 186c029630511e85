--------------------------------- MODULE Vfs --------------------------------
(***************************************************************************)
(* Paths: _kopen, vfs_mount, create_file, mkdir, symlink and unlink of     *)
(* kernel/sys/fs/vfs.c over the directories of kernel/sys/fs/tmpfs.c, as   *)
(* kmain and the system calls of processes use them.  Every process has    *)
(* uid 0, so that check_permission grants everything here.                 *)
(*                                                                         *)
(* A string is a sequence of characters; the letters of a name matter only *)
(* as a whole, so a name is one letter.  Nothing is ever renamed: a file   *)
(* is known by the sequence of names that leads to it.                     *)
(***************************************************************************)
EXTENDS Integers, SequencesExt

CONSTANTS
    Letters,    \* names
    MaxPath,    \* bound on the length of a path
    MaxFiles,   \* bound on the number of files
    BootDirs,   \* directories that kmain makes: sequences of names
    BootMounts, \* what it mounts then: a sequence of [path, node]
    PtyDir,     \* the node of /dev/pts
    PtyNames,   \* the names by which it finds the pty
    Pty,        \* the node of the pty, the slave
    Null        \* no node

Slash == "/"
Root == <<>>
Strings == Seq(Letters \cup {Slash})

(* Strings that may be given as paths: two letters in a row are no names. *)
Paths == {s \in BoundedSeq(Letters \cup {Slash}, MaxPath) :
            \A i \in 2 .. Len(s) : s[i] = Slash \/ s[i-1] = Slash}

(* s without the slashes at its end, which may be all of it. *)
Trimmed(s) ==
    LET kept == {i \in DOMAIN s : s[i] # Slash} IN
    IF kept = {} THEN <<>> ELSE SubSeq(s, 1, Max(kept))

(* Paths as they are usually spelled, one slash before each name and any   *)
(* number behind the last; and the names in them.                          *)
PlainPaths == {path \in Paths :
    /\ path # <<>> /\ path[1] = Slash
    /\ \A i \in 1 .. Len(Trimmed(path)) : path[i] = Slash <=> i % 2 = 1}

NamesIn == [path \in PlainPaths |-> [i \in 1 .. Len(Trimmed(path)) \div 2 |-> <<path[2 * i]>>]]

(* kmain makes each directory after the one it is in, and mounts at        *)
(* different places, none of them below another; devices are no files.     *)
Devices == {BootMounts[i].node : i \in DOMAIN BootMounts}
ASSUME VfsAssumption ==
    /\ Slash \notin Letters
    /\ MaxPath \in Nat \ {0} /\ MaxFiles \in Nat
    /\ PtyNames \subseteq {<<l>> : l \in Letters}
    /\ \A d \in BootDirs :
          /\ d \in Seq(Strings) /\ d # Root
          /\ \A k \in 1 .. Len(d) - 1 : SubSeq(d, 1, k) \in BootDirs
    /\ BootMounts \in Seq(Range(BootMounts))
    /\ \A i \in DOMAIN BootMounts : LET path == BootMounts[i].path IN
          /\ path \in PlainPaths /\ Trimmed(path) = path
          /\ \A j \in DOMAIN BootMounts \ {i} : ~IsPrefix(NamesIn[BootMounts[j].path], NamesIn[path])
    /\ \A node \in Devices \cup {PtyDir, Pty, Null} : node \notin Seq(Strings)
    /\ Null \notin Devices \cup {Pty} /\ Pty \notin Devices \cup {PtyDir, "file", "dir", "link"}

(* Files by the names that lead to them, devices, and none. *)
Nodes == Seq(Strings) \cup Devices \cup {Pty, Null}

VARIABLES
    tree,       \* the kind of each file, by the names that lead to it
    mounts,     \* the node at each mountpoint
    pty_map     \* the ptys that are listed: kmain makes one

vfsvars == <<tree, mounts, pty_map>>

(* What pty_get finds. *)
Listed == {name \in PtyNames : Pty \in pty_map}

(* finddir_tmpfs and finddir_pty; files and links have no finddir. *)
finddir(node, name) ==
    IF node = PtyDir THEN IF name \in Listed THEN Pty ELSE Null
    ELSE IF node \in DOMAIN tree /\ tree[node] = "dir" /\ Append(node, name) \in DOMAIN tree
           THEN Append(node, name) ELSE Null

-----------------------------------------------------------------------------
(* The first character of a token is not looked at: of slashes in a row    *)
(* inside a path every second one ends a token, the others begin one.      *)
EndsToken(s, p) ==
    /\ s[p] = Slash
    /\ \E q \in 1 .. p - 1 :
         /\ s[q] # Slash
         /\ \A r \in q + 1 .. p : s[r] = Slash
         /\ (p - q) % 2 = 1

(* The tokens of a string by the places where they end, each with the      *)
(* string up to there, which is what vfs_get_mountpoint sees.              *)
Split(s) ==
    LET letters == {p \in DOMAIN s : s[p] # Slash}
        ends == {p \in DOMAIN s : EndsToken(s, p)} \cup {Len(s) + 1}
        first(p) == LET before == {q \in ends : q < p} IN
                    IF before # {} THEN Max(before) + 1 ELSE Min(letters) IN
    [p \in IF letters = {} THEN {} ELSE ends |-> [name |-> SubSeq(s, first(p), p - 1),
                                                 upto |-> SubSeq(s, 1, p - 1)]]

(* Faulty: slashes at the end of a path end a token, too. *)
TokensUntrimmed == [path \in Paths |-> Split(path)]

Tokens == [path \in Paths |-> Split(Trimmed(path))]

(* What a token leads to from each node. *)
TokenNode(token) == [node \in Nodes |->
    IF node = Null THEN Null
    ELSE IF token.upto \in DOMAIN mounts THEN mounts[token.upto] ELSE finddir(node, token.name)]

(* wd of _kopen after the characters up to p. *)
Walk(path) ==
    LET tokens == Tokens[path]
        wd[p \in 0 .. Len(path) + 1] ==
            IF p = 0 THEN Root
            ELSE IF p \in DOMAIN tokens THEN TokenNode(tokens[p])[wd[p - 1]]
            ELSE wd[p - 1]
    IN wd

(* kopen, and kopen with OPEN_FLAG_PARENT, which stops before the last     *)
(* token; strings of slashes are the root.                                 *)
kopen(path) == Walk(path)[Len(path) + 1]
Parent(path) ==
    IF DOMAIN Tokens[path] = {} THEN Root ELSE Walk(path)[Max(DOMAIN Tokens[path]) - 1]

(* Faulty: a slash at the end begins the name. *)
FileNameAfterSlash == [path \in Paths |->
    LET slashes == {p \in DOMAIN path : path[p] = Slash} IN
    SubSeq(path, 1 + Max(slashes \cup {0}), Len(path))]

(* The name of a new file: what follows the last slash before a letter. *)
FileName == [path \in Paths |->
    LET before == {p \in 1 .. Len(path) - 1 : path[p] = Slash /\ path[p+1] # Slash} IN
    Trimmed(SubSeq(path, 1 + Max(before \cup {0}), Len(path)))]

-----------------------------------------------------------------------------
(* create, mkdir and symlink of tmpfs_from_dir; other nodes have none. *)
Make(node, name, kind) ==
    /\ Cardinality(DOMAIN tree) < MaxFiles
    /\ node \in DOMAIN tree /\ tree[node] = "dir"
    /\ LET new == Append(node, name) IN
       /\ new \notin DOMAIN tree
       /\ tree' = [f \in DOMAIN tree \cup {new} |-> IF f = new THEN kind ELSE tree[f]]

(* A pty makes and removes no files. *)
Refused(node) == node = Pty /\ UNCHANGED tree

(* close_fs, which for a pty is close_pty_slave: the name goes, whatever   *)
(* else has the pty open.                                                  *)
close_fs(node) == pty_map' = pty_map \ {node}

create_file(path) ==
    LET parent == Parent(path) IN
    /\ path \notin {<<>>, <<Slash>>}
    /\ finddir(parent, FileName[path]) = Null
    /\ Make(parent, FileName[path], "file") \/ Refused(parent)
    /\ close_fs(parent)

VfsInit ==
    /\ tree = [f \in {Root} \cup BootDirs |-> "dir"]
    /\ mounts = [path \in {} |-> Null]
    /\ pty_map = {Pty}

NMounts == Cardinality(DOMAIN mounts)

(* vfs_mount by kmain, before there are processes, where create_file       *)
(* returns 0.                                                              *)
vfs_mount ==
    /\ NMounts < Len(BootMounts)
    /\ LET m == BootMounts[NMounts + 1] IN
       /\ create_file(m.path) /\ ~Refused(Parent(m.path))
       /\ mounts' = [path \in DOMAIN mounts \cup {m.path} |->
                        IF path = m.path THEN m.node ELSE mounts[path]]

Booted == NMounts = Len(BootMounts)

(* sys_open with O_CREAT. *)
OpenNew(path) ==
    /\ Booted
    /\ kopen(path) = Null
    /\ create_file(path)
    /\ UNCHANGED mounts

mkdir(path) ==
    LET parent == Parent(path) IN
    /\ Booted
    /\ path # <<>> /\ FileName[path] # <<>>
    /\ finddir(parent, FileName[path]) = Null
    /\ Make(parent, FileName[path], "dir") \/ Refused(parent)
    /\ close_fs(parent)
    /\ UNCHANGED mounts

symlink(path) ==
    LET parent == Parent(path) IN
    /\ Booted
    /\ path # <<>>
    /\ Make(parent, FileName[path], "link") \/ Refused(parent)
    /\ close_fs(parent)
    /\ UNCHANGED mounts

(* Faulty: directories are removed, full or not. *)
RemoveAny(old) ==
    /\ old \in DOMAIN tree
    /\ tree' = [f \in DOMAIN tree \ {old} |-> tree[f]]

(* unlink of tmpfs_from_dir. *)
RemoveFile(old) ==
    /\ old \in DOMAIN tree /\ tree[old] # "dir"
    /\ tree' = [f \in DOMAIN tree \ {old} |-> tree[f]]

unlink(path) ==
    LET parent == Parent(path) IN
    /\ Booted
    /\ path # <<>>
    /\ RemoveFile(finddir(parent, FileName[path])) \/ Refused(parent)
    /\ close_fs(parent)
    /\ UNCHANGED mounts

(* What a path leads to is closed: by sys_stat, sys_access and sys_chmod,  *)
(* which opened it, or later by sys_close, dup2 or exit.                   *)
Close(path) ==
    /\ Booted
    /\ kopen(path) = Pty
    /\ close_fs(kopen(path))
    /\ UNCHANGED <<tree, mounts>>

VfsNext ==
    \/ vfs_mount
    \/ \E path \in Paths :
          OpenNew(path) \/ mkdir(path) \/ symlink(path) \/ unlink(path) \/ Close(path)

VfsSpec == VfsInit /\ [][VfsNext]_vfsvars

-----------------------------------------------------------------------------
(* What a sequence of names means. *)
Meaning(names) ==
    LET over == {path \in DOMAIN mounts : IsPrefix(NamesIn[path], names)} IN
    IF over = {} THEN IF names \in DOMAIN tree THEN names ELSE Null
    ELSE LET path == CHOOSE path \in over : TRUE
             depth == Len(NamesIn[path]) IN
         IF Len(names) = depth THEN mounts[path]
         ELSE IF mounts[path] = PtyDir /\ Len(names) = depth + 1 /\ Last(names) \in Listed
                THEN Pty ELSE Null

(* Every plain spelling of a path leads where its names lead, through      *)
(* mountpoints and whatever slashes stand at its end: the pointer walk of  *)
(* _kopen over the characters agrees with the tree.                        *)
PathsMeanNames == \A path \in PlainPaths : kopen(path) = Meaning(NamesIn[path])

(* sys_open with O_CREAT looks for the file, makes it and looks again with *)
(* the same string, and programs open what they made with mkdir and        *)
(* symlink: kopen, its parent mode and the file name of create_file, three *)
(* readings of one string, agree.                                          *)
CreatedIsFound ==
    [][\A new \in DOMAIN tree' \ DOMAIN tree : \A path \in PlainPaths :
            /\ FileName[path] = Last(new) /\ Parent(path) = Front(new)
            /\ kopen(path) = Null
            => kopen(path)' = new \/ new \in {NamesIn[m] : m \in DOMAIN mounts'}]_vfsvars

(* Calls with any string, also one that is not plain, change what plain    *)
(* paths lead to one name at a time; only a pty goes with whatever names   *)
(* it has, and it goes when any call closes it, also one that it refused.  *)
Spelling == [names \in {NamesIn[path] : path \in PlainPaths} |-> CHOOSE path \in PlainPaths : NamesIn[path] = names]
Kind[node \in Nodes] == IF node \in DOMAIN tree THEN tree[node] ELSE node

Space == INSTANCE Namespace WITH
    Mountable <- Devices,
    Served <- {Pty},
    Nothing <- Null,
    seen <- [names \in DOMAIN Spelling |-> Kind[kopen(Spelling[names])]]

ImplementsNamespace == Space!AbsSpec
=============================================================================
