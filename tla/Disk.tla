-------------------------------- MODULE Disk --------------------------------
(***************************************************************************)
(* A file tree as the commands that work on files see it: a function from  *)
(* paths to entries. A path is the sequence of its names and the root, the *)
(* empty path, is always there. A text is a sequence of chunks, an archive *)
(* a file with members, a symbolic link an entry with a target, followed   *)
(* one level. A hard link is a copy of its target: nothing here writes to  *)
(* a file that has two names.                                              *)
(*                                                                         *)
(* The host's file system is not part of the repository: these operators   *)
(* say what its calls do to the tree, and where a helper of nob.h is used  *)
(* instead of a call, what the helper does.                                *)
(***************************************************************************)
EXTENDS Naturals, SequencesExt

With(f, k, x)   == [j \in DOMAIN f \cup {k} |-> IF j = k THEN x ELSE f[j]]
Without(f, k)   == [j \in DOMAIN f \ {k} |-> f[j]]
Empty           == [k \in {} |-> k]

\* A chunk of a text: plain words, a reference to a variable in one of the
\* forms that configure_file() knows, or a generator expression.
Chunk(form, name) == [form |-> form, name |-> name]
Words(name)       == <<Chunk("plain", name)>>

Entry(kind, text, target, members) ==
    [kind |-> kind, text |-> text, mode |-> "default", target |-> target, members |-> members]
FileOf(text)       == Entry("file", text, <<>>, Empty)
ArchiveOf(members) == Entry("file", <<>>, <<>>, members)
LinkTo(target)     == Entry("link", <<>>, target, Empty)
Directory          == Entry("dir", <<>>, <<>>, Empty)

\* What stat finds at p; lstat would not follow the link.
Follow(d, p) == IF p \in DOMAIN d /\ d[p].kind = "link" THEN d[p].target ELSE p
IsThere(d, p) == p = <<>> \/ p \in DOMAIN d
Exists(d, p) == IsThere(d, Follow(d, p))
IsDir(d, p)  == Follow(d, p) = <<>> \/ (Follow(d, p) \in DOMAIN d /\ d[Follow(d, p)].kind = "dir")
IsFileAt(d, p) == Exists(d, p) /\ ~IsDir(d, p)
TextAt(d, p) == d[Follow(d, p)].text
Inside(d, p) == {q \in DOMAIN d : IsStrictPrefix(p, q)}

\* mkdir of p and of what is above it, by nob_mkdir_if_not_exists, which takes
\* anything of that name for the directory.
Above(p)     == {SubSeq(p, 1, n) : n \in 1..(Len(p) - 1)}
CanMkdir(d, p) == \A q \in Above(p) : Exists(d, q) => IsDir(d, q)
Mkdir(d, p)    ==
    LET made == (Above(p) \cup {p}) \ {<<>>}
    IN  [q \in DOMAIN d \cup made |-> IF q \in DOMAIN d THEN d[q] ELSE Directory]

\* fopen(p, "wb") and what is written; the file keeps its mode.
CanWrite(d, p) == IsDir(d, Front(p)) /\ ~IsDir(d, p)
Put(d, p, text) ==
    LET q == Follow(d, p)
    IN  With(d, q, IF q \in DOMAIN d THEN [d[q] EXCEPT !.text = text, !.members = Empty] ELSE FileOf(text))

\* A copy of the entry at p (of what a link leads to) at q.
PutCopy(d, p, q, from) == With(d, q, from[Follow(from, p)])

\* unlink, and the removal of a tree.
Unlink(d, p)     == Without(d, p)
RemoveTree(d, p) == [q \in {r \in DOMAIN d : ~IsPrefix(p, r)} |-> d[q]]

\* rename(p, q): fails on a missing p, on a q that is a directory unless p is one
\* and q is empty, on a q below p, and when the directory of q is not there.
CanRename(d, p, q) ==
    /\ p \in DOMAIN d /\ IsDir(d, Front(q)) /\ ~IsStrictPrefix(p, q)
    /\ q \in DOMAIN d => (d[p].kind = "dir") = (d[q].kind = "dir")
    /\ Inside(d, q) = {} \/ p = q
Renamed(p, q, r) == q \o SubSeq(r, Len(p) + 1, Len(r))
Rename(d, p, q) ==
    LET moved == {r \in DOMAIN d : IsPrefix(p, r)}
        back(r) == CHOOSE m \in moved : Renamed(p, q, m) = r
    IN  IF p = q THEN d
        ELSE [r \in (DOMAIN d \ moved) \cup {Renamed(p, q, m) : m \in moved} |->
                 IF \E m \in moved : Renamed(p, q, m) = r THEN d[back(r)] ELSE d[r]]

\* A copy of the tree at p onto q: directories are merged, files replaced.
PutTree(d, p, q, from) ==
    LET copied == {r \in DOMAIN from : IsPrefix(p, r)}
        back(r) == CHOOSE m \in copied : Renamed(p, q, m) = r
    IN  [r \in DOMAIN d \cup {Renamed(p, q, m) : m \in copied} |->
            IF \E m \in copied : Renamed(p, q, m) = r
            THEN IF r \in DOMAIN d /\ d[r].kind = "dir" /\ from[back(r)].kind = "dir" THEN d[r] ELSE from[back(r)]
            ELSE d[r]]

\* The files there are, through links: their texts and what is packed in them.
Contents(d) == [p \in {q \in DOMAIN d : IsFileAt(d, q)} |-> <<TextAt(d, p), d[Follow(d, p)].members>>]

=============================================================================
